-------------------------- MODULE WalkForwardProofs --------------------------
(***************************************************************************)
(* The sample of a walk-forward, for any series of candles, any results of *)
(* the trades, any number of windows and any cut: the trades of the many   *)
(* runs are those of one that lie inside a block and that the run of the   *)
(* block sees closed, and the figures are those of the trades.             *)
(***************************************************************************)
EXTENDS WalkForward, SetLemmas

-----------------------------------------------------------------------------
(* Recursion and induction *)

\* A function that starts at base and goes on by F exists.
Goes(g, X, base, F, k) ==
    g \in [0 .. k -> X] /\ g[0] = base /\ \A n \in 1 .. k : g[n] = F[<<n, g[n - 1]>>]
\* What starts somewhere and goes on by a rule can be gone on with any number of times.
LEMMA Iterated ==
    ASSUME NEW X, NEW base \in X, NEW m \in Nat, NEW F \in [(1 .. m) \X X -> X]
    PROVE  \E g : Goes(g, X, base, F, m)
<1> DEFINE B == {k \in 0 .. m : ~ \E g : Goes(g, X, base, F, k)}
<1> SUFFICES ASSUME B # {} PROVE FALSE
  OBVIOUS
<1> DEFINE k == Min(B)
<1>1. k \in B /\ \A j \in B : k <= j
  <2>1. B \in SUBSET Nat
    OBVIOUS
  <2> HIDE DEF B
  <2> QED BY <2>1, MinIn
<1> HIDE DEF k
<1>2. k \in 0 .. m /\ ~ \E g : Goes(g, X, base, F, k)
  BY <1>1
<1>3. k # 0
  <2> SUFFICES ASSUME k = 0 PROVE FALSE
    OBVIOUS
  <2> DEFINE g == [n \in 0 .. 0 |-> base]
  <2>1. g \in [0 .. 0 -> X] /\ g[0] = base /\ \A n \in 1 .. 0 : FALSE
    OBVIOUS
  <2> HIDE DEF g
  <2>2. Goes(g, X, base, F, 0)
    BY <2>1 DEF Goes
  <2> QED BY <1>2, <2>2
<1>4. k - 1 \in 0 .. m /\ k - 1 \notin B
  BY <1>1, <1>2, <1>3
<1>5. PICK g : Goes(g, X, base, F, k - 1)
  BY <1>4
<1> DEFINE h == [n \in 0 .. k |-> IF n = k THEN F[<<k, g[k - 1]>>] ELSE g[n]]
<1>6. g[k - 1] \in X /\ F[<<k, g[k - 1]>>] \in X
  <2>1. g[k - 1] \in X
    BY <1>2, <1>3, <1>5 DEF Goes
  <2>2. <<k, g[k - 1]>> \in (1 .. m) \X X
    BY <1>2, <1>3, <2>1
  <2> QED BY <2>1, <2>2
<1>7. h \in [0 .. k -> X]
  <2>1. \A n \in 0 .. k : n # k => n \in 0 .. k - 1
    BY <1>2
  <2> QED BY <1>5, <1>6, <2>1 DEF Goes
<1>8. h[0] = base
  BY <1>2, <1>3, <1>5 DEF Goes
<1>9. ASSUME NEW n \in 1 .. k PROVE h[n] = F[<<n, h[n - 1]>>]
  <2>1. n - 1 \in 0 .. k /\ n - 1 # k /\ h[n - 1] = g[n - 1]
    BY <1>2
  <2>2. CASE n = k
    BY <2>1, <2>2
  <2>3. CASE n # k
    <3>1. n \in 1 .. k - 1 /\ n \in 0 .. k
      BY <1>2, <2>3
    <3>2. g[n] = F[<<n, g[n - 1]>>]
      BY <1>5, <3>1 DEF Goes
    <3> QED BY <2>1, <2>3, <3>1, <3>2
  <2> QED BY <2>2, <2>3
<1> HIDE DEF h
<1>10. Goes(h, X, base, F, k)
  BY <1>7, <1>8, <1>9 DEF Goes
<1> QED
  BY <1>2, <1>10

\* A sequence that is not empty is what is before its last element, and that.
LEMMA FrontAndLast ==
    ASSUME NEW T, NEW s \in Seq(T), s # << >>
    PROVE  LET front == SubSeq(s, 1, Len(s) - 1)
           IN  /\ front \in Seq(T) /\ s[Len(s)] \in T
               /\ Len(front) = Len(s) - 1 /\ Len(s) - 1 \in Nat
               /\ s = Append(front, s[Len(s)])
<1> DEFINE n == Len(s)
           front == SubSeq(s, 1, n - 1)
<1>1. n \in Nat \ {0} /\ DOMAIN s = 1 .. n
  OBVIOUS
<1>2. front \in Seq(T) /\ Len(front) = n - 1 /\ \A i \in 1 .. n - 1 : front[i] = s[i]
  BY <1>1
<1>3. s[n] \in T
  BY <1>1
<1> HIDE DEF n, front
<1>4. Append(front, s[n]) \in Seq(T) /\ Len(Append(front, s[n])) = n
  BY <1>1, <1>2, <1>3
<1>5. ASSUME NEW i \in 1 .. n PROVE Append(front, s[n])[i] = s[i]
  <2>1. CASE i = n
    BY <1>1, <1>2, <1>3, <2>1
  <2>2. CASE i # n
    BY <1>1, <1>2, <1>3, <2>2
  <2> QED BY <2>1, <2>2
<1>6. s = Append(front, s[n])
  <2>1. DOMAIN s = 1 .. n /\ DOMAIN Append(front, s[n]) = 1 .. n
    BY <1>1, <1>4
  <2>2. s = [i \in 1 .. n |-> s[i]]
    BY <2>1
  <2>3. Append(front, s[n]) = [i \in 1 .. n |-> Append(front, s[n])[i]]
    BY <1>4, <2>1
  <2> QED BY <1>5, <2>2, <2>3
<1> QED
  BY <1>1, <1>2, <1>3, <1>6 DEF n, front

\* Among the sequences of a set some one is a shortest.
LEMMA Shortest ==
    ASSUME NEW T, NEW B \in SUBSET Seq(T), B # {}
    PROVE  \E s \in B : \A u \in B : Len(s) <= Len(u)
<1> DEFINE N == {Len(s) : s \in B}
<1>1. N \in SUBSET Nat /\ N # {}
  <2>1. \A s \in B : s \in Seq(T)
    OBVIOUS
  <2>2. \A s \in B : Len(s) \in Nat
    BY <2>1
  <2> QED BY <2>2
<1> HIDE DEF N
<1>2. Min(N) \in N /\ \A n \in N : Min(N) <= n
  BY <1>1, MinIn
<1> QED
  BY <1>2 DEF N

\* The elements of a sequence with one more.
LEMMA AppendSet ==
    ASSUME NEW T, NEW s \in Seq(T), NEW t \in T
    PROVE  ToSet(Append(s, t)) = ToSet(s) \cup {t}
<1> DEFINE n == Len(s)
           u == Append(s, t)
<1>1. /\ n \in Nat /\ DOMAIN s = 1 .. n /\ DOMAIN u = 1 .. n + 1
      /\ u[n + 1] = t /\ \A i \in 1 .. n : u[i] = s[i]
  OBVIOUS
<1> HIDE DEF n, u
<1>2. \A i \in 1 .. n + 1 : i = n + 1 \/ i \in 1 .. n
  BY <1>1
<1>3. n + 1 \in 1 .. n + 1 /\ \A i \in 1 .. n : i \in 1 .. n + 1
  BY <1>1
<1>4. ToSet(u) = ToSet(s) \cup {t}
  BY <1>1, <1>2, <1>3 DEF ToSet
<1> QED BY <1>4 DEF u

-----------------------------------------------------------------------------
(* The trades of a set, in their order *)

\* The function TradesIn counts with.
Keeps(g, s, S) ==
    g = [n \in 0 .. Len(s) |->
            IF n = 0 THEN << >>
            ELSE IF s[n] \in S THEN Append(g[n - 1], s[n]) ELSE g[n - 1]]

\* There is one, of sequences of trades.
LEMMA KeepsExists ==
    ASSUME NEW T, NEW s \in Seq(T), NEW S
    PROVE  \E g : Keeps(g, s, S) /\ \A n \in 0 .. Len(s) : g[n] \in Seq(T)
<1> DEFINE m == Len(s)
           X == Seq(T)
           F == [x \in (1 .. m) \X X |-> IF s[x[1]] \in S THEN Append(x[2], s[x[1]]) ELSE x[2]]
<1>1. m \in Nat /\ \A n \in 1 .. m : s[n] \in T
  OBVIOUS
<1>2. F \in [(1 .. m) \X X -> X]
  <2> HIDE DEF m
  <2>1. \A x \in (1 .. m) \X X : x[1] \in 1 .. m /\ x[2] \in Seq(T)
    OBVIOUS
  <2>2. \A x \in (1 .. m) \X X : Append(x[2], s[x[1]]) \in Seq(T)
    BY <1>1, <2>1
  <2> QED BY <2>1, <2>2
<1>3. << >> \in X
  OBVIOUS
<1>4. \A n \in 1 .. m, x \in X : F[<<n, x>>] = IF s[n] \in S THEN Append(x, s[n]) ELSE x
  BY Zenon
<1> HIDE DEF m, F
<1>5. PICK g : Goes(g, X, << >>, F, m)
  <2> HIDE DEF X
  <2> QED BY <1>1, <1>2, <1>3, Iterated
<1>6. g \in [0 .. m -> X] /\ g[0] = << >> /\ \A n \in 1 .. m : g[n] = F[<<n, g[n - 1]>>]
  BY <1>5 DEF Goes
<1> HIDE DEF X
<1>7. ASSUME NEW n \in 1 .. m
      PROVE  g[n] = IF s[n] \in S THEN Append(g[n - 1], s[n]) ELSE g[n - 1]
  <2>1. n - 1 \in 0 .. m
    BY <1>1
  <2>2. g[n - 1] \in X
    BY <1>6, <2>1
  <2> QED BY <1>4, <1>6, <2>2
<1>8. g = [n \in 0 .. m |-> IF n = 0 THEN << >>
                            ELSE IF s[n] \in S THEN Append(g[n - 1], s[n]) ELSE g[n - 1]]
  <2>1. \A n \in 0 .. m : n # 0 => n \in 1 .. m
    BY <1>1
  <2>2. \A n \in 0 .. m : g[n] = IF n = 0 THEN << >>
                                 ELSE IF s[n] \in S THEN Append(g[n - 1], s[n]) ELSE g[n - 1]
    BY <1>6, <1>7, <2>1
  <2> QED BY <1>6, <2>2
<1>9. Keeps(g, s, S)
  BY <1>8 DEF Keeps, m
<1>10. \A n \in 0 .. Len(s) : g[n] \in Seq(T)
  BY <1>6 DEF X, m
<1> QED BY <1>9, <1>10

\* It does not depend on what comes after.
LEMMA KeepsAgree ==
    ASSUME NEW T, NEW s \in Seq(T), NEW u \in Seq(T), NEW S, NEW g, NEW h,
           Keeps(g, s, S), Keeps(h, u, S), Len(s) <= Len(u), \A i \in 1 .. Len(s) : s[i] = u[i]
    PROVE  \A n \in 0 .. Len(s) : g[n] = h[n]
<1> DEFINE B == {n \in 0 .. Len(s) : g[n] # h[n]}
<1> SUFFICES ASSUME B # {} PROVE FALSE
  OBVIOUS
<1> DEFINE k == Min(B)
<1>1. k \in B /\ \A j \in B : k <= j
  <2>1. B \in SUBSET Nat
    OBVIOUS
  <2> HIDE DEF B
  <2> QED BY <2>1, MinIn
<1> HIDE DEF k
<1> DEFINE a == Len(s)
           b == Len(u)
<1>2. k \in 0 .. a /\ g[k] # h[k] /\ a \in Nat /\ b \in Nat /\ a <= b
  BY <1>1
<1>3. \A n \in 0 .. a : n < k => g[n] = h[n]
  BY <1>1
<1> HIDE DEF B
<1>4. /\ \A n \in 0 .. a : g[n] = IF n = 0 THEN << >>
                                ELSE IF s[n] \in S THEN Append(g[n - 1], s[n]) ELSE g[n - 1]
      /\ \A n \in 0 .. b : h[n] = IF n = 0 THEN << >>
                                ELSE IF u[n] \in S THEN Append(h[n - 1], u[n]) ELSE h[n - 1]
  BY DEF Keeps
<1>5. k \in 0 .. b
  BY <1>2
<1>6. k # 0
  BY <1>2, <1>4, <1>5
<1>7. k \in 1 .. a /\ k - 1 \in 0 .. a /\ k - 1 < k
  BY <1>2, <1>6
<1>8. s[k] = u[k] /\ g[k - 1] = h[k - 1]
  BY <1>3, <1>7
<1> HIDE DEF a, b
<1> QED
  BY <1>2, <1>4, <1>5, <1>6, <1>8

\* What TradesIn is: nothing of nothing, and of one trade more that trade more, if
\* it is in the set.
LEMMA InNone == ASSUME NEW S PROVE TradesIn(<< >>, S) = << >>
<1> DEFINE s == << >>
           g == CHOOSE f : Keeps(f, s, S)
<1>1. s \in Seq({}) /\ Len(s) = 0
  OBVIOUS
<1>2. TradesIn(s, S) = g[Len(s)]
  BY Zenon DEF TradesIn, Keeps
<1> HIDE DEF s
<1>3. Keeps(g, s, S)
  <2>1. \E f : Keeps(f, s, S)
    BY <1>1, KeepsExists
  <2> QED BY <2>1
<1> HIDE DEF g
<1>4. g[0] = << >>
  BY <1>1, <1>3 DEF Keeps
<1> QED
  BY <1>1, <1>2, <1>4 DEF s

\* One trade more is kept at the end, or not at all.
LEMMA InOneMore ==
    ASSUME NEW T, NEW s \in Seq(T), NEW t \in T, NEW S
    PROVE  TradesIn(Append(s, t), S) =
             IF t \in S THEN Append(TradesIn(s, S), t) ELSE TradesIn(s, S)
<1> DEFINE u == Append(s, t)
           g == CHOOSE f : Keeps(f, s, S)
           h == CHOOSE f : Keeps(f, u, S)
           n == Len(s)
<1>1. n \in Nat /\ u \in Seq(T) /\ Len(u) = n + 1 /\ u[n + 1] = t /\ \A i \in 1 .. n : u[i] = s[i]
  OBVIOUS
<1>2. TradesIn(s, S) = g[n] /\ TradesIn(u, S) = h[Len(u)]
  BY Zenon DEF TradesIn, Keeps
<1> HIDE DEF u
<1>3. Keeps(g, s, S)
  <2>1. \E f : Keeps(f, s, S)
    BY KeepsExists
  <2> QED BY <2>1
<1>4. Keeps(h, u, S)
  <2>1. \E f : Keeps(f, u, S)
    BY <1>1, KeepsExists
  <2> QED BY <2>1
<1> HIDE DEF g, h
<1>5. g[n] = h[n]
  <2>1. \A i \in 1 .. Len(s) : s[i] = u[i]
    BY <1>1
  <2>2. Len(s) <= Len(u)
    BY <1>1
  <2>3. \A i \in 0 .. Len(s) : g[i] = h[i]
    BY <1>1, <1>3, <1>4, <2>1, <2>2, KeepsAgree
  <2> QED BY <1>1, <2>3
<1>6. h[n + 1] = IF u[n + 1] \in S THEN Append(h[n], u[n + 1]) ELSE h[n]
  <2>1. n + 1 \in 0 .. Len(u) /\ n + 1 # 0 /\ (n + 1) - 1 = n
    BY <1>1
  <2>2. \A i \in 0 .. Len(u) : h[i] = IF i = 0 THEN << >>
                                     ELSE IF u[i] \in S THEN Append(h[i - 1], u[i]) ELSE h[i - 1]
    BY <1>4 DEF Keeps
  <2> QED BY <2>1, <2>2
<1> HIDE DEF n
<1> QED
  BY <1>1, <1>2, <1>5, <1>6 DEF u

\* They are trades of the sequence and of the set, and all that are of both.
LEMMA InBoth ==
    ASSUME NEW T, NEW S, NEW s \in Seq(T)
    PROVE  TradesIn(s, S) \in Seq(T) /\ ToSet(TradesIn(s, S)) = ToSet(s) \cap S
<1> DEFINE Good(u) == TradesIn(u, S) \in Seq(T) /\ ToSet(TradesIn(u, S)) = ToSet(u) \cap S
           B == {u \in Seq(T) : ~ Good(u)}
<1> SUFFICES ASSUME B # {} PROVE FALSE
  OBVIOUS
<1>1. PICK u \in B : \A x \in B : Len(u) <= Len(x)
  <2>1. B \in SUBSET Seq(T)
    OBVIOUS
  <2> HIDE DEF B
  <2> QED BY <2>1, Shortest
<1>2. u \in Seq(T) /\ ~ Good(u)
  BY <1>1
<1>3. u # << >>
  BY <1>2, InNone DEF ToSet
<1> DEFINE front == SubSeq(u, 1, Len(u) - 1)
           last == u[Len(u)]
<1>4. /\ front \in Seq(T) /\ last \in T /\ u = Append(front, last)
      /\ Len(front) = Len(u) - 1 /\ Len(u) - 1 \in Nat
  BY <1>2, <1>3, FrontAndLast
<1> HIDE DEF front, last
<1>5. Good(front)
  <2>1. Len(front) < Len(u)
    BY <1>2, <1>4
  <2> QED BY <1>1, <1>2, <1>4, <2>1
<1>6. TradesIn(u, S) = IF last \in S THEN Append(TradesIn(front, S), last) ELSE TradesIn(front, S)
  BY <1>4, InOneMore
<1>7. \A x \in Seq(T), e \in T : ToSet(Append(x, e)) = ToSet(x) \cup {e}
  BY AppendSet
<1> QED
  BY <1>2, <1>4, <1>5, <1>6, <1>7

\* Only what the set says of these trades matters.
LEMMA InSame ==
    ASSUME NEW T, NEW S, NEW U, NEW s \in Seq(T), ToSet(s) \cap S = ToSet(s) \cap U
    PROVE  TradesIn(s, S) = TradesIn(s, U)
<1> DEFINE Agree(u) == ToSet(u) \cap S = ToSet(u) \cap U
           Good(u) == TradesIn(u, S) = TradesIn(u, U)
           B == {u \in Seq(T) : Agree(u) /\ ~ Good(u)}
<1> SUFFICES ASSUME B # {} PROVE FALSE
  OBVIOUS
<1>1. PICK u \in B : \A x \in B : Len(u) <= Len(x)
  <2>1. B \in SUBSET Seq(T)
    OBVIOUS
  <2> HIDE DEF B
  <2> QED BY <2>1, Shortest
<1>2. u \in Seq(T) /\ Agree(u) /\ ~ Good(u)
  BY <1>1
<1>3. u # << >>
  BY <1>2, InNone
<1> DEFINE front == SubSeq(u, 1, Len(u) - 1)
           last == u[Len(u)]
<1>4. /\ front \in Seq(T) /\ last \in T /\ u = Append(front, last)
      /\ Len(front) = Len(u) - 1 /\ Len(u) - 1 \in Nat
  BY <1>2, <1>3, FrontAndLast
<1> HIDE DEF front, last
<1>5. ToSet(u) = ToSet(front) \cup {last}
  BY <1>4, AppendSet
<1>6. Agree(front) /\ (last \in S <=> last \in U)
  BY <1>2, <1>5
<1>7. Good(front)
  <2>1. Len(front) < Len(u)
    BY <1>2, <1>4
  <2> QED BY <1>1, <1>2, <1>4, <1>6, <2>1
<1>8. /\ TradesIn(u, S) = IF last \in S THEN Append(TradesIn(front, S), last) ELSE TradesIn(front, S)
      /\ TradesIn(u, U) = IF last \in U THEN Append(TradesIn(front, U), last) ELSE TradesIn(front, U)
  BY <1>4, InOneMore
<1> QED
  BY <1>2, <1>6, <1>7, <1>8

\* What all are in is the whole.
LEMMA InAll ==
    ASSUME NEW T, NEW S, NEW s \in Seq(T), ToSet(s) \subseteq S
    PROVE  TradesIn(s, S) = s
<1> DEFINE B == {u \in Seq(T) : ToSet(u) \subseteq S /\ TradesIn(u, S) # u}
<1> SUFFICES ASSUME B # {} PROVE FALSE
  OBVIOUS
<1>1. PICK u \in B : \A x \in B : Len(u) <= Len(x)
  <2>1. B \in SUBSET Seq(T)
    OBVIOUS
  <2> HIDE DEF B
  <2> QED BY <2>1, Shortest
<1>2. u \in Seq(T) /\ ToSet(u) \subseteq S /\ TradesIn(u, S) # u
  BY <1>1
<1>3. u # << >>
  BY <1>2, InNone
<1> DEFINE front == SubSeq(u, 1, Len(u) - 1)
           last == u[Len(u)]
<1>4. /\ front \in Seq(T) /\ last \in T /\ u = Append(front, last)
      /\ Len(front) = Len(u) - 1 /\ Len(u) - 1 \in Nat
  BY <1>2, <1>3, FrontAndLast
<1> HIDE DEF front, last
<1>5. ToSet(u) = ToSet(front) \cup {last}
  BY <1>4, AppendSet
<1>6. TradesIn(front, S) = front
  <2>1. Len(front) < Len(u) /\ ToSet(front) \subseteq S
    BY <1>2, <1>4, <1>5
  <2> QED BY <1>1, <1>2, <1>4, <2>1
<1>7. TradesIn(u, S) = IF last \in S THEN Append(TradesIn(front, S), last) ELSE TradesIn(front, S)
  BY <1>4, InOneMore
<1> QED
  BY <1>2, <1>4, <1>5, <1>6, <1>7

\* Those of one set that are of another are those of both.
LEMMA InWithin ==
    ASSUME NEW T, NEW S, NEW U, NEW s \in Seq(T)
    PROVE  TradesIn(TradesIn(s, S), U) = TradesIn(s, S \cap U)
<1> DEFINE V == S \cap U
           Good(u) == TradesIn(TradesIn(u, S), U) = TradesIn(u, V)
           B == {u \in Seq(T) : ~ Good(u)}
<1> SUFFICES ASSUME B # {} PROVE FALSE
  OBVIOUS
<1>0. \A x : x \in V <=> x \in S /\ x \in U
  OBVIOUS
<1> HIDE DEF V
<1>1. PICK u \in B : \A x \in B : Len(u) <= Len(x)
  <2>1. B \in SUBSET Seq(T)
    OBVIOUS
  <2> HIDE DEF B
  <2> QED BY <2>1, Shortest
<1>2. u \in Seq(T) /\ ~ Good(u)
  BY <1>1
<1>3. u # << >>
  BY <1>2, InNone
<1> DEFINE front == SubSeq(u, 1, Len(u) - 1)
           last == u[Len(u)]
<1>4. /\ front \in Seq(T) /\ last \in T /\ u = Append(front, last)
      /\ Len(front) = Len(u) - 1 /\ Len(u) - 1 \in Nat
  BY <1>2, <1>3, FrontAndLast
<1> HIDE DEF front, last
<1>5. Good(front)
  <2>1. Len(front) < Len(u)
    BY <1>2, <1>4
  <2> QED BY <1>1, <1>2, <1>4, <2>1
<1>6. \A W : TradesIn(u, W) = IF last \in W THEN Append(TradesIn(front, W), last) ELSE TradesIn(front, W)
  BY <1>4, InOneMore
<1> DEFINE f == TradesIn(front, S)
<1>7. f \in Seq(T)
  BY <1>4, InBoth
<1> HIDE DEF f
<1>8. TradesIn(Append(f, last), U) = IF last \in U THEN Append(TradesIn(f, U), last) ELSE TradesIn(f, U)
  BY <1>4, <1>7, InOneMore
<1>9. TradesIn(u, S) = IF last \in S THEN Append(f, last) ELSE f
  BY <1>6 DEF f
<1>10. TradesIn(u, V) = IF last \in V THEN Append(TradesIn(front, V), last) ELSE TradesIn(front, V)
  BY <1>6
<1>11. TradesIn(f, U) = TradesIn(front, V)
  BY <1>5 DEF f
<1>12. ASSUME last \in S PROVE Good(u)
  BY <1>0, <1>8, <1>9, <1>10, <1>11, <1>12
<1>13. ASSUME last \notin S PROVE Good(u)
  BY <1>0, <1>9, <1>10, <1>11, <1>13
<1> QED
  BY <1>2, <1>12, <1>13

\* What is in a set and what is not make up the whole.
LEMMA InRest ==
    ASSUME NEW T, NEW S, NEW s \in Seq(T)
    PROVE  /\ Len(TradesIn(s, S)) \in Nat /\ Len(TradesIn(s, ToSet(s) \ S)) \in Nat
           /\ Len(TradesIn(s, S)) + Len(TradesIn(s, ToSet(s) \ S)) = Len(s)
<1> DEFINE R == T \ S
           Good(u) == Len(TradesIn(u, S)) + Len(TradesIn(u, R)) = Len(u)
           B == {u \in Seq(T) : ~ Good(u)}
<1>1. TradesIn(s, ToSet(s) \ S) = TradesIn(s, R)
  <2>1. ToSet(s) \cap (ToSet(s) \ S) = ToSet(s) \cap R
    BY DEF ToSet
  <2> HIDE DEF R
  <2> QED BY <2>1, InSame
<1>2. \A u \in Seq(T) : Len(TradesIn(u, S)) \in Nat /\ Len(TradesIn(u, R)) \in Nat
  <2> HIDE DEF R
  <2>1. \A u \in Seq(T) : TradesIn(u, S) \in Seq(T) /\ TradesIn(u, R) \in Seq(T)
    BY InBoth
  <2> QED BY <2>1
<1> SUFFICES ASSUME B # {} PROVE FALSE
  BY <1>1, <1>2
<1>3. PICK u \in B : \A x \in B : Len(u) <= Len(x)
  <2>1. B \in SUBSET Seq(T)
    OBVIOUS
  <2> HIDE DEF B
  <2> QED BY <2>1, Shortest
<1>4. u \in Seq(T) /\ ~ Good(u)
  BY <1>3
<1>5. u # << >>
  <2>1. Len(<< >>) = 0
    OBVIOUS
  <2> HIDE DEF R
  <2> QED BY <1>4, <2>1, InNone
<1> DEFINE front == SubSeq(u, 1, Len(u) - 1)
           last == u[Len(u)]
<1>6. /\ front \in Seq(T) /\ last \in T /\ u = Append(front, last)
      /\ Len(front) = Len(u) - 1 /\ Len(u) - 1 \in Nat
  BY <1>4, <1>5, FrontAndLast
<1> HIDE DEF front, last
<1>7. Good(front)
  <2>1. Len(front) < Len(u)
    BY <1>4, <1>6
  <2> HIDE DEF R
  <2> QED BY <1>3, <1>4, <1>6, <2>1
<1>8. last \in S <=> last \notin R
  BY <1>6
<1>9. /\ TradesIn(u, S) = IF last \in S THEN Append(TradesIn(front, S), last) ELSE TradesIn(front, S)
      /\ TradesIn(u, R) = IF last \in R THEN Append(TradesIn(front, R), last) ELSE TradesIn(front, R)
  <2> HIDE DEF R
  <2> QED BY <1>6, InOneMore
<1>10. TradesIn(front, S) \in Seq(T) /\ TradesIn(front, R) \in Seq(T)
  <2> HIDE DEF R
  <2> QED BY <1>6, InBoth
<1> HIDE DEF R
<1>11. \A x \in Seq(T) : Len(x) \in Nat /\ Len(Append(x, last)) = Len(x) + 1
  BY <1>6
<1> DEFINE x == TradesIn(front, S)
           y == TradesIn(front, R)
<1> HIDE DEF x, y
<1>12. CASE last \in S
  <2>1. TradesIn(u, S) = Append(x, last) /\ TradesIn(u, R) = y
    BY <1>8, <1>9, <1>12 DEF x, y
  <2>2. Len(TradesIn(u, S)) = Len(x) + 1 /\ Len(x) \in Nat /\ Len(y) \in Nat
    BY <1>10, <1>11, <2>1 DEF x, y
  <2>3. Len(x) + Len(y) = Len(front)
    BY <1>7 DEF x, y
  <2> QED BY <1>4, <1>6, <2>1, <2>2, <2>3
<1>13. CASE last \notin S
  <2>1. TradesIn(u, S) = x /\ TradesIn(u, R) = Append(y, last)
    BY <1>8, <1>9, <1>13 DEF x, y
  <2>2. Len(TradesIn(u, R)) = Len(y) + 1 /\ Len(x) \in Nat /\ Len(y) \in Nat
    BY <1>10, <1>11, <2>1 DEF x, y
  <2>3. Len(x) + Len(y) = Len(front)
    BY <1>7 DEF x, y
  <2> QED BY <1>4, <1>6, <2>1, <2>2, <2>3
<1> QED
  BY <1>12, <1>13

-----------------------------------------------------------------------------
(* Totals *)

\* A total is the sum of the lemmas: nothing of nothing, and one amount more.
LEMMA TotalIsSum == ASSUME NEW a PROVE Total(a) = SumOver(a, DOMAIN a)
BY DEF Total, SumOver

\* The total of nothing.
LEMMA TotalNothing == ASSUME NEW a, DOMAIN a = {} PROVE Total(a) = 0
BY TotalIsSum, TotalEmpty

\* A sum of zeros, however many.
LEMMA TotalOfNothing ==
    ASSUME NEW a, NEW K, IsFiniteSet(K), \A k \in K : a[k] = 0
    PROVE  SumOver(a, K) = 0
<1> DEFINE B == {u \in SUBSET K : SumOver(a, u) # 0}
<1> SUFFICES ASSUME B # {} PROVE FALSE
  OBVIOUS
<1>1. PICK u \in B : \A x \in B : x \subseteq u => x = u
  <2>1. B \subseteq SUBSET K
    OBVIOUS
  <2> HIDE DEF B
  <2> QED BY <2>1, SmallestPart
<1>2. u \in SUBSET K /\ SumOver(a, u) # 0
  BY <1>1
<1>3. PICK e \in u : TRUE
  BY <1>2, TotalEmpty
<1>4. SumOver(a, u \ {e}) = 0
  <2>1. u \ {e} \subseteq u /\ u \ {e} # u /\ u \ {e} \in SUBSET K
    BY <1>2, <1>3
  <2>2. u \ {e} \notin B
    BY <1>1, <2>1
  <2> QED BY <2>1, <2>2
<1>5. SumOver(a, u) = a[e] + SumOver(a, u \ {e})
  <2> HIDE DEF B
  <2>1. IsFiniteSet(u)
    BY <1>2, FS_Subset
  <2>2. \A x \in u : a[x] \in Int
    BY <1>2
  <2> QED BY <1>3, <2>1, <2>2, TotalMinus
<1>6. a[e] = 0
  BY <1>2, <1>3
<1> QED
  BY <1>2, <1>4, <1>5, <1>6

\* The total of a series grows by its last amount.
LEMMA TotalOneMore ==
    ASSUME NEW n \in Nat, NEW a, NEW b, DOMAIN a = 1 .. n + 1, DOMAIN b = 1 .. n,
           \A i \in 1 .. n : b[i] \in Int /\ a[i] = b[i], a[n + 1] \in Int
    PROVE  Total(a) = Total(b) + a[n + 1] /\ Total(b) \in Int
<1>1. IsFiniteSet(1 .. n) /\ n + 1 \notin 1 .. n /\ (1 .. n) \cup {n + 1} = 1 .. n + 1
  <2>1. IsFiniteSet(1 .. n)
    BY FS_Interval
  <2> QED BY <2>1
<1>2. SumOver(a, (1 .. n) \cup {n + 1}) = SumOver(a, 1 .. n) + a[n + 1]
  <2> DEFINE S == 1 .. n
             e == n + 1
  <2>1. IsFiniteSet(S) /\ e \notin S /\ a[e] \in Int /\ \A i \in S : a[i] \in Int
    BY <1>1
  <2> HIDE DEF S, e
  <2>2. SumOver(a, S \cup {e}) = SumOver(a, S) + a[e]
    BY <2>1, TotalPlus
  <2> QED BY <2>2 DEF S, e
<1>3. SumOver(a, 1 .. n) = SumOver(b, 1 .. n)
  BY <1>1, TotalSame
<1>4. SumOver(b, 1 .. n) \in Int
  BY <1>1, TotalInt
<1> QED
  BY <1>1, <1>2, <1>3, <1>4, TotalIsSum

\* A weight of every trade, and of those of a set.
Worth(s, v) == [i \in DOMAIN s |-> v[s[i]]]
WorthIn(s, S, v) == [i \in DOMAIN s |-> IF s[i] \in S THEN v[s[i]] ELSE 0]

\* What a series is worth, and what the trades of a set in it are, with one trade more.
LEMMA WorthOneMore ==
    ASSUME NEW T, NEW v \in [T -> Int], NEW s \in Seq(T), NEW t \in T, NEW S
    PROVE  /\ Total(Worth(Append(s, t), v)) = Total(Worth(s, v)) + v[t]
           /\ Total(Worth(s, v)) \in Int
           /\ Total(WorthIn(Append(s, t), S, v)) =
                Total(WorthIn(s, S, v)) + IF t \in S THEN v[t] ELSE 0
           /\ Total(WorthIn(s, S, v)) \in Int
<1> DEFINE n == Len(s)
           u == Append(s, t)
<1>1. /\ n \in Nat /\ DOMAIN s = 1 .. n /\ DOMAIN u = 1 .. n + 1
      /\ u[n + 1] = t /\ \A i \in 1 .. n : u[i] = s[i] /\ s[i] \in T
  OBVIOUS
<1>2. n + 1 \in 1 .. n + 1 /\ \A i \in 1 .. n : i \in 1 .. n + 1
  BY <1>1
<1> HIDE DEF n, u
<1>3. Total(Worth(u, v)) = Total(Worth(s, v)) + v[t] /\ Total(Worth(s, v)) \in Int
  <2> DEFINE a == Worth(u, v)
             b == Worth(s, v)
  <2>1. /\ DOMAIN a = 1 .. n + 1 /\ DOMAIN b = 1 .. n /\ a[n + 1] = v[t]
        /\ \A i \in 1 .. n : b[i] \in Int /\ a[i] = b[i]
    BY <1>1, <1>2 DEF Worth
  <2>2. v[t] \in Int
    OBVIOUS
  <2> HIDE DEF a, b
  <2>3. Total(a) = Total(b) + a[n + 1] /\ Total(b) \in Int
    BY <1>1, <2>1, <2>2, TotalOneMore
  <2> QED BY <2>1, <2>3 DEF a, b
<1>4. /\ Total(WorthIn(u, S, v)) = Total(WorthIn(s, S, v)) + IF t \in S THEN v[t] ELSE 0
      /\ Total(WorthIn(s, S, v)) \in Int
  <2> DEFINE a == WorthIn(u, S, v)
             b == WorthIn(s, S, v)
             x == IF t \in S THEN v[t] ELSE 0
  <2>1. DOMAIN a = 1 .. n + 1 /\ DOMAIN b = 1 .. n
    BY <1>1 DEF WorthIn
  <2>2. \A i \in 1 .. n : b[i] \in Int /\ a[i] = b[i]
    BY <1>1, <1>2 DEF WorthIn
  <2>3. a[n + 1] = x /\ x \in Int
    BY <1>1, <1>2 DEF WorthIn
  <2> HIDE DEF a, b, x
  <2>4. Total(a) = Total(b) + a[n + 1] /\ Total(b) \in Int
    BY <1>1, <2>1, <2>2, <2>3, TotalOneMore
  <2> QED BY <2>3, <2>4 DEF a, b, x
<1> QED
  BY <1>3, <1>4 DEF u

\* The trades of a set are worth what the set picks of all.
LEMMA WorthOfSome ==
    ASSUME NEW T, NEW v \in [T -> Int], NEW S, NEW s \in Seq(T)
    PROVE  Total(Worth(TradesIn(s, S), v)) = Total(WorthIn(s, S, v))
<1> DEFINE Good(u) == Total(Worth(TradesIn(u, S), v)) = Total(WorthIn(u, S, v))
           B == {u \in Seq(T) : ~ Good(u)}
<1> SUFFICES ASSUME B # {} PROVE FALSE
  OBVIOUS
<1>1. PICK u \in B : \A x \in B : Len(u) <= Len(x)
  <2>1. B \in SUBSET Seq(T)
    OBVIOUS
  <2> HIDE DEF B
  <2> QED BY <2>1, Shortest
<1>2. u \in Seq(T) /\ ~ Good(u)
  BY <1>1
<1>3. u # << >>
  <2> SUFFICES ASSUME u = << >> PROVE FALSE
    OBVIOUS
  <2>1. DOMAIN Worth(<< >>, v) = {} /\ DOMAIN WorthIn(<< >>, S, v) = {}
    BY DEF Worth, WorthIn
  <2> QED BY <1>2, <2>1, InNone, TotalNothing
<1> DEFINE front == SubSeq(u, 1, Len(u) - 1)
           last == u[Len(u)]
<1>4. /\ front \in Seq(T) /\ last \in T /\ u = Append(front, last)
      /\ Len(front) = Len(u) - 1 /\ Len(u) - 1 \in Nat
  BY <1>2, <1>3, FrontAndLast
<1> HIDE DEF front, last
<1>5. Good(front)
  <2>1. Len(front) < Len(u)
    BY <1>2, <1>4
  <2> QED BY <1>1, <1>2, <1>4, <2>1
<1> HIDE DEF B, Good
<1>6. TradesIn(u, S) = IF last \in S THEN Append(TradesIn(front, S), last) ELSE TradesIn(front, S)
  BY <1>4, InOneMore
<1>7. TradesIn(front, S) \in Seq(T)
  BY <1>4, InBoth
<1>8. /\ Total(WorthIn(Append(front, last), S, v))
           = Total(WorthIn(front, S, v)) + IF last \in S THEN v[last] ELSE 0
      /\ Total(WorthIn(front, S, v)) \in Int
  <2>1. \A r \in Seq(T), t \in T :
          /\ Total(WorthIn(Append(r, t), S, v)) = Total(WorthIn(r, S, v)) + IF t \in S THEN v[t] ELSE 0
          /\ Total(WorthIn(r, S, v)) \in Int
    BY WorthOneMore
  <2> QED BY <1>4, <2>1
<1>9. Total(Worth(Append(TradesIn(front, S), last), v)) = Total(Worth(TradesIn(front, S), v)) + v[last]
  <2>1. \A r \in Seq(T), t \in T : Total(Worth(Append(r, t), v)) = Total(Worth(r, v)) + v[t]
    BY WorthOneMore
  <2> QED BY <1>4, <1>7, <2>1
<1> USE DEF Good
<1>10. CASE last \in S
  BY <1>2, <1>4, <1>5, <1>6, <1>8, <1>9, <1>10
<1>11. CASE last \notin S
  BY <1>2, <1>4, <1>5, <1>6, <1>8, <1>11
<1> QED
  BY <1>10, <1>11

\* A sequence is worth its length when every element is worth one.
LEMMA LengthIsWorth ==
    ASSUME NEW T, NEW s \in Seq(T)
    PROVE  Len(s) = Total(Worth(s, [t \in T |-> 1]))
<1> DEFINE one == [t \in T |-> 1]
           Good(u) == Len(u) = Total(Worth(u, one))
           B == {u \in Seq(T) : ~ Good(u)}
<1>0. one \in [T -> Int] /\ \A t \in T : one[t] = 1
  OBVIOUS
<1> HIDE DEF one
<1> SUFFICES ASSUME B # {} PROVE FALSE
  BY DEF one
<1>1. PICK u \in B : \A x \in B : Len(u) <= Len(x)
  <2>1. B \in SUBSET Seq(T)
    OBVIOUS
  <2> HIDE DEF B
  <2> QED BY <2>1, Shortest
<1>2. u \in Seq(T) /\ ~ Good(u)
  BY <1>1
<1>3. u # << >>
  <2> SUFFICES ASSUME u = << >> PROVE FALSE
    OBVIOUS
  <2>1. DOMAIN Worth(<< >>, one) = {} /\ Len(<< >>) = 0
    BY DEF Worth
  <2> QED BY <1>2, <2>1, TotalNothing
<1> DEFINE front == SubSeq(u, 1, Len(u) - 1)
           last == u[Len(u)]
<1>4. /\ front \in Seq(T) /\ last \in T /\ u = Append(front, last)
      /\ Len(front) = Len(u) - 1 /\ Len(u) - 1 \in Nat
  BY <1>2, <1>3, FrontAndLast
<1> HIDE DEF front, last
<1>5. Good(front)
  <2>1. Len(front) < Len(u)
    BY <1>2, <1>4
  <2> QED BY <1>1, <1>2, <1>4, <2>1
<1>6. \A r \in Seq(T), t \in T : Total(Worth(Append(r, t), one)) = Total(Worth(r, one)) + one[t]
  <2> HIDE DEF B
  <2> QED BY <1>0, WorthOneMore
<1>7. Total(Worth(u, one)) = Len(front) + 1
  BY <1>0, <1>4, <1>5, <1>6
<1> QED
  BY <1>2, <1>4, <1>7

-----------------------------------------------------------------------------
(* The groups *)

\* The trades of T with k under this key.
Of(T, key, k) == {t \in T : t[key] = k}

\* What the group of each key is worth.
PerKey(s, T, key, K, v) == [k \in K |-> Total(WorthIn(s, Of(T, key, k), v))]

\* What the groups are worth adds up to what the whole is worth.
LEMMA GroupsAdd ==
    ASSUME NEW T, NEW v \in [T -> Int], NEW key, NEW K, IsFiniteSet(K), NEW s \in Seq(T),
           \A t \in ToSet(s) : t[key] \in K
    PROVE  SumOver(PerKey(s, T, key, K, v), K) = Total(Worth(s, v))
<1> DEFINE Fits(u) == \A t \in ToSet(u) : t[key] \in K
           Groups(u) == PerKey(u, T, key, K, v)
           Good(u) == SumOver(Groups(u), K) = Total(Worth(u, v))
           B == {u \in Seq(T) : Fits(u) /\ ~ Good(u)}
<1> SUFFICES ASSUME B # {} PROVE FALSE
  OBVIOUS
<1>1. PICK u \in B : \A x \in B : Len(u) <= Len(x)
  <2>1. B \in SUBSET Seq(T)
    OBVIOUS
  <2> HIDE DEF B
  <2> QED BY <2>1, Shortest
<1>2. u \in Seq(T) /\ Fits(u) /\ ~ Good(u)
  BY <1>1
<1>3. u # << >>
  <2> SUFFICES ASSUME u = << >> PROVE FALSE
    OBVIOUS
  <2>1. DOMAIN Worth(<< >>, v) = {} /\ \A S : DOMAIN WorthIn(<< >>, S, v) = {}
    BY DEF Worth, WorthIn
  <2>2. Total(Worth(u, v)) = 0 /\ \A k \in K : Groups(u)[k] = 0
    BY <2>1, TotalNothing DEF PerKey
  <2> DEFINE a == Groups(u)
  <2>3. \A k \in K : a[k] = 0
    BY <2>2
  <2> HIDE DEF a
  <2>4. SumOver(a, K) = 0
    BY <2>3, TotalOfNothing
  <2> QED BY <1>2, <2>2, <2>4 DEF a
<1> DEFINE front == SubSeq(u, 1, Len(u) - 1)
           last == u[Len(u)]
<1>4. /\ front \in Seq(T) /\ last \in T /\ u = Append(front, last)
      /\ Len(front) = Len(u) - 1 /\ Len(u) - 1 \in Nat
  BY <1>2, <1>3, FrontAndLast
<1> HIDE DEF front, last
<1>5. Fits(front) /\ last[key] \in K
  <2>1. ToSet(u) = ToSet(front) \cup {last}
    BY <1>4, AppendSet
  <2> QED BY <1>2, <2>1
<1>6. Good(front)
  <2>1. Len(front) < Len(u)
    BY <1>2, <1>4
  <2> HIDE DEF Good, Fits
  <2> QED BY <1>1, <1>2, <1>4, <1>5, <2>1
<1> HIDE DEF B
<1> DEFINE a == Groups(front)
           b == Groups(u)
           e == last[key]
<1>7. ASSUME NEW S
      PROVE  /\ Total(WorthIn(u, S, v)) = Total(WorthIn(front, S, v)) + IF last \in S THEN v[last] ELSE 0
             /\ Total(WorthIn(front, S, v)) \in Int
  <2> HIDE DEF Good, Fits, a, b, e
  <2>1. \A r \in Seq(T), t \in T :
          /\ Total(WorthIn(Append(r, t), S, v)) = Total(WorthIn(r, S, v)) + IF t \in S THEN v[t] ELSE 0
          /\ Total(WorthIn(r, S, v)) \in Int
    BY WorthOneMore
  <2> QED BY <1>4, <2>1
<1>8. Total(Worth(u, v)) = Total(Worth(front, v)) + v[last] /\ Total(Worth(front, v)) \in Int
  <2> HIDE DEF Good, Fits, a, b, e
  <2>1. \A r \in Seq(T), t \in T :
          Total(Worth(Append(r, t), v)) = Total(Worth(r, v)) + v[t] /\ Total(Worth(r, v)) \in Int
    BY WorthOneMore
  <2> QED BY <1>4, <2>1
<1>9. \A k \in K : a[k] \in Int /\ b[k] = a[k] + IF k = e THEN v[last] ELSE 0
  <2> TAKE k \in K
  <2>1. last \in Of(T, key, k) <=> k = e
    BY <1>4 DEF Of
  <2>2. a[k] = Total(WorthIn(front, Of(T, key, k), v)) /\ b[k] = Total(WorthIn(u, Of(T, key, k), v))
    BY DEF PerKey
  <2> HIDE DEF Good, Fits, a, b, e
  <2> QED BY <1>7, <2>1, <2>2
<1>10. v[last] \in Int
  BY <1>4
<1>11. SumOver(a, K) = Total(Worth(front, v))
  BY <1>6
<1>12. SumOver(b, K) # Total(Worth(u, v))
  BY <1>2
<1> HIDE DEF Good, Fits, a, b, Groups
<1>13. e \in K
  BY <1>5
<1> HIDE DEF e
<1>14. \A k \in K : b[k] \in Int
  BY <1>9, <1>10
<1>15. SumOver(a, K) = a[e] + SumOver(a, K \ {e}) /\ SumOver(b, K) = b[e] + SumOver(b, K \ {e})
  <2>1. \A k \in K : a[k] \in Int
    BY <1>9
  <2>2. SumOver(a, K) = a[e] + SumOver(a, K \ {e})
    BY <1>13, <2>1, TotalMinus
  <2>3. SumOver(b, K) = b[e] + SumOver(b, K \ {e})
    BY <1>13, <1>14, TotalMinus
  <2> QED BY <2>2, <2>3
<1>16. SumOver(a, K \ {e}) = SumOver(b, K \ {e}) /\ SumOver(a, K \ {e}) \in Int
  <2>1. IsFiniteSet(K \ {e}) /\ \A k \in K \ {e} : a[k] = b[k] /\ a[k] \in Int
    BY <1>9, FS_Subset
  <2> QED BY <2>1, TotalSame, TotalInt
<1>17. a[e] \in Int /\ b[e] = a[e] + v[last]
  BY <1>9, <1>13
<1> QED
  BY <1>8, <1>10, <1>11, <1>12, <1>15, <1>16, <1>17

\* One group, by what it is worth of the whole.
Ones(T) == [t \in T |-> 1]
Nets(T) == [t \in T |-> t.pnl]
Wins(T) == [t \in T |-> IF Won(t) THEN 1 ELSE 0]

\* The winners of a series are a sum over it: one for each trade that won.
LEMMA WinnersAre ==
    ASSUME NEW T, NEW s \in Seq(T)
    PROVE  Len(TradesIn(s, Winners(s))) = Total(Worth(s, Wins(T)))
<1> DEFINE W == {t \in T : Won(t)}
<1>1. TradesIn(s, Winners(s)) = TradesIn(s, W)
  <2>1. ToSet(s) \cap Winners(s) = ToSet(s) \cap W
    BY DEF Winners, ToSet
  <2> HIDE DEF W
  <2> QED BY <2>1, InSame
<1>2. TradesIn(s, W) \in Seq(T)
  <2> HIDE DEF W
  <2> QED BY InBoth
<1>3. Len(TradesIn(s, W)) = Total(Worth(TradesIn(s, W), Ones(T)))
  BY <1>2, LengthIsWorth DEF Ones
<1>4. Total(Worth(TradesIn(s, W), Ones(T))) = Total(WorthIn(s, W, Ones(T)))
  <2>1. Ones(T) \in [T -> Int]
    BY DEF Ones
  <2> HIDE DEF W
  <2> QED BY <2>1, WorthOfSome
<1>5. WorthIn(s, W, Ones(T)) = Worth(s, Wins(T))
  <2>1. \A i \in DOMAIN s : s[i] \in T
    OBVIOUS
  <2>2. \A i \in DOMAIN s : (IF s[i] \in W THEN Ones(T)[s[i]] ELSE 0) = Wins(T)[s[i]]
    BY <2>1 DEF Ones, Wins
  <2> HIDE DEF W
  <2> QED BY <2>2 DEF WorthIn, Worth
<1> QED
  BY <1>1, <1>3, <1>4, <1>5

\* The net of a series, as a sum over it.
LEMMA NetIs ==
    ASSUME NEW T, NEW s \in Seq(T)
    PROVE  Total(Each(s, "pnl")) = Total(Worth(s, Nets(T)))
<1>1. \A i \in DOMAIN s : s[i] \in T
  OBVIOUS
<1>2. \A i \in DOMAIN s : s[i]["pnl"] = Nets(T)[s[i]]
  BY <1>1 DEF Nets
<1>3. Each(s, "pnl") = Worth(s, Nets(T))
  BY <1>2 DEF Each, Worth
<1> QED
  BY <1>3

\* What GroupMetrics counts of a group are sums over the whole series, zero outside the group.
LEMMA GroupWorth ==
    ASSUME NEW T, \A t \in T : t.pnl \in Int, NEW key, NEW k, NEW s \in Seq(T)
    PROVE  LET group == Group(TradesIn(s, Where(s, key, k)))
               set   == Of(T, key, k)
           IN  /\ group.trades = Total(WorthIn(s, set, Ones(T)))
               /\ group.net = Total(WorthIn(s, set, Nets(T)))
               /\ group.wins = Total(WorthIn(s, set, Wins(T)))
<1> DEFINE set == Of(T, key, k)
           r == TradesIn(s, set)
<1>1. TradesIn(s, Where(s, key, k)) = r
  <2>1. ToSet(s) \cap Where(s, key, k) = ToSet(s) \cap set
    BY DEF Where, Of, ToSet
  <2> HIDE DEF set
  <2> QED BY <2>1, InSame
<1> HIDE DEF set
<1>2. r \in Seq(T)
  BY InBoth
<1>3. Ones(T) \in [T -> Int] /\ Nets(T) \in [T -> Int] /\ Wins(T) \in [T -> Int]
  BY DEF Ones, Nets, Wins
<1>4. /\ Total(Worth(r, Ones(T))) = Total(WorthIn(s, set, Ones(T)))
      /\ Total(Worth(r, Nets(T))) = Total(WorthIn(s, set, Nets(T)))
      /\ Total(Worth(r, Wins(T))) = Total(WorthIn(s, set, Wins(T)))
  <2>1. \A v \in [T -> Int] : Total(Worth(r, v)) = Total(WorthIn(s, set, v))
    BY WorthOfSome
  <2> HIDE DEF r
  <2> QED BY <1>3, <2>1
<1> HIDE DEF r
<1>5. Len(r) = Total(Worth(r, Ones(T)))
  BY <1>2, LengthIsWorth DEF Ones
<1>6. /\ Group(r).trades = Len(r)
      /\ Group(r).net = Total(Each(r, "pnl"))
      /\ Group(r).wins = Len(TradesIn(r, Winners(r)))
  BY DEF Group
<1> QED
  BY <1>1, <1>2, <1>4, <1>5, <1>6, WinnersAre, NetIs DEF set

\* The groups of a series, by whatever key, add up to its figures.
LEMMA GroupsPartition ==
    ASSUME NEW T, \A t \in T : t.pnl \in Int, NEW key, NEW s \in Seq(T)
    PROVE  LET groups == By(s, key)
           IN  /\ Total(Each(groups, "trades")) = Len(s)
               /\ Total(Each(groups, "net")) = Total(Each(s, "pnl"))
               /\ Total(Each(groups, "wins")) = Len(TradesIn(s, Winners(s)))
<1> DEFINE groups == By(s, key)
           K == ToSet(Each(s, key))
<1>1. IsFiniteSet(K)
  <2> DEFINE n == Len(s)
             e == Each(s, key)
  <2>1. n \in Nat /\ DOMAIN s = 1 .. n
    OBVIOUS
  <2>2. DOMAIN e = 1 .. n
    BY <2>1 DEF Each
  <2> HIDE DEF n, e
  <2>3. IsFiniteSet(1 .. n)
    BY <2>1, FS_Interval
  <2>4. [i \in 1 .. n |-> e[i]] \in Surjection(1 .. n, ToSet(e))
    BY <2>2 DEF ToSet, Surjection
  <2>5. IsFiniteSet(ToSet(e))
    BY <2>3, <2>4, FS_Surjection
  <2> QED BY <2>5 DEF e
<1>2. \A t \in ToSet(s) : t[key] \in K
  BY DEF ToSet, Each
<1>3. /\ DOMAIN groups = K
      /\ \A k \in K : groups[k] = Group(TradesIn(s, Where(s, key, k)))
  BY DEF By
<1> HIDE DEF groups, K
<1>4. Ones(T) \in [T -> Int] /\ Nets(T) \in [T -> Int] /\ Wins(T) \in [T -> Int]
  BY DEF Ones, Nets, Wins
<1>5. ASSUME NEW v \in [T -> Int] PROVE Total(PerKey(s, T, key, K, v)) = Total(Worth(s, v))
  <2>1. SumOver(PerKey(s, T, key, K, v), K) = Total(Worth(s, v))
    BY <1>1, <1>2, GroupsAdd
  <2> QED BY <2>1, TotalIsSum DEF PerKey
<1>6. \A k \in K : /\ groups[k].trades = Total(WorthIn(s, Of(T, key, k), Ones(T)))
                   /\ groups[k].net = Total(WorthIn(s, Of(T, key, k), Nets(T)))
                   /\ groups[k].wins = Total(WorthIn(s, Of(T, key, k), Wins(T)))
  BY <1>3, GroupWorth
<1>7. /\ Each(groups, "trades") = PerKey(s, T, key, K, Ones(T))
      /\ Each(groups, "net") = PerKey(s, T, key, K, Nets(T))
      /\ Each(groups, "wins") = PerKey(s, T, key, K, Wins(T))
  BY <1>3, <1>6 DEF Each, PerKey
<1>8. /\ Total(Each(groups, "trades")) = Total(Worth(s, Ones(T)))
      /\ Total(Each(groups, "net")) = Total(Worth(s, Nets(T)))
      /\ Total(Each(groups, "wins")) = Total(Worth(s, Wins(T)))
  BY <1>4, <1>5, <1>7
<1>9. Len(s) = Total(Worth(s, Ones(T)))
  BY LengthIsWorth DEF Ones
<1> QED
  BY <1>8, <1>9, NetIs, WinnersAre DEF groups

-----------------------------------------------------------------------------
(* The loop over the trades *)

\* What holds at the start and from each step to the next holds at the end.
LEMMA Counting ==
    ASSUME NEW m \in Nat, NEW I, 0 \in I, \A n \in 1 .. m : n - 1 \in I => n \in I
    PROVE  \A n \in 0 .. m : n \in I
<1> DEFINE B == {n \in 0 .. m : n \notin I}
<1> SUFFICES ASSUME B # {} PROVE FALSE
  OBVIOUS
<1> DEFINE k == Min(B)
<1>1. k \in B /\ \A j \in B : k <= j
  <2>1. B \in SUBSET Nat
    OBVIOUS
  <2> HIDE DEF B
  <2> QED BY <2>1, MinIn
<1> HIDE DEF k
<1>2. k \in 0 .. m /\ k \notin I /\ k # 0
  BY <1>1
<1>3. k - 1 \in 0 .. m /\ k \in 1 .. m /\ k - 1 < k
  BY <1>2
<1>4. k - 1 \in I
  BY <1>1, <1>3
<1> QED
  BY <1>2, <1>3, <1>4

\* The greatest of a set is what is in it and not below any of it.
LEMMA GreatestIs ==
    ASSUME NEW S \in SUBSET Int, NEW x \in S, \A y \in S : x >= y
    PROVE  Max(S) = x
<1>1. Max(S) \in S /\ \A y \in S : Max(S) >= y
  BY DEF Max
<1> DEFINE g == Max(S)
<1> HIDE DEF g
<1>2. g \in Int /\ x \in Int /\ g >= x /\ x >= g
  BY <1>1 DEF g
<1>3. g = x
  BY <1>2
<1> QED
  BY <1>3 DEF g

Tallies ==
    [equity : Int, peak : Int, drawdown : Int, from : Int, streak : Nat, longest : Nat]

\* The tallies Followed counts with, one for each trade done.
Follows(g, s, c) ==
    /\ g \in [0 .. Len(s) -> Tallies]
    /\ g[0] = FreshTally(c)
    /\ \A n \in 1 .. Len(s) : g[n] = Follow(g[n - 1], s[n])

\* A step of the loop leaves its accumulators of their type.
LEMMA FollowTallies ==
    ASSUME NEW a \in Tallies, NEW t, t.pnl \in Int
    PROVE  Follow(a, t) \in Tallies
BY DEF Tallies, Follow, Larger

\* The loop over the trades is a run of its steps, one for each trade.
LEMMA FollowedIs ==
    ASSUME NEW T, \A t \in T : t.pnl \in Int, NEW s \in Seq(T), NEW c \in Int
    PROVE  \E g : Follows(g, s, c) /\ Followed(s, c) = g[Len(s)]
<1> DEFINE m == Len(s)
           F == [x \in (1 .. m) \X Tallies |-> Follow(x[2], s[x[1]])]
           Tells(f) == f = [n \in 0 .. m |-> IF n = 0 THEN FreshTally(c) ELSE Follow(f[n - 1], s[n])]
           f0 == CHOOSE f : Tells(f)
<1>1. m \in Nat /\ \A n \in 1 .. m : s[n] \in T
  OBVIOUS
<1>2. F \in [(1 .. m) \X Tallies -> Tallies]
  <2> HIDE DEF m
  <2>1. \A x \in (1 .. m) \X Tallies : x[1] \in 1 .. m /\ x[2] \in Tallies
    OBVIOUS
  <2>2. \A x \in (1 .. m) \X Tallies : Follow(x[2], s[x[1]]) \in Tallies
    BY <1>1, <2>1, FollowTallies
  <2> QED BY <2>2
<1>3. FreshTally(c) \in Tallies
  BY DEF FreshTally, Tallies
<1>4. \A n \in 1 .. m, x \in Tallies : F[<<n, x>>] = Follow(x, s[n])
  BY Zenon
<1>5. Followed(s, c) = f0[m]
  BY Zenon DEF Followed
<1> HIDE DEF m, F
<1>6. PICK g : Goes(g, Tallies, FreshTally(c), F, m)
  BY <1>1, <1>2, <1>3, Iterated
<1>7. /\ g \in [0 .. m -> Tallies] /\ g[0] = FreshTally(c)
      /\ \A n \in 1 .. m : g[n] = Follow(g[n - 1], s[n])
  <2>1. g \in [0 .. m -> Tallies] /\ g[0] = FreshTally(c) /\ \A n \in 1 .. m : g[n] = F[<<n, g[n - 1]>>]
    BY <1>6 DEF Goes
  <2>2. \A n \in 1 .. m : n - 1 \in 0 .. m
    BY <1>1
  <2> QED BY <1>4, <2>1, <2>2
<1>8. \E f : Tells(f)
  <2>1. \A n \in 0 .. m : n # 0 => n \in 1 .. m
    BY <1>1
  <2>2. \A n \in 0 .. m : g[n] = IF n = 0 THEN FreshTally(c) ELSE Follow(g[n - 1], s[n])
    BY <1>7, <2>1
  <2>3. Tells(g)
    BY <1>7, <2>2
  <2> QED BY <2>3
<1>9. Tells(f0)
  BY <1>8
<1> HIDE DEF f0
<1>10. f0[0] = FreshTally(c) /\ \A n \in 1 .. m : f0[n] = Follow(f0[n - 1], s[n])
  <2>1. \A n \in 1 .. m : n \in 0 .. m /\ n # 0
    BY <1>1
  <2>2. 0 \in 0 .. m
    BY <1>1
  <2> QED BY <1>9, <2>1, <2>2
<1> DEFINE I == {n \in 0 .. m : f0[n] = g[n]}
<1>11. \A n \in 0 .. m : n \in I
  <2>1. 0 \in I
    BY <1>1, <1>7, <1>10
  <2>2. \A n \in 1 .. m : n - 1 \in I => n \in I
    BY <1>7, <1>10
  <2> HIDE DEF I
  <2> QED BY <1>1, <2>1, <2>2, Counting
<1>12. f0[m] = g[m]
  BY <1>1, <1>11
<1>13. Follows(g, s, c)
  BY <1>7 DEF Follows, m
<1> QED
  BY <1>5, <1>12, <1>13 DEF m, f0

\* The deepest fall of the first n amounts of E, without the loop.
DeepestOf(E, n, d) ==
    /\ \E i, j \in 0 .. n : i <= j /\ d = E[i] - E[j]
    /\ \A i, j \in 0 .. n : i <= j => E[i] - E[j] <= d

\* Its longest run of lost trades, and the one it ends in.
AllLost(s, i, j) == \A k \in i .. j : ~ Won(s[k])
LongestOf(s, n, l) ==
    /\ l = 0 \/ \E i, j \in 1 .. n : i <= j /\ AllLost(s, i, j) /\ l = j - i + 1
    /\ \A i, j \in 1 .. n : i <= j /\ AllLost(s, i, j) => j - i + 1 <= l
EndsIn(s, n, streak) ==
    /\ streak <= n
    /\ AllLost(s, n - streak + 1, n)
    /\ streak # n => Won(s[n - streak])

\* One trade more, for the equity, its peak and the drawdown.
LEMMA DeeperOrNot ==
    ASSUME NEW m \in Nat, NEW E \in [0 .. m -> Int], NEW n \in 1 .. m,
           NEW a \in Tallies, NEW t, t.pnl \in Int,
           E[n] = E[n - 1] + t.pnl, a.equity = E[n - 1],
           \A i \in 0 .. n - 1 : E[i] <= a.peak, \E i \in 0 .. n - 1 : a.peak = E[i],
           DeepestOf(E, n - 1, a.drawdown)
    PROVE  LET b == Follow(a, t)
           IN  /\ b.equity = E[n]
               /\ \A i \in 0 .. n : E[i] <= b.peak
               /\ \E i \in 0 .. n : b.peak = E[i]
               /\ DeepestOf(E, n, b.drawdown)
<1> DEFINE b == Follow(a, t)
           p == Larger(a.peak, E[n])
<1>1. b.equity = E[n] /\ b.peak = p
      /\ b.drawdown = IF p - E[n] > a.drawdown THEN p - E[n] ELSE a.drawdown
  BY DEF Follow
<1>2. n \in Nat \ {0} /\ n \in 0 .. m /\ \A i \in 0 .. n : i \in 0 .. m /\ (i = n \/ i \in 0 .. n - 1)
  OBVIOUS
<1>3. a.peak \in Int /\ a.drawdown \in Int /\ \A i \in 0 .. n : E[i] \in Int
  BY <1>2 DEF Tallies
<1>4. p \in Int /\ p >= a.peak /\ p >= E[n] /\ (p = a.peak \/ p = E[n])
  BY <1>2, <1>3 DEF Larger
<1>5. \A i \in 0 .. n - 1 : i \in 0 .. n
  BY <1>2
<1>6. n \in 0 .. n
  BY <1>2
<1> HIDE DEF p, b
<1>7. ASSUME NEW i \in 0 .. n PROVE E[i] <= p
  <2>1. CASE i = n
    BY <1>4, <2>1
  <2>2. CASE i # n
    <3>1. i \in 0 .. n - 1
      BY <2>2
    <3>2. E[i] <= a.peak /\ E[i] \in Int
      BY <1>3, <3>1
    <3> QED BY <1>3, <1>4, <3>2
  <2> QED BY <2>1, <2>2
<1>8. PICK k \in 0 .. n : p = E[k]
  <2>1. CASE p = a.peak
    BY <1>5, <2>1
  <2>2. CASE p = E[n]
    BY <1>6, <2>2
  <2> QED BY <1>4, <2>1, <2>2
<1> DEFINE d == b.drawdown
<1>9. d \in Int /\ d >= a.drawdown /\ d >= p - E[n] /\ (d = a.drawdown \/ d = p - E[n])
  <2> DEFINE x == p - E[n]
             h == a.drawdown
  <2>1. x \in Int /\ h \in Int
    BY <1>3, <1>4, <1>6
  <2>2. d = IF x > h THEN x ELSE h
    BY <1>1
  <2> HIDE DEF x, h, d
  <2>3. d \in Int /\ d >= h /\ d >= x /\ (d = h \/ d = x)
    BY <2>1, <2>2
  <2> QED BY <2>3 DEF x, h
<1> HIDE DEF d
<1>10. \E i, j \in 0 .. n : i <= j /\ d = E[i] - E[j]
  <2>1. CASE d = a.drawdown
    BY <1>5, <2>1 DEF DeepestOf
  <2>2. CASE d = p - E[n]
    <3>1. k <= n
      BY <1>2
    <3> QED BY <1>6, <1>8, <2>2, <3>1
  <2> QED BY <1>9, <2>1, <2>2
<1>11. ASSUME NEW i \in 0 .. n, NEW j \in 0 .. n, i <= j PROVE E[i] - E[j] <= d
  <2>1. CASE j = n
    <3>1. E[i] <= p /\ E[i] \in Int /\ E[n] \in Int
      BY <1>3, <1>6, <1>7
    <3> QED BY <1>4, <1>9, <2>1, <3>1
  <2>2. CASE j # n
    <3>1. i \in 0 .. n - 1 /\ j \in 0 .. n - 1
      BY <1>2, <1>11, <2>2
    <3>2. E[i] - E[j] <= a.drawdown
      BY <1>11, <3>1 DEF DeepestOf
    <3>3. E[i] \in Int /\ E[j] \in Int
      BY <1>3
    <3> DEFINE x == E[i] - E[j]
               h == a.drawdown
    <3>4. x \in Int
      BY <3>3
    <3>5. x <= h
      BY <3>2
    <3>6. h \in Int /\ d \in Int /\ d >= h
      BY <1>3, <1>9
    <3> HIDE DEF x, h
    <3>7. x <= d
      BY <3>4, <3>5, <3>6
    <3> QED BY <3>7 DEF x
  <2> QED BY <2>1, <2>2
<1>12. DeepestOf(E, n, d)
  BY <1>10, <1>11 DEF DeepestOf
<1> QED
  BY <1>1, <1>7, <1>8, <1>12 DEF d, b

\* One trade more, for the streaks.
LEMMA LongerOrNot ==
    ASSUME NEW n \in Nat \ {0}, NEW s, NEW a \in Tallies,
           EndsIn(s, n - 1, a.streak), LongestOf(s, n - 1, a.longest)
    PROVE  LET b == Follow(a, s[n])
           IN  EndsIn(s, n, b.streak) /\ LongestOf(s, n, b.longest)
<1> DEFINE b == Follow(a, s[n])
           r == b.streak
           l == b.longest
           q == a.streak
           h == a.longest
<1>1. q \in Nat /\ h \in Nat
  BY DEF Tallies
<1>2. r = (IF Won(s[n]) THEN 0 ELSE q + 1) /\ l = Larger(h, r)
  BY DEF Follow
<1>3. /\ q <= n - 1 /\ AllLost(s, n - 1 - q + 1, n - 1)
      /\ q # n - 1 => Won(s[n - 1 - q])
  BY DEF EndsIn
<1>4. /\ h = 0 \/ \E i, j \in 1 .. n - 1 : i <= j /\ AllLost(s, i, j) /\ h = j - i + 1
      /\ \A i, j \in 1 .. n - 1 : i <= j /\ AllLost(s, i, j) => j - i + 1 <= h
  BY DEF LongestOf
<1> HIDE DEF b, r, l, q, h
<1>5. r \in Nat /\ l \in Nat /\ l >= h /\ l >= r /\ (l = h \/ l = r)
  BY <1>1, <1>2 DEF Larger
<1>6. AllLost(s, n - q, n - 1) /\ (q # n - 1 => Won(s[n - 1 - q]))
  <2>1. n - 1 - q + 1 = n - q
    BY <1>1
  <2> QED BY <1>3, <2>1
<1>7. CASE Won(s[n])
  <2>1. r = 0 /\ l = h
    BY <1>1, <1>2, <1>7 DEF Larger
  <2>2. AllLost(s, n - r + 1, n)
    BY <2>1 DEF AllLost
  <2>3. EndsIn(s, n, r)
    <3>1. n - r = n
      BY <2>1
    <3> QED BY <1>7, <2>1, <2>2, <3>1 DEF EndsIn
  <2>5. l = 0 \/ \E i, j \in 1 .. n : i <= j /\ AllLost(s, i, j) /\ l = j - i + 1
    <3>1. \A i \in 1 .. n - 1 : i \in 1 .. n
      OBVIOUS
    <3> QED BY <1>4, <2>1, <3>1
  <2>6. ASSUME NEW i \in 1 .. n, NEW j \in 1 .. n, i <= j, AllLost(s, i, j) PROVE j - i + 1 <= l
    <3>1. n \notin i .. j
      BY <1>7, <2>6 DEF AllLost
    <3>2. i \in 1 .. n - 1 /\ j \in 1 .. n - 1
      BY <2>6, <3>1
    <3> QED BY <1>4, <2>1, <2>6, <3>2
  <2>7. LongestOf(s, n, l)
    BY <2>5, <2>6 DEF LongestOf
  <2> QED BY <2>3, <2>7 DEF b, r, l
<1>8. CASE ~ Won(s[n])
  <2>1. r = q + 1
    BY <1>2, <1>8
  <2>2. AllLost(s, n - q, n)
    <3>1. \A k \in n - q .. n : k = n \/ k \in n - q .. n - 1
      BY <1>1
    <3> QED BY <1>6, <1>8, <3>1 DEF AllLost
  <2>3. n - r + 1 = n - q /\ n - r = n - 1 - q /\ r <= n /\ (r # n => q # n - 1)
    BY <1>1, <1>3, <2>1
  <2>4. EndsIn(s, n, r)
    BY <1>6, <2>2, <2>3 DEF EndsIn
  <2>5. l = 0 \/ \E i, j \in 1 .. n : i <= j /\ AllLost(s, i, j) /\ l = j - i + 1
    <3>1. CASE l = h
      <4>1. \A i \in 1 .. n - 1 : i \in 1 .. n
        OBVIOUS
      <4> QED BY <1>4, <3>1, <4>1
    <3>2. CASE l = r
      <4>1. n - q \in 1 .. n /\ n \in 1 .. n /\ n - q <= n /\ l = n - (n - q) + 1
        BY <1>1, <1>3, <2>1, <3>2
      <4> QED BY <2>2, <4>1
    <3> QED BY <1>5, <3>1, <3>2
  <2>6. ASSUME NEW i \in 1 .. n, NEW j \in 1 .. n, i <= j, AllLost(s, i, j) PROVE j - i + 1 <= l
    <3>1. CASE j = n
      <4>1. i >= n - q
        <5> SUFFICES ASSUME i < n - q PROVE FALSE
          BY <1>1
        <5>1. q # n - 1 /\ n - 1 - q \in i .. j
          BY <1>1, <1>3, <3>1
        <5> QED BY <1>6, <2>6, <5>1 DEF AllLost
      <4> QED BY <1>1, <1>5, <2>1, <3>1, <4>1
    <3>2. CASE j # n
      <4>1. i \in 1 .. n - 1 /\ j \in 1 .. n - 1
        BY <2>6, <3>2
      <4>2. j - i + 1 <= h
        BY <1>4, <2>6, <4>1
      <4> QED BY <1>1, <1>5, <4>2
    <3> QED BY <3>1, <3>2
  <2>7. LongestOf(s, n, l)
    BY <2>5, <2>6 DEF LongestOf
  <2> QED BY <2>4, <2>7 DEF b, r, l
<1> QED
  BY <1>7, <1>8

\* The equity after each trade.
LEMMA EquitySteps ==
    ASSUME NEW T, \A t \in T : t.pnl \in Int, NEW s \in Seq(T), NEW c \in Int
    PROVE  /\ \A i \in 0 .. Len(s) : EquityAt(s, c, i) \in Int
           /\ EquityAt(s, c, 0) = c
           /\ \A n \in 1 .. Len(s) : EquityAt(s, c, n) = EquityAt(s, c, n - 1) + s[n].pnl
           /\ EquityAt(s, c, Len(s)) = c + Total(Each(s, "pnl"))
<1> DEFINE m == Len(s)
           W(i) == Each(SubSeq(s, 1, i), "pnl")
<1>1. m \in Nat /\ DOMAIN s = 1 .. m /\ \A i \in 1 .. m : s[i].pnl \in Int
  OBVIOUS
<1>2. ASSUME NEW i \in 0 .. m
      PROVE  DOMAIN W(i) = 1 .. i /\ \A k \in 1 .. i : W(i)[k] = s[k].pnl /\ W(i)[k] \in Int
  <2> DEFINE u == SubSeq(s, 1, i)
  <2>1. DOMAIN u = 1 .. i /\ \A k \in 1 .. i : u[k] = s[k]
    BY <1>1
  <2> HIDE DEF u, m
  <2>2. DOMAIN Each(u, "pnl") = 1 .. i /\ \A k \in 1 .. i : Each(u, "pnl")[k] = s[k].pnl
    BY <2>1 DEF Each
  <2>3. \A k \in 1 .. i : k \in 1 .. m
    BY <1>1
  <2> QED BY <1>1, <2>2, <2>3 DEF u
<1>3. \A i \in 0 .. m : EquityAt(s, c, i) = c + Total(W(i))
  BY DEF EquityAt
<1> HIDE DEF m, W
<1>4. Total(W(0)) = 0
  <2>1. DOMAIN W(0) = {}
    BY <1>1, <1>2
  <2> QED BY <2>1, TotalNothing
<1>5. \A i \in 0 .. m : Total(W(i)) \in Int
  <2> TAKE i \in 0 .. m
  <2>1. IsFiniteSet(DOMAIN W(i)) /\ \A k \in DOMAIN W(i) : W(i)[k] \in Int
    <3>1. IsFiniteSet(1 .. i)
      BY <1>1, FS_Interval
    <3> QED BY <1>2, <3>1
  <2>2. SumOver(W(i), DOMAIN W(i)) \in Int
    BY <2>1, TotalInt
  <2> QED BY <2>2, TotalIsSum
<1>6. ASSUME NEW n \in 1 .. m PROVE Total(W(n)) = Total(W(n - 1)) + s[n].pnl
  <2> DEFINE a == W(n)
             b == W(n - 1)
             k == n - 1
  <2>1. k \in Nat /\ k \in 0 .. m /\ n \in 0 .. m /\ k + 1 = n /\ n \in 1 .. n
    BY <1>1
  <2>2. DOMAIN a = 1 .. k + 1 /\ DOMAIN b = 1 .. k
    BY <1>2, <2>1
  <2>3. a[k + 1] = s[n].pnl /\ a[k + 1] \in Int
    BY <1>2, <2>1
  <2>4. \A i \in 1 .. k : b[i] \in Int /\ a[i] = b[i]
    <3>1. \A i \in 1 .. k : i \in 1 .. n
      BY <2>1
    <3> QED BY <1>2, <2>1, <3>1
  <2> HIDE DEF a, b, k
  <2>5. Total(a) = Total(b) + a[k + 1]
    BY <2>1, <2>2, <2>3, <2>4, TotalOneMore
  <2> QED BY <2>3, <2>5 DEF a, b
<1>7. W(m) = Each(s, "pnl")
  <2>1. SubSeq(s, 1, m) = s
    BY <1>1 DEF m
  <2> QED BY <2>1 DEF W
<1>8. 0 \in 0 .. m /\ m \in 0 .. m /\ \A n \in 1 .. m : n \in 0 .. m /\ n - 1 \in 0 .. m
  BY <1>1
<1>9. EquityAt(s, c, 0) = c
  BY <1>3, <1>4, <1>8
<1>10. ASSUME NEW n \in 1 .. m PROVE EquityAt(s, c, n) = EquityAt(s, c, n - 1) + s[n].pnl
  <2>1. EquityAt(s, c, n) = c + Total(W(n)) /\ EquityAt(s, c, n - 1) = c + Total(W(n - 1))
    BY <1>3, <1>8
  <2> QED BY <1>1, <1>5, <1>6, <1>8, <2>1
<1>11. \A i \in 0 .. m : EquityAt(s, c, i) \in Int
  BY <1>3, <1>5
<1>12. EquityAt(s, c, m) = c + Total(Each(s, "pnl"))
  BY <1>3, <1>7, <1>8
<1> QED
  BY <1>9, <1>10, <1>11, <1>12 DEF m

\* What the loop ends with is what the figures should be.
LEMMA TallyMeans ==
    ASSUME NEW T, \A t \in T : t.pnl \in Int, NEW s \in Seq(T), NEW c \in Int
    PROVE  /\ Followed(s, c).drawdown = DeepestFall(s, c)
           /\ Followed(s, c).longest = LongestLosing(s)
<1> DEFINE m == Len(s)
           E == [i \in 0 .. m |-> EquityAt(s, c, i)]
<1>1. m \in Nat /\ \A n \in 1 .. m : s[n].pnl \in Int
  OBVIOUS
<1>2. PICK g : Follows(g, s, c) /\ Followed(s, c) = g[Len(s)]
  BY FollowedIs
<1>3. /\ g \in [0 .. m -> Tallies] /\ g[0] = FreshTally(c)
      /\ \A n \in 1 .. m : g[n] = Follow(g[n - 1], s[n])
  BY <1>2 DEF Follows
<1>4. E \in [0 .. m -> Int] /\ E[0] = c /\ \A n \in 1 .. m : E[n] = E[n - 1] + s[n].pnl
  <2>1. 0 \in 0 .. m /\ \A n \in 1 .. m : n \in 0 .. m /\ n - 1 \in 0 .. m
    BY <1>1
  <2>2. /\ \A i \in 0 .. m : EquityAt(s, c, i) \in Int
        /\ EquityAt(s, c, 0) = c
        /\ \A n \in 1 .. m : EquityAt(s, c, n) = EquityAt(s, c, n - 1) + s[n].pnl
    BY EquitySteps
  <2> QED BY <2>1, <2>2
<1>5. \A i \in 0 .. m : E[i] = EquityAt(s, c, i)
  OBVIOUS
<1> HIDE DEF E
<1> DEFINE Told(n) == /\ g[n].equity = E[n]
                      /\ \A i \in 0 .. n : E[i] <= g[n].peak
                      /\ \E i \in 0 .. n : g[n].peak = E[i]
                      /\ DeepestOf(E, n, g[n].drawdown)
                      /\ EndsIn(s, n, g[n].streak)
                      /\ LongestOf(s, n, g[n].longest)
           I == {n \in 0 .. m : Told(n)}
<1>6. 0 \in I
  <2>1. /\ g[0].equity = c /\ g[0].peak = c /\ g[0].drawdown = 0
        /\ g[0].streak = 0 /\ g[0].longest = 0
    BY <1>3 DEF FreshTally
  <2>2. 0 \in 0 .. m /\ \A i \in 0 .. 0 : i = 0
    BY <1>1
  <2>3. \A i \in 0 .. 0 : E[i] <= g[0].peak
    BY <1>4, <2>1, <2>2
  <2>4. \E i \in 0 .. 0 : g[0].peak = E[i]
    BY <1>4, <2>1
  <2>5. DeepestOf(E, 0, g[0].drawdown)
    <3>1. E[0] - E[0] = 0
      BY <1>4
    <3>2. 0 \in 0 .. 0 /\ 0 <= 0
      OBVIOUS
    <3> QED BY <2>1, <2>2, <3>1, <3>2 DEF DeepestOf
  <2>6. EndsIn(s, 0, g[0].streak)
    BY <2>1 DEF EndsIn, AllLost
  <2>7. LongestOf(s, 0, g[0].longest)
    BY <2>1 DEF LongestOf
  <2> QED BY <1>4, <2>1, <2>2, <2>3, <2>4, <2>5, <2>6, <2>7
<1>7. ASSUME NEW n \in 1 .. m, n - 1 \in I PROVE n \in I
  <2> DEFINE a == g[n - 1]
  <2>1. n - 1 \in 0 .. m /\ n \in 0 .. m /\ n \in Nat \ {0}
    BY <1>1
  <2>2. a \in Tallies /\ g[n] = Follow(a, s[n]) /\ s[n].pnl \in Int /\ E[n] = E[n - 1] + s[n].pnl
    BY <1>1, <1>3, <1>4, <2>1
  <2>3. Told(n - 1)
    BY <1>7
  <2> HIDE DEF m, I
  <2>4. /\ a.equity = E[n - 1]
        /\ \A i \in 0 .. n - 1 : E[i] <= a.peak
        /\ \E i \in 0 .. n - 1 : a.peak = E[i]
        /\ DeepestOf(E, n - 1, a.drawdown)
        /\ EndsIn(s, n - 1, a.streak)
        /\ LongestOf(s, n - 1, a.longest)
    BY <2>3
  <2> HIDE DEF a, Told
  <2>5. LET b == Follow(a, s[n])
        IN  /\ b.equity = E[n]
            /\ \A i \in 0 .. n : E[i] <= b.peak
            /\ \E i \in 0 .. n : b.peak = E[i]
            /\ DeepestOf(E, n, b.drawdown)
    BY <1>1, <1>4, <2>2, <2>4, DeeperOrNot
  <2>6. LET b == Follow(a, s[n])
        IN  EndsIn(s, n, b.streak) /\ LongestOf(s, n, b.longest)
    BY <2>1, <2>2, <2>4, LongerOrNot
  <2> QED BY <2>1, <2>2, <2>5, <2>6 DEF I, Told
<1>8. Told(m)
  <2>1. \A n \in 0 .. m : n \in I
    <3> HIDE DEF I, m
    <3> QED BY <1>1, <1>6, <1>7, Counting
  <2>2. m \in 0 .. m
    BY <1>1
  <2> QED BY <2>1, <2>2
<1> DEFINE d == g[m].drawdown
           l == g[m].longest
<1>9. DeepestOf(E, m, d) /\ LongestOf(s, m, l) /\ d \in Int /\ l \in Nat
  <2>1. m \in 0 .. m
    BY <1>1
  <2> QED BY <1>3, <1>8, <2>1 DEF Tallies
<1> HIDE DEF Told, I, d, l
<1>10. d = DeepestFall(s, c)
  <2> DEFINE P == {x \in (0 .. m) \X (0 .. m) : x[1] <= x[2]}
             S == {EquityAt(s, c, w[1]) - EquityAt(s, c, w[2]) : w \in P}
  <2>1. \A w \in P : /\ w[1] \in 0 .. m /\ w[2] \in 0 .. m /\ w[1] <= w[2]
                     /\ EquityAt(s, c, w[1]) = E[w[1]] /\ EquityAt(s, c, w[2]) = E[w[2]]
                     /\ E[w[1]] \in Int /\ E[w[2]] \in Int
    BY <1>4, <1>5
  <2>2. \A i, j \in 0 .. m : i <= j => <<i, j>> \in P
    OBVIOUS
  <2>3. S \in SUBSET Int
    BY <2>1
  <2>4. \A y \in S : d >= y
    <3>1. \A w \in P : E[w[1]] - E[w[2]] <= d
      BY <1>9, <2>1 DEF DeepestOf
    <3>2. \A w \in P : d >= EquityAt(s, c, w[1]) - EquityAt(s, c, w[2])
      BY <1>9, <2>1, <3>1
    <3> QED BY <3>2
  <2>5. d \in S
    <3>1. PICK i \in 0 .. m, j \in 0 .. m : i <= j /\ d = E[i] - E[j]
      BY <1>9 DEF DeepestOf
    <3>2. <<i, j>> \in P
      BY <2>2, <3>1
    <3>3. d = EquityAt(s, c, <<i, j>>[1]) - EquityAt(s, c, <<i, j>>[2])
      BY <1>5, <3>1
    <3> QED BY <3>2, <3>3
  <2>6. DeepestFall(s, c) = Max(S)
    BY DEF DeepestFall, m
  <2> HIDE DEF S
  <2> QED BY <2>3, <2>4, <2>5, <2>6, GreatestIs
<1>11. l = LongestLosing(s)
  <2> DEFINE P == {x \in (1 .. m) \X (1 .. m) : x[1] <= x[2] /\ \A k \in x[1] .. x[2] : ~Won(s[k])}
             S == {0} \cup {w[2] - w[1] + 1 : w \in P}
  <2>1. \A w \in P : w[1] \in 1 .. m /\ w[2] \in 1 .. m /\ w[1] <= w[2] /\ AllLost(s, w[1], w[2])
    BY DEF AllLost
  <2>2. \A i, j \in 1 .. m : i <= j /\ AllLost(s, i, j) => <<i, j>> \in P
    BY DEF AllLost
  <2>3. S \in SUBSET Int
    <3>1. \A w \in P : w[2] - w[1] + 1 \in Int
      BY <1>1, <2>1
    <3> QED BY <3>1
  <2>4. \A y \in S : l >= y
    <3>1. \A w \in P : l >= w[2] - w[1] + 1
      BY <1>1, <1>9, <2>1 DEF LongestOf
    <3>2. l >= 0
      BY <1>9
    <3> HIDE DEF P
    <3> QED BY <3>1, <3>2
  <2>5. l \in S
    <3>1. CASE l = 0
      BY <3>1
    <3>2. CASE l # 0
      <4>1. PICK i \in 1 .. m, j \in 1 .. m : i <= j /\ AllLost(s, i, j) /\ l = j - i + 1
        BY <1>9, <3>2 DEF LongestOf
      <4>2. <<i, j>> \in P /\ l = <<i, j>>[2] - <<i, j>>[1] + 1
        BY <2>2, <4>1
      <4> QED BY <4>2
    <3> QED BY <3>1, <3>2
  <2>6. LongestLosing(s) = Max(S)
    <3>1. DOMAIN s = 1 .. m
      BY DEF m
    <3> QED BY <3>1 DEF LongestLosing
  <2> HIDE DEF S
  <2> QED BY <2>3, <2>4, <2>5, <2>6, GreatestIs
<1> QED
  BY <1>2, <1>10, <1>11 DEF m, d, l

\* The figures of any series of trades are those of the series.
THEOREM FiguresAre ==
    ASSUME NEW T, \A t \in T : t.pnl \in Int, NEW s \in Seq(T), NEW c \in Int
    PROVE  FiguresAgree(FromTrades(s, c), s, c)
<1> DEFINE f == FromTrades(s, c)
           w == Winners(s)
<1>1. /\ f.drawdown = Followed(s, c).drawdown
      /\ f.longest = Followed(s, c).longest
      /\ f.net = Total(Each(s, "pnl"))
      /\ f.total = Len(s)
      /\ f.wins = Len(TradesIn(s, w))
      /\ f.losses = Len(TradesIn(s, ToSet(s) \ w))
      /\ \A k \in {f.byReason, f.byDirection, f.byHour} :
            /\ Total(Each(k, "trades")) = f.total
            /\ Total(Each(k, "net")) = f.net
            /\ Total(Each(k, "wins")) = f.wins
  <2>1. CASE s = << >>
    <3>1. f = Nothing
      BY <2>1 DEF FromTrades
    <3>2. /\ f.drawdown = 0 /\ f.longest = 0 /\ f.net = 0 /\ f.total = 0
          /\ f.wins = 0 /\ f.losses = 0
          /\ f.byReason = << >> /\ f.byDirection = << >> /\ f.byHour = << >>
      BY <3>1 DEF Nothing
    <3>3. Total(<< >>) = 0 /\ \A field : Total(Each(<< >>, field)) = 0
      <4>1. DOMAIN << >> = {} /\ \A field : DOMAIN Each(<< >>, field) = {}
        BY DEF Each
      <4> QED BY <4>1, TotalNothing
    <3>4. Followed(s, c).drawdown = 0 /\ Followed(s, c).longest = 0
      <4>1. PICK g : Follows(g, s, c) /\ Followed(s, c) = g[Len(s)]
        BY FollowedIs
      <4>2. Len(s) = 0
        BY <2>1
      <4>3. Followed(s, c) = FreshTally(c)
        BY <4>1, <4>2 DEF Follows
      <4> QED BY <4>3 DEF FreshTally
    <3>5. Len(s) = 0 /\ TradesIn(s, w) = << >> /\ TradesIn(s, ToSet(s) \ w) = << >>
      BY <2>1, InNone
    <3> HIDE DEF f, w
    <3> QED BY <2>1, <3>2, <3>3, <3>4, <3>5
  <2>2. CASE s # << >>
    <3>1. /\ f.drawdown = Followed(s, c).drawdown
          /\ f.longest = Followed(s, c).longest
          /\ f.net = Total(Each(s, "pnl"))
          /\ f.total = Len(s)
          /\ f.wins = Len(TradesIn(s, w))
          /\ f.losses = Len(TradesIn(s, ToSet(s) \ w))
          /\ f.byReason = By(s, "reason")
          /\ f.byDirection = By(s, "direction")
          /\ f.byHour = By(s, "hour")
      BY <2>2 DEF FromTrades
    <3>2. \A key : /\ Total(Each(By(s, key), "trades")) = Len(s)
                   /\ Total(Each(By(s, key), "net")) = Total(Each(s, "pnl"))
                   /\ Total(Each(By(s, key), "wins")) = Len(TradesIn(s, w))
      BY GroupsPartition
    <3> HIDE DEF f, w
    <3> QED BY <3>1, <3>2
  <2> QED BY <2>1, <2>2
<1> HIDE DEF f
<1>2. f.drawdown = DeepestFall(s, c) /\ f.longest = LongestLosing(s)
  BY <1>1, TallyMeans
<1>3. c + f.net = EquityAt(s, c, Len(s))
  BY <1>1, EquitySteps
<1>4. f.wins + f.losses = f.total
  <2> HIDE DEF w
  <2>1. Len(TradesIn(s, w)) + Len(TradesIn(s, ToSet(s) \ w)) = Len(s)
    BY InRest
  <2> QED BY <1>1, <2>1
<1>5. Partitions(f.byReason, f) /\ Partitions(f.byDirection, f) /\ Partitions(f.byHour, f)
  BY <1>1 DEF Partitions
<1>6. FiguresAgree(f, s, c)
  BY <1>2, <1>3, <1>4, <1>5 DEF FiguresAgree
<1> QED
  BY <1>6 DEF f

-----------------------------------------------------------------------------
(* The engine: one run over the series, and what a run over less of it has *)

Trades ==
    LET Span == (1 .. Len(Exits)) \X (1 .. Len(Exits))
    IN  {Trade(x[1], x[2], Exits[x[2]]) : x \in Span}
          \cup {Trade(x[1], x[2], Flattened[x[2]]) : x \in Span}

\* The trades a run over k candles can have: its last candle ends no session.
Unbelled(k) == {t \in Trades : ~ (t.reason = "end_of_day" /\ t.exit = k)}

\* The fields of a trade that the sample depends on.
LEMMA TradeIs ==
    ASSUME NEW a, NEW b, NEW left
    PROVE  /\ Trade(a, b, left).entry = a /\ Trade(a, b, left).exit = b
           /\ Trade(a, b, left).pnl = left.pnl /\ Trade(a, b, left).reason = left.reason
           /\ Trade(a, b, left).day = Stamps[b].day
BY DEF Trade

\* The trades the engine can make.
LEMMA TradesAre ==
    \A t \in Trades : /\ t.entry \in 1 .. Len(Exits) /\ t.exit \in 1 .. Len(Exits)
                      /\ t.pnl \in Int /\ t.day = Stamps[t.exit].day
<1>1. \A x \in (1 .. Len(Exits)) \X (1 .. Len(Exits)) : \A left \in {Exits[x[2]], Flattened[x[2]]} :
         /\ Trade(x[1], x[2], left).entry \in 1 .. Len(Exits)
         /\ Trade(x[1], x[2], left).exit \in 1 .. Len(Exits)
         /\ Trade(x[1], x[2], left).pnl \in Int
         /\ Trade(x[1], x[2], left).day = Stamps[Trade(x[1], x[2], left).exit].day
  <2> TAKE x \in (1 .. Len(Exits)) \X (1 .. Len(Exits))
  <2>1. x[1] \in 1 .. Len(Exits) /\ x[2] \in 1 .. Len(Exits)
    OBVIOUS
  <2> QED BY <2>1, TradeIs, WalkAssumption
<1> QED
  BY <1>1 DEF Trades

\* A trade that is left is one of them, and its reason says what left it.
LEMMA TradeMade ==
    ASSUME NEW a \in 1 .. Len(Exits), NEW b \in 1 .. Len(Exits)
    PROVE  /\ Trade(a, b, Exits[b]) \in Trades /\ Trade(a, b, Exits[b]).reason # "end_of_day"
           /\ Trade(a, b, Flattened[b]) \in Trades
           /\ Trade(a, b, Flattened[b]).reason = "end_of_day"
<1> DEFINE x == <<a, b>>
<1>1. x \in (1 .. Len(Exits)) \X (1 .. Len(Exits)) /\ x[1] = a /\ x[2] = b
  OBVIOUS
<1> HIDE DEF x
<1>2. Trade(a, b, Exits[b]) \in Trades /\ Trade(a, b, Flattened[b]) \in Trades
  BY <1>1 DEF Trades
<1> QED
  BY <1>2, TradeIs, WalkAssumption

\* The state of a run.
Runs == [pending : BOOLEAN, open : 0 .. Len(Exits), trades : Seq(Trades)]

\* What a candle makes of the trades so far, and what it makes of them where it is not the
\* last of a session.
Makes(run, i, made, other) ==
    \/ made = run.trades /\ other = run.trades
    \/ \E t \in Trades : /\ t.exit = i /\ t.entry \in {run.open, i}
                         /\ made = Append(run.trades, t)
                         /\ \/ t.reason # "end_of_day" /\ other = made
                            \/ t.reason = "end_of_day" /\ other = run.trades

\* A candle adds at most one trade, and only one that the end of the session closes
\* depends on whether it is the last of its session.
LEMMA PassIs ==
    ASSUME NEW run \in Runs, NEW c \in Markets, NEW i \in 1 .. Len(Exits), NEW last \in BOOLEAN
    PROVE  /\ Pass(run, c, i, last) \in Runs /\ Pass(run, c, i, last).open \in {0, run.open, i}
           /\ Makes(run, i, Pass(run, c, i, last).trades, Pass(run, c, i, FALSE).trades)
<1> DEFINE filled == IF run.pending /\ c.fills
                     THEN [run EXCEPT !.pending = FALSE, !.open = i] ELSE run
           m == SetMarketCandle(run, c, i)
           s(z) == IF z THEN FlattenSession(m, i) ELSE m
<1>1. /\ Len(Exits) \in Nat /\ i \in 0 .. Len(Exits) /\ 0 \in 0 .. Len(Exits)
      /\ c.fills \in BOOLEAN /\ c.leaves \in BOOLEAN
  BY WalkAssumption
<1>2. filled \in Runs /\ filled.open \in {run.open, i} /\ filled.trades = run.trades
  BY <1>1 DEF Runs
<1>3. ASSUME NEW r \in Runs, r.open # 0, NEW left, Trade(r.open, i, left) \in Trades
      PROVE  /\ Close(r, i, left) \in Runs /\ Close(r, i, left).open = 0
             /\ Close(r, i, left).trades = Append(r.trades, Trade(r.open, i, left))
  <2>1. r.pending \in BOOLEAN /\ r.trades \in Seq(Trades)
    BY DEF Runs
  <2> DEFINE e == Append(r.trades, Trade(r.open, i, left))
  <2>2. Close(r, i, left) = [pending |-> r.pending, open |-> 0, trades |-> e]
    <3>1. Close(r, i, left) = [r EXCEPT !.open = 0, !.trades = e]
      BY DEF Close, Runs
    <3> HIDE DEF e
    <3> QED BY <3>1 DEF Runs
  <2>3. Append(r.trades, Trade(r.open, i, left)) \in Seq(Trades)
    BY <1>3, <2>1
  <2> QED BY <1>1, <2>1, <2>2, <2>3 DEF Runs
<1>4. m = IF filled.open # 0 /\ c.leaves THEN Close(filled, i, Exits[i]) ELSE filled
  BY DEF SetMarketCandle
<1> HIDE DEF filled, m
<1>5. ASSUME NEW r \in Runs, r.open # 0
      PROVE  /\ Trade(r.open, i, Exits[i]) \in Trades /\ Trade(r.open, i, Flattened[i]) \in Trades
             /\ Trade(r.open, i, Exits[i]).reason # "end_of_day"
             /\ Trade(r.open, i, Flattened[i]).reason = "end_of_day"
  <2>1. r.open \in 1 .. Len(Exits)
    BY <1>1, <1>5 DEF Runs
  <2> QED BY <2>1, TradeMade
<1>6. /\ m \in Runs /\ m.open \in {0, run.open, i}
      /\ \/ m.trades = run.trades
         \/ /\ m.open = 0
            /\ \E t \in Trades : /\ t.exit = i /\ t.entry \in {run.open, i} /\ t.reason # "end_of_day"
                                 /\ m.trades = Append(run.trades, t)
  <2>1. CASE filled.open # 0 /\ c.leaves
    <3> DEFINE t == Trade(filled.open, i, Exits[i])
    <3>1. m = Close(filled, i, Exits[i])
      BY <1>4, <2>1
    <3>2. t \in Trades /\ t.reason # "end_of_day"
      BY <1>2, <1>5, <2>1
    <3>3. m \in Runs /\ m.open = 0 /\ m.trades = Append(run.trades, t)
      BY <1>2, <1>3, <2>1, <3>1, <3>2
    <3>4. t.exit = i /\ t.entry \in {run.open, i}
      BY <1>2, TradeIs
    <3> HIDE DEF t
    <3> QED BY <3>2, <3>3, <3>4
  <2>2. CASE ~ (filled.open # 0 /\ c.leaves)
    BY <1>2, <1>4, <2>2
  <2> QED BY <2>1, <2>2
<1>7. ASSUME NEW z \in BOOLEAN
      PROVE  /\ s(z) \in Runs /\ s(z).open \in {0, m.open}
             /\ \/ s(z).trades = m.trades /\ (z => m.open = 0)
                \/ /\ z /\ m.open # 0
                   /\ s(z).trades = Append(m.trades, Trade(m.open, i, Flattened[i]))
             /\ ~ z => s(z).trades = m.trades
  <2> DEFINE alone == CancelPendingEntry(m)
  <2>1. alone \in Runs /\ alone.open = m.open /\ alone.trades = m.trades
    BY <1>6 DEF CancelPendingEntry, Runs
  <2>2. FlattenSession(m, i) = IF alone.open # 0 THEN Close(alone, i, Flattened[i]) ELSE alone
    BY DEF FlattenSession
  <2> HIDE DEF alone
  <2>3. CASE z /\ m.open # 0
    <3>1. s(z) = Close(alone, i, Flattened[i])
      BY <2>1, <2>2, <2>3
    <3>2. Trade(alone.open, i, Flattened[i]) \in Trades
      BY <1>5, <2>1, <2>3
    <3>3. /\ Close(alone, i, Flattened[i]) \in Runs /\ Close(alone, i, Flattened[i]).open = 0
          /\ Close(alone, i, Flattened[i]).trades = Append(m.trades, Trade(m.open, i, Flattened[i]))
      BY <1>3, <2>1, <2>3, <3>2
    <3> HIDE DEF s
    <3> QED BY <2>3, <3>1, <3>3
  <2>4. CASE z /\ m.open = 0
    <3>1. s(z) = alone
      BY <2>1, <2>2, <2>4
    <3> HIDE DEF s
    <3> QED BY <2>1, <2>4, <3>1
  <2>5. CASE ~ z
    <3>1. s(z) = m
      BY <2>5
    <3> HIDE DEF s
    <3> QED BY <1>6, <2>5, <3>1
  <2> QED BY <2>3, <2>4, <2>5
<1>8. ASSUME NEW r \in Runs
      PROVE  /\ Signal(r, c, i) \in Runs /\ Signal(r, c, i).open \in {0, r.open, i}
             /\ Signal(r, c, i).trades = r.trades
             /\ CancelPendingEntry(Signal(r, c, i)) \in Runs
             /\ CancelPendingEntry(Signal(r, c, i)).open \in {0, r.open, i}
             /\ CancelPendingEntry(Signal(r, c, i)).trades = r.trades
  <2> DEFINE g == Signal(r, c, i)
  <2>1. g \in Runs /\ g.open \in {0, r.open, i} /\ g.trades = r.trades
    <3>1. CASE r.open # 0 \/ r.pending
      BY <3>1 DEF Signal
    <3>2. CASE ~ (r.open # 0 \/ r.pending)
      <4>1. g = [pending |-> c.asks = "stop", open |-> IF c.asks = "limit" THEN i ELSE 0,
                 trades |-> r.trades]
        BY <3>2 DEF Signal, Runs
      <4>2. r.trades \in Seq(Trades) /\ (c.asks = "stop") \in BOOLEAN
        BY DEF Runs
      <4> HIDE DEF g
      <4> QED BY <1>1, <4>1, <4>2 DEF Runs
    <3> QED BY <3>1, <3>2
  <2> HIDE DEF g
  <2>2. /\ CancelPendingEntry(g) \in Runs /\ CancelPendingEntry(g).open = g.open
        /\ CancelPendingEntry(g).trades = g.trades
    BY <2>1 DEF CancelPendingEntry, Runs
  <2> QED BY <2>1, <2>2 DEF g
<1>9. \A z \in BOOLEAN : Pass(run, c, i, z) = IF z THEN CancelPendingEntry(Signal(s(z), c, i))
                                                     ELSE Signal(s(z), c, i)
  BY DEF Pass, m
<1> HIDE DEF s
<1>10. \A z \in BOOLEAN : /\ Pass(run, c, i, z) \in Runs
                          /\ Pass(run, c, i, z).open \in {0, s(z).open, i}
                          /\ Pass(run, c, i, z).trades = s(z).trades
  BY <1>7, <1>8, <1>9
<1> DEFINE p == Pass(run, c, i, last)
           q == Pass(run, c, i, FALSE)
<1>11. p \in Runs /\ p.trades = s(last).trades /\ q.trades = m.trades
  <2>1. FALSE \in BOOLEAN /\ s(FALSE).trades = m.trades
    BY <1>7
  <2> QED BY <1>10, <2>1
<1>12. p.open \in {0, run.open, i}
  BY <1>6, <1>7, <1>10
<1> HIDE DEF p, q
<1>13. CASE s(last).trades = m.trades
  <2>1. Makes(run, i, p.trades, q.trades)
    BY <1>6, <1>11, <1>13 DEF Makes
  <2> QED BY <1>11, <1>12, <2>1 DEF p, q
<1>14. CASE m.open # 0 /\ s(last).trades = Append(m.trades, Trade(m.open, i, Flattened[i]))
  <2> DEFINE t == Trade(m.open, i, Flattened[i])
  <2>1. t \in Trades /\ t.reason = "end_of_day"
    BY <1>5, <1>6, <1>14
  <2>2. t.exit = i /\ t.entry \in {run.open, i}
    BY <1>6, <1>14, TradeIs
  <2>3. m.trades = run.trades
    BY <1>6, <1>14
  <2>4. p.trades = Append(run.trades, t) /\ q.trades = run.trades
    BY <1>11, <1>14, <2>3
  <2> HIDE DEF t
  <2>5. Makes(run, i, p.trades, q.trades)
    BY <2>1, <2>2, <2>4 DEF Makes
  <2> QED BY <1>11, <1>12, <2>5 DEF p, q
<1> QED
  BY <1>7, <1>13, <1>14

\* The trades after each of the first n candles.
Ledgers(R, n) ==
    /\ R \in [0 .. n -> Seq(Trades)]
    /\ R[0] = << >>
    /\ \A i \in 1 .. n :
         \/ R[i] = R[i - 1]
         \/ \E t \in Trades : t.exit = i /\ t.entry <= i /\ R[i] = Append(R[i - 1], t)

\* A trade is left after it is entered, and at the latest at the candle at hand.
LEMMA LedgerTimes ==
    ASSUME NEW n \in Nat, NEW R, Ledgers(R, n)
    PROVE  \A k \in 0 .. n : \A t \in ToSet(R[k]) : t \in Trades /\ t.entry <= t.exit /\ t.exit <= k
<1> DEFINE Timed(k) == \A t \in ToSet(R[k]) : t \in Trades /\ t.entry <= t.exit /\ t.exit <= k
           I == {k \in 0 .. n : Timed(k)}
<1>1. /\ R \in [0 .. n -> Seq(Trades)] /\ R[0] = << >>
      /\ \A i \in 1 .. n : \/ R[i] = R[i - 1]
                           \/ \E t \in Trades : t.exit = i /\ t.entry <= i /\ R[i] = Append(R[i - 1], t)
  BY DEF Ledgers
<1>2. 0 \in I
  <2>1. ToSet(R[0]) = {}
    BY <1>1 DEF ToSet
  <2>2. 0 \in 0 .. n
    OBVIOUS
  <2> QED BY <2>1, <2>2
<1>3. ASSUME NEW i \in 1 .. n, i - 1 \in I PROVE i \in I
  <2>1. i \in Nat /\ i \in 0 .. n /\ i - 1 \in 0 .. n /\ R[i - 1] \in Seq(Trades)
    BY <1>1
  <2>2. Timed(i - 1)
    BY <1>3
  <2>3. \A t \in Trades : t.exit \in Int
    BY TradesAre, WalkAssumption
  <2>4. \A t \in ToSet(R[i - 1]) : t \in Trades /\ t.entry <= t.exit /\ t.exit <= i
    BY <2>1, <2>2, <2>3
  <2>5. CASE R[i] = R[i - 1]
    BY <2>1, <2>4, <2>5
  <2>6. CASE \E t \in Trades : t.exit = i /\ t.entry <= i /\ R[i] = Append(R[i - 1], t)
    <3>1. PICK t \in Trades : t.exit = i /\ t.entry <= i /\ R[i] = Append(R[i - 1], t)
      BY <2>6
    <3>2. ToSet(R[i]) = ToSet(R[i - 1]) \cup {t}
      BY <2>1, <3>1, AppendSet
    <3>3. t.exit <= i /\ t.entry <= t.exit
      BY <2>1, <3>1
    <3> QED BY <2>1, <2>4, <3>2, <3>3
  <2> QED BY <1>1, <2>5, <2>6
<1>4. \A k \in 0 .. n : k \in I
  <2> HIDE DEF I
  <2> QED BY <1>2, <1>3, Counting
<1> QED
  BY <1>4

\* A run over any prefix of the candles has the trades the run over all of them has there,
\* but for one that only the candle after the prefix lets the engine close.
LEMMA EngineIs ==
    ASSUME NEW n \in 1 .. Len(Exits), NEW candles \in [1 .. n -> Markets], NEW fl \in BOOLEAN
    PROVE  \E R : /\ Ledgers(R, n) /\ EngineRun(candles, n, fl) = R[n]
                 /\ \A k \in 0 .. n : EngineRun(candles, k, fl) = TradesIn(R[k], Unbelled(k))
<1> DEFINE Ends(i, k) == LastOfSession(i, k, fl)
           F == [x \in (1 .. n) \X Runs |-> Pass(x[2], candles[x[1]], x[1], Ends(x[1], n))]
           Tells(f, k) == f = [i \in 0 .. k |-> IF i = 0 THEN NoRun
                                                ELSE Pass(f[i - 1], candles[i], i, Ends(i, k))]
           f0(k) == CHOOSE f : Tells(f, k)
<1>1. /\ n \in Nat \ {0} /\ Len(Exits) \in Nat /\ n <= Len(Exits)
      /\ \A i \in 1 .. n : i \in 1 .. Len(Exits) /\ i - 1 \in 0 .. n /\ i \in 0 .. n /\ candles[i] \in Markets
  BY WalkAssumption
<1>2. \A i, k : Ends(i, k) \in BOOLEAN
  BY DEF LastOfSession
<1>3. ASSUME NEW k \in 0 .. n, NEW i \in 1 .. k
      PROVE  (i = k => Ends(i, k) = FALSE) /\ (i # k => Ends(i, k) = Ends(i, n))
  <2>1. i = k => ~ (i < k)
    BY <1>1
  <2>2. i # k => i < k /\ i < n
    BY <1>1
  <2>3. i = k => Ends(i, k) = FALSE
    BY <2>1, Zenon DEF LastOfSession
  <2>4. i # k => Ends(i, k) = Ends(i, n)
    BY <2>2, Zenon DEF LastOfSession
  <2> QED BY <2>3, <2>4
<1>4. f0(n) = f0(n) /\ \A k : EngineRun(candles, k, fl) = f0(k)[k].trades
  BY Zenon DEF EngineRun
<1> HIDE DEF Ends
<1>5. NoRun \in Runs /\ NoRun.open = 0 /\ NoRun.trades = << >>
  BY <1>1 DEF NoRun, Runs
<1>6. \A run \in Runs, i \in 1 .. n : \A k :
        /\ Pass(run, candles[i], i, Ends(i, k)) \in Runs
        /\ Pass(run, candles[i], i, Ends(i, k)).open \in {0, run.open, i}
  <2>1. ASSUME NEW run \in Runs, NEW i \in 1 .. n, NEW e \in BOOLEAN
        PROVE  /\ Pass(run, candles[i], i, e) \in Runs
               /\ Pass(run, candles[i], i, e).open \in {0, run.open, i}
    <3> DEFINE c == candles[i]
    <3>1. c \in Markets /\ i \in 1 .. Len(Exits)
      BY <1>1
    <3> HIDE DEF c
    <3>2. Pass(run, c, i, e) \in Runs /\ Pass(run, c, i, e).open \in {0, run.open, i}
      BY <3>1, PassIs
    <3> QED BY <3>2 DEF c
  <2> QED BY <1>2, <2>1
<1>7. F \in [(1 .. n) \X Runs -> Runs]
  <2>1. \A x \in (1 .. n) \X Runs : Pass(x[2], candles[x[1]], x[1], Ends(x[1], n)) \in Runs
    BY <1>6
  <2> QED BY <2>1
<1>8. \A i \in 1 .. n, x \in Runs : F[<<i, x>>] = Pass(x, candles[i], i, Ends(i, n))
  BY Zenon
<1> HIDE DEF F
<1>9. PICK g : Goes(g, Runs, NoRun, F, n)
  BY <1>1, <1>5, <1>7, Iterated
<1>10. /\ g \in [0 .. n -> Runs] /\ g[0] = NoRun
       /\ \A i \in 1 .. n : g[i] = Pass(g[i - 1], candles[i], i, Ends(i, n))
  <2>1. g \in [0 .. n -> Runs] /\ g[0] = NoRun /\ \A i \in 1 .. n : g[i] = F[<<i, g[i - 1]>>]
    BY <1>9 DEF Goes
  <2> QED BY <1>1, <1>8, <2>1
\* The run over k candles is that over n up to the one before its last.
<1>11. ASSUME NEW k \in 0 .. n
       PROVE  f0(k)[k] = IF k = 0 THEN NoRun ELSE Pass(g[k - 1], candles[k], k, FALSE)
  <2> DEFINE h == [i \in 0 .. k |-> IF i = 0 THEN NoRun ELSE Pass(g[i - 1], candles[i], i, Ends(i, k))]
             f == f0(k)
  <2>1. k \in Nat /\ \A i \in 0 .. k : i \in 0 .. n /\ (i # 0 => i \in 1 .. n /\ i - 1 \in 0 .. k /\ i \in 1 .. k)
    BY <1>1
  <2>2. \A i \in 0 .. k : i < k => h[i] = g[i]
    <3> TAKE i \in 0 .. k
    <3> HAVE i < k
    <3>1. CASE i = 0
      BY <1>10, <3>1
    <3>2. CASE i # 0
      <4>1. Ends(i, k) = Ends(i, n)
        <5>1. i \in 1 .. k /\ i # k
          BY <2>1, <3>2
        <5> QED BY <1>3, <5>1
      <4>2. h[i] = Pass(g[i - 1], candles[i], i, Ends(i, k))
        BY <3>2
      <4> QED BY <1>10, <2>1, <3>2, <4>1, <4>2
    <3> QED BY <3>1, <3>2
  <2>3. Tells(h, k)
    <3>1. \A i \in 0 .. k : h[i] = IF i = 0 THEN NoRun ELSE Pass(h[i - 1], candles[i], i, Ends(i, k))
      <4> TAKE i \in 0 .. k
      <4>1. h[i] = IF i = 0 THEN NoRun ELSE Pass(g[i - 1], candles[i], i, Ends(i, k))
        OBVIOUS
      <4>2. i # 0 => h[i - 1] = g[i - 1]
        BY <2>1, <2>2
      <4> HIDE DEF h
      <4> QED BY <4>1, <4>2
    <3> HIDE DEF f
    <3> QED BY <3>1
  <2>4. Tells(f, k)
    <3> HIDE DEF h
    <3> QED BY <2>3
  <2> HIDE DEF f
  <2>5. /\ \A i \in 0 .. k : f[i] = IF i = 0 THEN NoRun ELSE Pass(f[i - 1], candles[i], i, Ends(i, k))
        /\ \A i \in 0 .. k : h[i] = IF i = 0 THEN NoRun ELSE Pass(h[i - 1], candles[i], i, Ends(i, k))
    <3> HIDE DEF h
    <3> QED BY <2>3, <2>4
  <2>6. h[k] = IF k = 0 THEN NoRun ELSE Pass(g[k - 1], candles[k], k, Ends(k, k))
    BY <2>1
  <2> HIDE DEF h
  <2> DEFINE I == {i \in 0 .. k : f[i] = h[i]}
  <2>7. 0 \in I
    <3>1. 0 \in 0 .. k
      BY <2>1
    <3> QED BY <2>5, <3>1
  <2>8. \A i \in 1 .. k : i - 1 \in I => i \in I
    <3>1. \A i \in 1 .. k : i \in 0 .. k /\ i # 0
      BY <2>1
    <3> QED BY <2>5, <3>1
  <2>9. \A i \in 0 .. k : i \in I
    <3> HIDE DEF I
    <3> QED BY <2>1, <2>7, <2>8, Counting
  <2>10. k \in 0 .. k
    BY <2>1
  <2>11. f[k] = h[k]
    BY <2>9, <2>10
  <2>12. k # 0 => Ends(k, k) = FALSE
    <3>1. k # 0 => k \in 1 .. k
      BY <2>1
    <3> QED BY <1>3, <3>1
  <2> QED BY <2>6, <2>11, <2>12 DEF f
<1> HIDE DEF f0
<1>12. \A i \in 0 .. n : g[i].open \in 0 .. i
  <2> DEFINE I == {i \in 0 .. n : g[i].open \in 0 .. i}
  <2>1. 0 \in I
    BY <1>1, <1>5, <1>10
  <2>2. ASSUME NEW i \in 1 .. n, i - 1 \in I PROVE i \in I
    <3>1. g[i - 1] \in Runs /\ g[i] = Pass(g[i - 1], candles[i], i, Ends(i, n))
      BY <1>1, <1>10
    <3>2. g[i].open \in {0, g[i - 1].open, i}
      BY <1>6, <3>1
    <3>3. g[i - 1].open \in 0 .. i - 1
      BY <2>2
    <3> QED BY <1>1, <3>2, <3>3
  <2>3. \A i \in 0 .. n : i \in I
    <3> HIDE DEF I
    <3> QED BY <1>1, <2>1, <2>2, Counting
  <2> QED BY <2>3
<1> DEFINE R == [i \in 0 .. n |-> g[i].trades]
<1>13. \A i \in 0 .. n : R[i] = g[i].trades
  OBVIOUS
<1>14. R \in [0 .. n -> Seq(Trades)]
  <2>1. \A i \in 0 .. n : g[i].trades \in Seq(Trades)
    BY <1>10 DEF Runs
  <2> QED BY <2>1
<1> HIDE DEF R
<1>15. R[0] = << >>
  BY <1>1, <1>5, <1>10, <1>13
<1>16. ASSUME NEW i \in 1 .. n
       PROVE  LET q == Pass(g[i - 1], candles[i], i, FALSE)
              IN  \/ R[i] = R[i - 1] /\ q.trades = R[i - 1]
                  \/ \E t \in Trades :
                       /\ t.exit = i /\ t.entry <= i
                       /\ R[i] = Append(R[i - 1], t)
                       /\ \/ t.reason # "end_of_day" /\ q.trades = R[i]
                          \/ t.reason = "end_of_day" /\ q.trades = R[i - 1]
  <2> DEFINE run == g[i - 1]
             p == g[i]
             c == candles[i]
             q == Pass(run, c, i, FALSE)
  <2>1. run \in Runs /\ p = Pass(run, c, i, Ends(i, n)) /\ c \in Markets /\ i \in 1 .. Len(Exits)
    BY <1>1, <1>10
  <2>2. run.open \in 0 .. i - 1
    BY <1>1, <1>12
  <2>3. R[i] = p.trades /\ R[i - 1] = run.trades
    BY <1>1, <1>13
  <2> HIDE DEF run, p, c
  <2>4. Makes(run, i, p.trades, q.trades)
    <3> DEFINE e == Ends(i, n)
    <3>1. e \in BOOLEAN
      BY <1>2
    <3> HIDE DEF e
    <3>2. p = Pass(run, c, i, e)
      BY <2>1 DEF e
    <3>3. Makes(run, i, Pass(run, c, i, e).trades, Pass(run, c, i, FALSE).trades)
      BY <2>1, <3>1, PassIs
    <3> QED BY <3>2, <3>3
  <2>5. \A e \in {run.open, i} : e <= i
    BY <1>1, <2>2
  <2> HIDE DEF q
  <2>6. \/ R[i] = R[i - 1] /\ q.trades = R[i - 1]
        \/ \E t \in Trades :
             /\ t.exit = i /\ t.entry <= i
             /\ R[i] = Append(R[i - 1], t)
             /\ \/ t.reason # "end_of_day" /\ q.trades = R[i]
                \/ t.reason = "end_of_day" /\ q.trades = R[i - 1]
    BY <2>3, <2>4, <2>5 DEF Makes
  <2> QED BY <2>6 DEF q, run, c
<1>17. Ledgers(R, n)
  BY <1>14, <1>15, <1>16 DEF Ledgers
<1>18. ASSUME NEW k \in 1 .. n
       PROVE  Pass(g[k - 1], candles[k], k, FALSE).trades = TradesIn(R[k], Unbelled(k))
  <2> DEFINE q == Pass(g[k - 1], candles[k], k, FALSE)
             U == Unbelled(k)
             u == R[k - 1]
  <2>1. u \in Seq(Trades)
    BY <1>1, <1>14
  <2>2. TradesIn(u, U) = u
    <3>1. \A t \in ToSet(u) : t \in Trades /\ t.exit <= k - 1
      BY <1>1, <1>17, LedgerTimes
    <3>2. \A t \in ToSet(u) : t \in Trades /\ t.exit # k
      BY <1>1, <3>1, TradesAre
    <3>3. ToSet(u) \subseteq U
      BY <3>2 DEF Unbelled
    <3> HIDE DEF u, U
    <3> QED BY <2>1, <3>3, InAll
  <2>3. \A t \in Trades : t.exit = k => (t \in U <=> t.reason # "end_of_day")
    BY DEF Unbelled
  <2> HIDE DEF U
  <2>4. \/ R[k] = u /\ q.trades = u
        \/ \E t \in Trades :
             /\ t.exit = k /\ R[k] = Append(u, t)
             /\ \/ t.reason # "end_of_day" /\ q.trades = R[k]
                \/ t.reason = "end_of_day" /\ q.trades = u
    BY <1>16
  <2> HIDE DEF q, u
  <2>5. CASE R[k] = u /\ q.trades = u
    BY <2>2, <2>5 DEF q, U
  <2>6. ASSUME NEW t \in Trades, t.exit = k, R[k] = Append(u, t),
               \/ t.reason # "end_of_day" /\ q.trades = R[k]
               \/ t.reason = "end_of_day" /\ q.trades = u
        PROVE  q.trades = TradesIn(R[k], U)
    <3>1. TradesIn(Append(u, t), U) = IF t \in U THEN Append(TradesIn(u, U), t) ELSE TradesIn(u, U)
      BY <2>1, InOneMore
    <3> QED BY <2>2, <2>3, <2>6, <3>1
  <2> QED BY <2>4, <2>5, <2>6 DEF q, U
<1>19. \A k \in 0 .. n : EngineRun(candles, k, fl) = TradesIn(R[k], Unbelled(k))
  <2> TAKE k \in 0 .. n
  <2>1. CASE k = 0
    <3>1. EngineRun(candles, k, fl) = << >>
      BY <1>4, <1>5, <1>11, <2>1
    <3> QED BY <1>15, <2>1, <3>1, InNone
  <2>2. CASE k # 0
    <3>1. k \in 1 .. n
      BY <1>1, <2>2
    <3> QED BY <1>4, <1>11, <1>18, <2>2, <3>1
  <2> QED BY <2>1, <2>2
<1>20. EngineRun(candles, n, fl) = R[n]
  <2>1. n \in 1 .. n /\ n \in 0 .. n /\ n # 0
    BY <1>1
  <2>2. Ends(n, n) = FALSE
    BY <1>3, <2>1
  <2> QED BY <1>4, <1>10, <1>11, <1>13, <2>1, <2>2
<1> QED
  BY <1>17, <1>19, <1>20

\* The trades of a set are the same at two candles when none left between is of it.
LEMMA NothingBetween ==
    ASSUME NEW n \in Nat, NEW R, Ledgers(R, n), NEW S, NEW a \in 0 .. n, NEW z \in a .. n,
           \A t \in Trades : a < t.exit /\ t.exit <= z => t \notin S
    PROVE  TradesIn(R[z], S) = TradesIn(R[a], S)
<1> DEFINE m == z - a
           I == {i \in 0 .. m : TradesIn(R[a + i], S) = TradesIn(R[a], S)}
<1>1. /\ R \in [0 .. n -> Seq(Trades)]
      /\ \A i \in 1 .. n : \/ R[i] = R[i - 1]
                           \/ \E t \in Trades : t.exit = i /\ t.entry <= i /\ R[i] = Append(R[i - 1], t)
  BY DEF Ledgers
<1>2. m \in Nat /\ a \in Nat /\ a + m = z /\ z <= n /\ m \in 0 .. m
  OBVIOUS
<1>3. 0 \in I
  BY <1>2
<1>4. ASSUME NEW i \in 1 .. m, i - 1 \in I PROVE i \in I
  <2> DEFINE j == a + i
  <2>1. i \in 0 .. m /\ j \in 1 .. n /\ a + (i - 1) = j - 1 /\ j - 1 \in 0 .. n /\ a < j /\ j <= z
    BY <1>2
  <2>2. TradesIn(R[j - 1], S) = TradesIn(R[a], S)
    BY <1>4, <2>1
  <2> HIDE DEF j
  <2>3. TradesIn(R[j], S) = TradesIn(R[j - 1], S)
    <3>1. CASE R[j] = R[j - 1]
      BY <3>1
    <3>2. CASE \E t \in Trades : t.exit = j /\ t.entry <= j /\ R[j] = Append(R[j - 1], t)
      <4>1. PICK t \in Trades : t.exit = j /\ t.entry <= j /\ R[j] = Append(R[j - 1], t)
        BY <3>2
      <4>2. t \notin S
        BY <2>1, <4>1
      <4>3. R[j - 1] \in Seq(Trades)
        BY <1>1, <2>1
      <4> HIDE DEF m, I
      <4>4. TradesIn(Append(R[j - 1], t), S) = TradesIn(R[j - 1], S)
        BY <4>2, <4>3, InOneMore
      <4> QED BY <4>1, <4>4
    <3> QED BY <1>1, <2>1, <3>1, <3>2
  <2> QED BY <2>1, <2>2, <2>3 DEF j
<1>5. m \in I
  <2> HIDE DEF I, m
  <2> QED BY <1>2, <1>3, <1>4, Counting
<1> QED
  BY <1>2, <1>5

-----------------------------------------------------------------------------
(* The blocks *)

\* A candle between the bounds of block w is in block w.
LEMMA DivIs ==
    ASSUME NEW b \in Nat \ {0}, NEW x \in Nat, NEW w \in Nat, w * b <= x, x < (w + 1) * b
    PROVE  x \div b = w
<1> DEFINE q == x \div b
<1>1. q \in Nat /\ q * b <= x /\ x < (q + 1) * b
  OBVIOUS
<1> HIDE DEF q
<1>2. ~ (q < w)
  <2> SUFFICES ASSUME q + 1 <= w PROVE FALSE
    BY <1>1
  <2>1. (q + 1) * b <= w * b
    BY <1>1
  <2>2. (q + 1) * b \in Int /\ w * b \in Int
    BY <1>1
  <2> QED BY <1>1, <2>1, <2>2
<1>3. ~ (w < q)
  <2> SUFFICES ASSUME w + 1 <= q PROVE FALSE
    BY <1>1
  <2>1. (w + 1) * b <= q * b
    BY <1>1
  <2>2. (w + 1) * b \in Int /\ q * b \in Int
    BY <1>1
  <2> QED BY <1>1, <2>1, <2>2
<1> QED
  BY <1>1, <1>2, <1>3 DEF q

\* And the block a candle is in has it between its bounds.
LEMMA DivBounds ==
    ASSUME NEW b \in Nat \ {0}, NEW x \in Nat
    PROVE  x \div b \in Nat /\ (x \div b) * b <= x /\ x < (x \div b + 1) * b
OBVIOUS

\* More blocks end no earlier.
LEMMA TimesGrows ==
    ASSUME NEW b \in Nat, NEW x \in Nat, NEW y \in Nat, x <= y
    PROVE  x * b <= y * b /\ x * b \in Nat /\ y * b \in Nat
<1>1. PICK d \in Nat : y = x + d
  <2>1. y - x \in Nat /\ y = x + (y - x)
    OBVIOUS
  <2> QED BY <2>1
<1>2. y * b = x * b + d * b /\ x * b \in Nat /\ d * b \in Nat
  BY <1>1
<1> QED
  BY <1>2

\* The trades of one test block that its run sees, and those entered from a candle on.
Inside(b, k) ==
    {t \in Trades : /\ (t.entry - 1) \div b \in 1 .. k
                    /\ (t.exit - 1) \div b = (t.entry - 1) \div b
                    /\ t.reason = "end_of_day" => t.exit \div b = (t.exit - 1) \div b}
Since(e) == {t \in Trades : t.entry >= e}

\* A trade left in a test block is of that block if it was entered there, and not left to
\* the end of a session on its last candle.
LEMMA InsideNow ==
    ASSUME NEW b \in Nat \ {0}, NEW k \in Nat, NEW w \in 1 .. k, NEW t \in Trades,
           w * b < t.exit, t.exit <= (w + 1) * b, t.entry <= t.exit
    PROVE  t \in Inside(b, k) <=> t \in Since(w * b + 1) \cap Unbelled((w + 1) * b)
<1> DEFINE e == t.entry - 1
           x == t.exit - 1
           u == w * b
           v == (w + 1) * b
           y == (w + 2) * b
<1>1. e \in Nat /\ x \in Nat /\ e <= x
  BY TradesAre, WalkAssumption
<1>2. u \in Nat /\ v \in Nat /\ v = u + b /\ y = v + b
  OBVIOUS
<1>3. u <= x /\ x < v
  <2>1. u < t.exit /\ t.exit <= v /\ t.exit = x + 1
    BY <1>1, TradesAre, WalkAssumption
  <2> HIDE DEF u, v, x
  <2> QED BY <1>1, <1>2, <2>1
<1>4. t.entry = e + 1 /\ t.exit = x + 1
  BY TradesAre, WalkAssumption
<1> HIDE DEF e, x
<1>5. x \div b = w
  BY <1>1, <1>3, DivIs DEF u, v
<1>6. t.exit \div b = w <=> t.exit # v
  <2>1. ASSUME t.exit # v PROVE t.exit \div b = w
    <3>1. t.exit \in Nat /\ u <= t.exit /\ t.exit < v
      <4> HIDE DEF u, v
      <4> QED BY <1>1, <1>2, <1>3, <1>4, <2>1
    <3> QED BY <3>1, DivIs DEF u, v
  <2>2. ASSUME t.exit = v PROVE t.exit \div b = w + 1
    <3> DEFINE z == t.exit
    <3>1. z \in Nat /\ v <= z /\ z < y
      <4> HIDE DEF u, v, y
      <4> QED BY <1>2, <2>2
    <3>2. w + 1 \in Nat /\ (w + 1) * b = v /\ ((w + 1) + 1) * b = y
      OBVIOUS
    <3> HIDE DEF z, v, y
    <3>3. z \div b = w + 1
      BY <3>1, <3>2, DivIs
    <3> QED BY <3>3 DEF z
  <2> QED BY <2>1, <2>2
<1>7. t \in Unbelled(v) <=> (t.reason = "end_of_day" => t.exit \div b = x \div b)
  BY <1>5, <1>6 DEF Unbelled
<1>8. t \in Inside(b, k) <=> /\ e \div b = w
                             /\ t.reason = "end_of_day" => t.exit \div b = x \div b
  BY <1>5 DEF Inside, e, x
<1>9. ASSUME e >= u PROVE e \div b = w /\ t.entry >= u + 1
  <2>1. w * b <= e /\ e < (w + 1) * b
    <3> HIDE DEF u, v
    <3>1. u <= e /\ e < v
      BY <1>1, <1>2, <1>3, <1>9
    <3> QED BY <3>1 DEF u, v
  <2> QED BY <1>1, <1>2, <1>4, <1>9, <2>1, DivIs
<1>10. ASSUME e < u PROVE e \div b # w /\ ~ (t.entry >= u + 1)
  <2>1. e \div b # w
    <3> SUFFICES ASSUME e \div b = w PROVE FALSE
      OBVIOUS
    <3>1. (e \div b) * b <= e
      BY <1>1, DivBounds
    <3> QED BY <1>1, <1>2, <1>10, <3>1
  <2> QED BY <1>1, <1>2, <1>4, <1>10, <2>1
<1>11. t \in Since(u + 1) <=> e \div b = w
  <2>1. e >= u \/ e < u
    BY <1>1, <1>2
  <2> QED BY <1>9, <1>10, <2>1 DEF Since
<1> QED
  BY <1>7, <1>8, <1>11 DEF u, v

\* A run that ends with a block misses nothing of the blocks.
LEMMA InsideUnbelled ==
    ASSUME NEW b \in Nat \ {0}, NEW k \in Nat, NEW w \in Nat \ {0}, NEW R \in Seq(Trades)
    PROVE  TradesIn(TradesIn(R, Unbelled(w * b)), Inside(b, k)) = TradesIn(R, Inside(b, k))
<1> DEFINE v == w * b
           I == Inside(b, k)
           U == Unbelled(v)
<1>1. I \subseteq U
  <2> SUFFICES ASSUME NEW t \in I, t.reason = "end_of_day", t.exit = v PROVE FALSE
    BY DEF Inside, Unbelled
  <2>1. v \in Nat \ {0} /\ w - 1 \in Nat
    OBVIOUS
  <2>2. v \div b = w
    <3>1. w * b <= v /\ v < (w + 1) * b
      OBVIOUS
    <3> HIDE DEF v
    <3> QED BY <2>1, <3>1, DivIs
  <2>3. (v - 1) \div b = w - 1
    <3>1. (w - 1) * b <= v - 1 /\ v - 1 < ((w - 1) + 1) * b
      OBVIOUS
    <3>2. v - 1 \in Nat
      BY <2>1
    <3> HIDE DEF v
    <3> QED BY <2>1, <3>1, <3>2, DivIs
  <2>4. v \div b = (v - 1) \div b
    <3> HIDE DEF v
    <3> QED BY DEF Inside
  <2> HIDE DEF v
  <2> QED BY <2>2, <2>3, <2>4
<1>2. TradesIn(TradesIn(R, U), I) = TradesIn(R, U \cap I)
  <2> HIDE DEF U, I
  <2> QED BY InWithin
<1>3. U \cap I = I
  <2> HIDE DEF U, I
  <2> QED BY <1>1
<1> QED
  BY <1>2, <1>3

\* None is of the training block or of the candles after the last test block.
LEMMA InsideBounds ==
    ASSUME NEW b \in Nat \ {0}, NEW k \in Nat, NEW t \in Inside(b, k)
    PROVE  t \in Trades /\ b < t.entry /\ b < t.exit
           /\ t.entry <= (k + 1) * b /\ t.exit <= (k + 1) * b
<1> DEFINE e == t.entry - 1
           x == t.exit - 1
           q == e \div b
           v == (k + 1) * b
<1>1. t \in Trades /\ q \in 1 .. k /\ x \div b = q
  BY DEF Inside
<1>2. e \in Nat /\ x \in Nat /\ t.entry = e + 1 /\ t.exit = x + 1
  <2>1. t.entry \in 1 .. Len(Exits) /\ t.exit \in 1 .. Len(Exits) /\ Len(Exits) \in Nat
    BY <1>1, TradesAre, WalkAssumption
  <2>2. t.entry \in Nat \ {0} /\ t.exit \in Nat \ {0}
    BY <2>1
  <2> QED BY <2>2
<1> HIDE DEF e, x
<1>3. q * b <= e /\ e < (q + 1) * b
  BY <1>2, DivBounds
<1>4. q * b <= x /\ x < (q + 1) * b
  <2>1. (x \div b) * b <= x /\ x < (x \div b + 1) * b
    BY <1>2, DivBounds
  <2> QED BY <1>1, <2>1
<1> HIDE DEF q
<1>5. 1 * b <= q * b /\ q * b \in Nat
  <2>1. 1 \in Nat /\ q \in Nat /\ 1 <= q
    BY <1>1
  <2> QED BY <2>1, TimesGrows
<1>6. (q + 1) * b <= v /\ (q + 1) * b \in Nat /\ v \in Nat
  <2>1. q + 1 \in Nat /\ k + 1 \in Nat /\ q + 1 <= k + 1
    BY <1>1
  <2> QED BY <2>1, TimesGrows
<1>7. 1 * b = b
  OBVIOUS
<1> DEFINE lo == q * b
           hi == (q + 1) * b
<1> HIDE DEF lo, hi, v
<1>8. lo \in Nat /\ hi \in Nat /\ v \in Nat /\ b <= lo /\ hi <= v
      /\ lo <= e /\ e < hi /\ lo <= x /\ x < hi
  BY <1>3, <1>4, <1>5, <1>6, <1>7 DEF lo, hi
<1>9. b < t.entry /\ b < t.exit /\ t.entry <= v /\ t.exit <= v
  BY <1>2, <1>8
<1> QED
  BY <1>1, <1>9 DEF v

\* Nothing is kept of no set, and one more goes behind both of two series.
LEMMA InNoSet ==
    ASSUME NEW T, NEW s \in Seq(T), NEW S, ToSet(s) \cap S = {}
    PROVE  TradesIn(s, S) = << >>
<1> DEFINE r == TradesIn(s, S)
<1>1. r \in Seq(T) /\ ToSet(r) = {}
  BY InBoth
<1> HIDE DEF r
<1>2. r = << >>
  <2> SUFFICES ASSUME r # << >> PROVE FALSE
    OBVIOUS
  <2>1. 1 \in DOMAIN r
    BY <1>1
  <2> QED BY <1>1, <2>1 DEF ToSet
<1> QED BY <1>2 DEF r

\* A trade added to the second of two series is added to both.
LEMMA AppendBehind ==
    \A x, y \in Seq(Trades), t \in Trades : Append(x \o y, t) = x \o Append(y, t)
OBVIOUS

\* Nothing behind a series leaves it as it is.
LEMMA NothingBehind ==
    ASSUME NEW T, NEW x \in Seq(T)
    PROVE  x \o << >> = x
OBVIOUS

\* A window adds the trades of its block, in their order, to those of the blocks
\* before.
LEMMA WindowSplit ==
    ASSUME NEW n \in Nat, NEW R, Ledgers(R, n), NEW b \in Nat \ {0}, NEW k \in Nat,
           NEW w \in 1 .. k, (w + 1) * b <= n
    PROVE  TradesIn(R[(w + 1) * b], Inside(b, k)) =
             TradesIn(R[w * b], Inside(b, k))
               \o TradesIn(R[(w + 1) * b], Since(w * b + 1) \cap Unbelled((w + 1) * b))
<1> DEFINE a == w * b
           z == (w + 1) * b
           K == Inside(b, k)
           N == Since(a + 1) \cap Unbelled(z)
           I == {i \in 0 .. b : TradesIn(R[a + i], K) = TradesIn(R[a], K) \o TradesIn(R[a + i], N)}
<1>1. /\ R \in [0 .. n -> Seq(Trades)]
      /\ \A i \in 1 .. n : \/ R[i] = R[i - 1]
                           \/ \E t \in Trades : t.exit = i /\ t.entry <= i /\ R[i] = Append(R[i - 1], t)
  BY DEF Ledgers
<1>2. a \in Nat /\ z = a + b /\ z <= n /\ b \in 0 .. b /\ 0 \in 0 .. b
  OBVIOUS
<1>3. \A t \in Trades : t.entry \in Int /\ t.exit \in Int
  BY TradesAre, WalkAssumption
<1>4. ASSUME NEW t \in Trades, a < t.exit, t.exit <= z, t.entry <= t.exit
      PROVE  t \in K <=> t \in N
  BY <1>4, InsideNow
<1> HIDE DEF a, z, K
<1>5. \A i \in 0 .. b : a + i \in 0 .. n /\ R[a + i] \in Seq(Trades)
  <2>1. \A i \in 0 .. b : a + i \in 0 .. n
    BY <1>2
  <2> QED BY <1>1, <2>1
<1>6. a \in 0 .. n /\ R[a] \in Seq(Trades) /\ TradesIn(R[a], K) \in Seq(Trades)
  <2>1. a \in 0 .. n
    BY <1>2
  <2>2. R[a] \in Seq(Trades)
    BY <1>1, <2>1
  <2> QED BY <2>1, <2>2, InBoth
<1>7. 0 \in I
  <2>1. ToSet(R[a]) \cap N = {}
    <3>1. \A t \in ToSet(R[a]) : t \in Trades /\ t.entry <= t.exit /\ t.exit <= a
      BY <1>6, LedgerTimes
    <3>2. \A t \in ToSet(R[a]) : ~ (t.entry >= a + 1)
      BY <1>2, <1>3, <3>1
    <3> QED BY <3>2 DEF Since
  <2> HIDE DEF N
  <2>2. TradesIn(R[a], N) = << >>
    BY <1>6, <2>1, InNoSet
  <2>3. TradesIn(R[a], K) = TradesIn(R[a], K) \o TradesIn(R[a], N)
    BY <1>6, <2>2, NothingBehind
  <2>4. a + 0 = a
    BY <1>2
  <2> QED BY <1>2, <2>3, <2>4
<1>8. ASSUME NEW i \in 1 .. b, i - 1 \in I PROVE i \in I
  <2> DEFINE j == a + i
  <2>1. /\ i \in 0 .. b /\ i - 1 \in 0 .. b /\ j \in 1 .. n /\ a + (i - 1) = j - 1
        /\ a < j /\ j <= z
    BY <1>2
  <2>2. /\ TradesIn(R[j - 1], K) = TradesIn(R[a], K) \o TradesIn(R[j - 1], N)
        /\ R[j - 1] \in Seq(Trades)
    BY <1>5, <1>8, <2>1
  <2> HIDE DEF j, N, I
  <2>3. TradesIn(R[j], K) = TradesIn(R[a], K) \o TradesIn(R[j], N)
    <3>1. CASE R[j] = R[j - 1]
      BY <2>2, <3>1
    <3>2. CASE \E t \in Trades : t.exit = j /\ t.entry <= j /\ R[j] = Append(R[j - 1], t)
      <4>1. PICK t \in Trades : t.exit = j /\ t.entry <= j /\ R[j] = Append(R[j - 1], t)
        BY <3>2
      <4>2. t \in K <=> t \in N
        BY <1>4, <2>1, <4>1
      <4>3. \A S : TradesIn(Append(R[j - 1], t), S) =
                     IF t \in S THEN Append(TradesIn(R[j - 1], S), t) ELSE TradesIn(R[j - 1], S)
        <5>1. R[j - 1] \in Seq(Trades) /\ t \in Trades
          BY <2>2, <4>1
        <5> TAKE S
        <5> DEFINE u == R[j - 1]
        <5> HIDE DEF u
        <5>2. u \in Seq(Trades) /\ t \in Trades
          BY <5>1 DEF u
        <5>3. TradesIn(Append(u, t), S) = IF t \in S THEN Append(TradesIn(u, S), t) ELSE TradesIn(u, S)
          BY <5>2, InOneMore
        <5> QED BY <5>3 DEF u
      <4>4. TradesIn(R[j - 1], N) \in Seq(Trades)
        BY <2>2, InBoth
      <4>5. CASE t \in N
        <5>1. /\ TradesIn(R[j], K) = Append(TradesIn(R[j - 1], K), t)
              /\ TradesIn(R[j], N) = Append(TradesIn(R[j - 1], N), t)
          BY <4>1, <4>2, <4>3, <4>5
        <5>2. Append(TradesIn(R[a], K) \o TradesIn(R[j - 1], N), t)
                = TradesIn(R[a], K) \o Append(TradesIn(R[j - 1], N), t)
          BY <1>6, <4>1, <4>4, AppendBehind
        <5> QED BY <2>2, <5>1, <5>2
      <4>6. CASE t \notin N
        <5>1. /\ TradesIn(R[j], K) = TradesIn(R[j - 1], K)
              /\ TradesIn(R[j], N) = TradesIn(R[j - 1], N)
          BY <4>1, <4>2, <4>3, <4>6
        <5> QED BY <2>2, <5>1
      <4> QED BY <4>5, <4>6
    <3> QED BY <1>1, <2>1, <3>1, <3>2
  <2> QED BY <2>1, <2>3 DEF j, I
<1>9. b \in I
  <2> HIDE DEF I
  <2> QED BY <1>2, <1>7, <1>8, Counting
<1>10. TradesIn(R[z], K) = TradesIn(R[a], K) \o TradesIn(R[z], N)
  BY <1>2, <1>9
<1> QED
  BY <1>10 DEF a, z, K

-----------------------------------------------------------------------------
(* The sample *)

\* The result of a window, and how many trades a series of them counts.
WindowResults ==
    {[inSample |-> FromTrades(x[1], Capital), outOfSample |-> FromTrades(x[2], Capital)] :
        x \in Seq(Trades) \X Seq(Trades)}
Counts(rs) == [w \in DOMAIN rs |-> rs[w].outOfSample.total]

\* Behind every window the sample is the trades of the blocks done, and the windows
\* count as many.
SampleSoFar ==
    LET b == Block(Selection, asked.windows)
    IN  /\ oos = TradesIn(EngineRun(series, window * b, asked.flatten), Inside(b, asked.windows))
        /\ results \in Seq(WindowResults)
        /\ Total(Counts(results)) = Len(oos)

Report ==
    [figures |-> FromTrades(oos, Capital), sessions |-> Calendar, holdout |-> Holdout]

SampleInv ==
    /\ \E n \in 1 .. Len(Exits) : series \in [1 .. n -> Markets]
    /\ asked = Off => report = Off /\ results = << >> /\ oos = << >>
    /\ asked # Off =>
        /\ asked \in [windows : 0 .. MaxWindows, cut : (2 .. Len(series)) \cup {Off},
                     flatten : BOOLEAN]
        /\ window \in 1 .. asked.windows + 1
        /\ ~ TooShort(Selection, asked.windows) => SampleSoFar
        /\ report \in {Off, [refused |-> TRUE]} \/
            (~ TooShort(Selection, asked.windows) /\ window > asked.windows /\ report = Report)

\* The blocks that were asked for fit into the selection, and that into the series.
LEMMA BlocksFit ==
    ASSUME NEW len \in Nat, NEW k \in Nat, ~ TooShort(len, k)
    PROVE  k # 0 /\ Block(len, k) \in Nat \ {0} /\ (k + 1) * Block(len, k) <= len
<1> DEFINE d == k + 1
           b == len \div d
<1>1. d \in Nat \ {0} /\ k # 0 /\ d * 2 <= len
  BY DEF TooShort
<1>2. b \in Nat /\ d * b <= len /\ len < d * (b + 1)
  BY <1>1
<1> HIDE DEF d, b
<1>3. b # 0
  <2> SUFFICES ASSUME b = 0 PROVE FALSE
    OBVIOUS
  <2>1. len < d
    BY <1>1, <1>2
  <2> QED BY <1>1, <2>1
<1>4. Block(len, k) = b
  BY DEF Block, b, d
<1> QED
  BY <1>1, <1>2, <1>3, <1>4 DEF d

\* The selection is a prefix of the series, and ends before the cut.
LEMMA SelectionFits ==
    ASSUME SampleInv, asked # Off
    PROVE  /\ asked.windows \in Nat /\ Len(series) \in Nat
           /\ Selection \in Nat /\ Selection <= Len(series)
           /\ asked.cut # Off => asked.cut \in Nat /\ Selection = asked.cut - 1
<1>1. PICK n \in 1 .. Len(Exits) : series \in [1 .. n -> Markets]
  BY DEF SampleInv
<1>2. n \in Nat /\ Len(series) = n
  <2>1. n \in Nat
    BY WalkAssumption
  <2>2. series \in Seq(Markets) /\ DOMAIN series = 1 .. n
    BY <1>1, <2>1
  <2> QED BY <2>1, <2>2
<1>3. asked.windows \in 0 .. MaxWindows /\ asked.cut \in (2 .. Len(series)) \cup {Off}
  BY DEF SampleInv
<1>4. asked.windows \in Nat
  BY <1>3, WalkAssumption
<1>5. CASE asked.cut = Off
  BY <1>2, <1>4, <1>5 DEF Selection
<1>6. CASE asked.cut # Off
  <2>1. asked.cut \in 2 .. Len(series)
    BY <1>3, <1>6
  <2>2. Selection = asked.cut - 1
    BY <1>6 DEF Selection
  <2> QED BY <1>2, <1>4, <2>1, <2>2
<1> QED BY <1>5, <1>6

\* The figures of a series count its trades.
LEMMA FigureCount ==
    ASSUME NEW s \in Seq(Trades)
    PROVE  FromTrades(s, Capital).total = Len(s) /\ Len(s) \in Nat
<1>1. CASE s = << >>
  <2>1. FromTrades(s, Capital) = Nothing
    BY <1>1 DEF FromTrades
  <2> QED BY <1>1, <2>1 DEF Nothing
<1>2. CASE s # << >>
  BY <1>2 DEF FromTrades
<1> QED BY <1>1, <1>2

\* A window more counts its trades more.
LEMMA CountsOneMore ==
    ASSUME NEW rs \in Seq(WindowResults), NEW x \in Seq(Trades), NEW y \in Seq(Trades), NEW r,
           r = [inSample |-> FromTrades(x, Capital), outOfSample |-> FromTrades(y, Capital)]
    PROVE  /\ Append(rs, r) \in Seq(WindowResults)
           /\ Total(Counts(Append(rs, r))) = Total(Counts(rs)) + Len(y)
           /\ Total(Counts(rs)) \in Int
<1> DEFINE n == Len(rs)
           us == Append(rs, r)
           a == Counts(us)
           b == Counts(rs)
<1>1. r \in WindowResults
  <2>1. <<x, y>> \in Seq(Trades) \X Seq(Trades)
    OBVIOUS
  <2>2. r = [inSample    |-> FromTrades(<<x, y>>[1], Capital),
             outOfSample |-> FromTrades(<<x, y>>[2], Capital)]
    OBVIOUS
  <2> QED BY <2>1, <2>2 DEF WindowResults
<1>2. \A q \in WindowResults : q.outOfSample.total \in Int
  <2>1. \A p \in Seq(Trades) : FromTrades(p, Capital).total \in Int
    BY FigureCount
  <2> QED BY <2>1 DEF WindowResults
<1>3. r.outOfSample.total = Len(y) /\ Len(y) \in Int
  <2>1. r.outOfSample = FromTrades(y, Capital)
    OBVIOUS
  <2> QED BY <2>1, FigureCount
<1> HIDE DEF us
<1>4. /\ us \in Seq(WindowResults) /\ n \in Nat /\ DOMAIN rs = 1 .. n /\ DOMAIN us = 1 .. n + 1
      /\ us[n + 1] = r /\ \A i \in 1 .. n : us[i] = rs[i] /\ rs[i] \in WindowResults
  <2> HIDE DEF a, b
  <2> QED BY <1>1 DEF us
<1> HIDE DEF n
<1>5. n + 1 \in 1 .. n + 1 /\ \A i \in 1 .. n : i \in 1 .. n + 1
  BY <1>4
<1>6. DOMAIN a = 1 .. n + 1 /\ DOMAIN b = 1 .. n
  BY <1>4 DEF Counts
<1>7. a[n + 1] = Len(y)
  BY <1>3, <1>4, <1>5 DEF Counts
<1>8. \A i \in 1 .. n : b[i] \in Int /\ a[i] = b[i]
  BY <1>2, <1>4, <1>5 DEF Counts
<1> HIDE DEF a, b
<1>9. Total(a) = Total(b) + a[n + 1] /\ Total(b) \in Int
  <2>1. n \in Nat /\ a[n + 1] \in Int
    BY <1>3, <1>4, <1>7
  <2> QED BY <1>6, <1>8, <2>1, TotalOneMore
<1> QED
  BY <1>4, <1>7, <1>9 DEF a, b, us

\* Nothing is asked yet.
LEMMA SampleInit == WalkInit => SampleInv
<1> SUFFICES ASSUME WalkInit PROVE SampleInv
  OBVIOUS
<1>1. PICK n \in 1 .. Len(Exits) : series \in [1 .. n -> Markets]
  BY DEF WalkInit
<1> QED
  BY <1>1 DEF WalkInit, SampleInv

\* Before the first window nothing of a test block is done.
LEMMA AskSample == SampleInv /\ Ask => SampleInv'
<1> SUFFICES ASSUME SampleInv, Ask PROVE SampleInv'
  OBVIOUS
<1>1. /\ asked = Off /\ report = Off /\ results = << >> /\ oos = << >>
      /\ window' = 1 /\ series' = series /\ results' = << >> /\ oos' = << >> /\ report' = Off
  BY DEF SampleInv, Ask
<1>2. asked' \in [windows : 0 .. MaxWindows, cut : (2 .. Len(series)) \cup {Off},
                  flatten : BOOLEAN]
  BY DEF Ask
<1>3. PICK n \in 1 .. Len(Exits) : series \in [1 .. n -> Markets]
  BY DEF SampleInv
<1>4. window' \in 1 .. asked'.windows + 1
  BY <1>1, <1>2, WalkAssumption
<1>5. ASSUME ~ TooShort(Selection, asked.windows)' PROVE SampleSoFar'
  <2> DEFINE len == Selection'
             k == asked'.windows
             b == Block(len, k)
             fl == asked'.flatten
  <2>0. SampleSoFar' <=> /\ oos' = TradesIn(EngineRun(series, 1 * b, fl), Inside(b, k))
                         /\ results' \in Seq(WindowResults)
                         /\ Total(Counts(results')) = Len(oos')
    BY <1>1 DEF SampleSoFar
  <2>1. n \in Nat /\ Len(series) = n
    <3>1. n \in Nat
      BY WalkAssumption
    <3>2. series \in Seq(Markets) /\ DOMAIN series = 1 .. n
      BY <1>3, <3>1
    <3> QED BY <3>1, <3>2
  <2>2. k \in Nat
    BY <1>2, WalkAssumption
  <2>3. len \in Nat /\ len <= n
    <3>1. len = IF asked'.cut = Off THEN Len(series) ELSE asked'.cut - 1
      BY <1>1 DEF Selection
    <3>2. asked'.cut = Off \/ asked'.cut \in 2 .. n
      BY <1>2, <2>1
    <3> QED BY <2>1, <3>1, <3>2
  <2>4. ~ TooShort(len, k)
    BY <1>5
  <2> HIDE DEF len, k, fl
  <2>5. k # 0 /\ b \in Nat \ {0} /\ (k + 1) * b <= len
    BY <2>2, <2>3, <2>4, BlocksFit
  <2>6. b \in 0 .. n /\ 1 * b = b
    <3>1. 1 * b <= (k + 1) * b /\ (k + 1) * b \in Nat
      <4>1. 1 \in Nat /\ k + 1 \in Nat /\ 1 <= k + 1 /\ b \in Nat
        BY <2>2, <2>5
      <4> QED BY <4>1, TimesGrows
    <3> DEFINE v == (k + 1) * b
    <3>2. 1 * b = b
      BY <2>5
    <3> HIDE DEF v, b
    <3>3. b <= v /\ v \in Nat /\ v <= len
      BY <2>5, <3>1, <3>2 DEF v
    <3> QED BY <2>1, <2>3, <2>5, <3>2, <3>3
  <2> HIDE DEF b
  <2>7. PICK R : /\ Ledgers(R, n)
                 /\ \A j \in 0 .. n : EngineRun(series, j, fl) = TradesIn(R[j], Unbelled(j))
    <3>1. fl \in BOOLEAN
      BY <1>2 DEF fl
    <3> QED BY <1>3, <3>1, EngineIs
  <2>8. TradesIn(R[b], Inside(b, k)) = << >>
    <3>1. R[b] \in Seq(Trades)
      BY <2>6, <2>7 DEF Ledgers
    <3>2. \A t \in ToSet(R[b]) : t \in Trades /\ t.exit <= b
      BY <2>1, <2>6, <2>7, LedgerTimes
    <3>3. \A t \in Inside(b, k) : b < t.exit /\ t.exit \in Int
      <4>1. \A t \in Inside(b, k) : t \in Trades /\ b < t.exit
        BY <2>2, <2>5, InsideBounds
      <4> QED BY <4>1, TradesAre, WalkAssumption
    <3>4. ToSet(R[b]) \cap Inside(b, k) = {}
      BY <2>5, <3>2, <3>3
    <3> QED BY <3>1, <3>4, InNoSet
  <2>9. oos' = TradesIn(EngineRun(series, 1 * b, fl), Inside(b, k))
    <3>1. R[1 * b] \in Seq(Trades) /\ R[1 * b] = R[b]
      BY <2>6, <2>7 DEF Ledgers
    <3>2. TradesIn(TradesIn(R[1 * b], Unbelled(1 * b)), Inside(b, k)) = TradesIn(R[1 * b], Inside(b, k))
      <4>1. 1 \in Nat \ {0}
        OBVIOUS
      <4> QED BY <2>2, <2>5, <3>1, <4>1, InsideUnbelled
    <3>3. EngineRun(series, 1 * b, fl) = TradesIn(R[1 * b], Unbelled(1 * b))
      BY <2>6, <2>7
    <3> QED BY <1>1, <2>8, <3>1, <3>2, <3>3
  <2>10. results' \in Seq(WindowResults)
    BY <1>1
  <2>11. Total(Counts(results')) = Len(oos')
    <3>1. DOMAIN Counts(<< >>) = {}
      BY DEF Counts
    <3>2. Total(Counts(<< >>)) = 0 /\ Len(<< >>) = 0
      BY <3>1, TotalNothing
    <3> QED BY <1>1, <3>2
  <2> QED BY <2>0, <2>9, <2>10, <2>11
<1> QED
  BY <1>1, <1>2, <1>3, <1>4, <1>5 DEF SampleInv

\* A selection too short for its windows is refused before any of them runs.
LEMMA RefuseSample == SampleInv /\ RefuseSeries => SampleInv'
<1> SUFFICES ASSUME SampleInv, RefuseSeries PROVE SampleInv'
  OBVIOUS
<1>1. /\ asked # Off /\ TooShort(Selection, asked.windows) /\ report' = [refused |-> TRUE]
      /\ series' = series /\ asked' = asked /\ window' = window /\ results' = results /\ oos' = oos
  BY DEF RefuseSeries
<1>2. TooShort(Selection, asked.windows)'
  BY <1>1 DEF Selection
<1> QED
  BY <1>1, <1>2 DEF SampleInv

\* After the last window the sample is that of the whole selection, and it is reported.
LEMMA FinishSample == SampleInv /\ Finish => SampleInv'
<1> SUFFICES ASSUME SampleInv, Finish PROVE SampleInv'
  OBVIOUS
<1>1. /\ asked # Off /\ ~ TooShort(Selection, asked.windows) /\ window > asked.windows
      /\ report' = Report
      /\ series' = series /\ asked' = asked /\ window' = window /\ results' = results /\ oos' = oos
  BY DEF Finish, Report
<1>2. Selection' = Selection
  BY <1>1 DEF Selection
<1>3. (SampleSoFar' <=> SampleSoFar) /\ Report' = Report
  BY <1>1, <1>2 DEF SampleSoFar, Report, Calendar, Holdout
<1> QED
  BY <1>1, <1>2, <1>3 DEF SampleInv

\* A window that runs adds its block to the sample, as the run over the series has it.
LEMMA WindowSample == SampleInv /\ RunWindow => SampleInv'
<1> SUFFICES ASSUME SampleInv, RunWindow PROVE SampleInv'
  OBVIOUS
<1> DEFINE len == Selection
           k == asked.windows
           b == Block(len, k)
           w == window
           K == Inside(b, k)
           start == TestStart(len, k, w)
           fl == asked.flatten
           trades == EngineRun(series, RunLength(w), fl)
           after == TradesIn(trades, EnteredFrom(trades, start))
           before == TradesIn(trades, ToSet(trades) \ EnteredFrom(trades, start))
           rec == [inSample |-> FromTrades(before, Capital), outOfSample |-> FromTrades(after, Capital)]
<1>1. /\ asked # Off /\ report = Off /\ ~ TooShort(len, k) /\ w <= k
      /\ results' = Append(results, rec) /\ oos' = oos \o after /\ window' = w + 1
      /\ series' = series /\ asked' = asked /\ report' = report
  BY DEF RunWindow
<1>2. SampleSoFar /\ w \in 1 .. k + 1 /\ fl \in BOOLEAN
  BY <1>1 DEF SampleInv
<1>3. PICK n \in 1 .. Len(Exits) : series \in [1 .. n -> Markets]
  BY DEF SampleInv
<1>4. n \in Nat /\ Len(series) = n
  <2>1. n \in Nat
    BY WalkAssumption
  <2>2. series \in Seq(Markets) /\ DOMAIN series = 1 .. n
    BY <1>3, <2>1
  <2> QED BY <2>1, <2>2
<1>5. k \in Nat /\ len \in Nat /\ len <= n
  BY <1>1, <1>4, SelectionFits
<1>6. /\ oos = TradesIn(EngineRun(series, w * b, fl), K) /\ results \in Seq(WindowResults)
      /\ Total(Counts(results)) = Len(oos)
  BY <1>2 DEF SampleSoFar
<1>7. start = w * b + 1 /\ RunLength(w) = (w + 1) * b
  BY DEF TestStart, RunLength, TestEnd
<1>8. Selection' = Selection
  BY <1>1 DEF Selection
<1>9. SampleSoFar' <=> /\ oos' = TradesIn(EngineRun(series, (w + 1) * b, fl), K)
                       /\ results' \in Seq(WindowResults)
                       /\ Total(Counts(results')) = Len(oos')
  BY <1>1, <1>8 DEF SampleSoFar
<1> HIDE DEF len, k, start, w, fl
<1>10. k # 0 /\ b \in Nat \ {0} /\ (k + 1) * b <= len
  BY <1>1, <1>5, BlocksFit
<1> HIDE DEF b
<1>11. w \in 1 .. k
  BY <1>1, <1>2, <1>5
<1> DEFINE a == w * b
           z == (w + 1) * b
<1>12. a \in 0 .. n /\ z \in 0 .. n
  <2> DEFINE v == (k + 1) * b
  <2>1. z <= v /\ z \in Nat /\ v \in Nat
    <3>1. w + 1 \in Nat /\ k + 1 \in Nat /\ w + 1 <= k + 1 /\ b \in Nat
      BY <1>5, <1>10, <1>11
    <3> QED BY <3>1, TimesGrows
  <2>2. a <= z /\ a \in Nat
    <3>1. w \in Nat /\ w + 1 \in Nat /\ w <= w + 1 /\ b \in Nat
      BY <1>10, <1>11
    <3> QED BY <3>1, TimesGrows
  <2>3. v <= len
    BY <1>10
  <2> HIDE DEF a, z, v
  <2> QED BY <1>4, <1>5, <2>1, <2>2, <2>3
<1>13. PICK R : /\ Ledgers(R, n)
                /\ \A j \in 0 .. n : EngineRun(series, j, fl) = TradesIn(R[j], Unbelled(j))
  BY <1>2, <1>3, EngineIs
<1>14. /\ trades = TradesIn(R[z], Unbelled(z)) /\ R[z] \in Seq(Trades)
       /\ EngineRun(series, a, fl) = TradesIn(R[a], Unbelled(a)) /\ R[a] \in Seq(Trades)
  BY <1>7, <1>12, <1>13 DEF Ledgers
<1> DEFINE P == TradesIn(R[z], Unbelled(z))
<1>14a. P \in Seq(Trades) /\ ToSet(P) \subseteq ToSet(R[z])
  <2> HIDE DEF a, z
  <2> QED BY <1>14, InBoth
<1>15. after = TradesIn(R[z], Since(a + 1) \cap Unbelled(z))
  <2>1. \A t \in ToSet(P) : t \in Trades
    BY <1>4, <1>12, <1>13, <1>14a, LedgerTimes
  <2> DEFINE U == EnteredFrom(P, start)
             V == Since(a + 1)
  <2>2. ToSet(P) \cap U = ToSet(P) \cap V
    BY <1>7, <2>1 DEF EnteredFrom, Since
  <2>3. after = TradesIn(P, U)
    BY <1>14
  <2> HIDE DEF U, V, P, after
  <2>4. TradesIn(P, U) = TradesIn(P, V)
    BY <1>14a, <2>2, InSame
  <2> DEFINE W == Unbelled(z)
  <2> HIDE DEF W, a, z
  <2>5. TradesIn(TradesIn(R[z], W), V) = TradesIn(R[z], W \cap V)
    BY <1>14, InWithin
  <2>6. W \cap V = V \cap W
    OBVIOUS
  <2> QED BY <2>3, <2>4, <2>5, <2>6 DEF U, V, W, P
<1>16. after \in Seq(Trades) /\ before \in Seq(Trades)
  <2>1. trades \in Seq(Trades)
    BY <1>14, <1>14a
  <2> HIDE DEF trades, a, z
  <2> QED BY <2>1, InBoth
<1>16a. /\ TradesIn(EngineRun(series, a, fl), K) = TradesIn(R[a], K)
      /\ TradesIn(EngineRun(series, z, fl), K) = TradesIn(R[z], K)
  <2>1. w \in Nat \ {0} /\ w + 1 \in Nat \ {0}
    BY <1>11
  <2>2. \A v \in Nat \ {0} : \A Q \in Seq(Trades) :
          TradesIn(TradesIn(Q, Unbelled(v * b)), Inside(b, k)) = TradesIn(Q, Inside(b, k))
    <3>1. b \in Nat \ {0} /\ k \in Nat
      BY <1>5, <1>10
    <3> QED BY <3>1, InsideUnbelled
  <2>3. R[w * b] \in Seq(Trades) /\ R[(w + 1) * b] \in Seq(Trades)
    BY <1>14
  <2>4. TradesIn(TradesIn(R[w * b], Unbelled(w * b)), Inside(b, k)) = TradesIn(R[w * b], Inside(b, k))
    BY <2>1, <2>2, <2>3, Zenon
  <2>5. TradesIn(TradesIn(R[(w + 1) * b], Unbelled((w + 1) * b)), Inside(b, k))
          = TradesIn(R[(w + 1) * b], Inside(b, k))
    BY <2>1, <2>2, <2>3, Zenon
  <2> QED BY <1>12, <1>13, <1>14, <2>4, <2>5
<1>17. oos' = TradesIn(R[z], K)
  <2>1. z <= n
    BY <1>4, <1>12
  <2>2. TradesIn(R[z], K) = TradesIn(R[a], K) \o TradesIn(R[z], Since(a + 1) \cap Unbelled(z))
    <3>1. Ledgers(R, n) /\ (w + 1) * b <= n
      BY <1>13, <2>1
    <3> HIDE DEF P, after, before, trades, K, a, z
    <3>2. TradesIn(R[(w + 1) * b], Inside(b, k))
            = TradesIn(R[w * b], Inside(b, k))
                \o TradesIn(R[(w + 1) * b], Since(w * b + 1) \cap Unbelled((w + 1) * b))
      <4>1. n \in Nat /\ b \in Nat \ {0} /\ k \in Nat /\ w \in 1 .. k
        BY <1>4, <1>5, <1>10, <1>11
      <4>2. \A bb \in Nat \ {0}, kk \in Nat : \A ww \in 1 .. kk :
              (ww + 1) * bb <= n =>
                TradesIn(R[(ww + 1) * bb], Inside(bb, kk))
                  = TradesIn(R[ww * bb], Inside(bb, kk))
                      \o TradesIn(R[(ww + 1) * bb], Since(ww * bb + 1) \cap Unbelled((ww + 1) * bb))
        <5>1. n \in Nat /\ Ledgers(R, n)
          BY <3>1, <4>1
        <5> QED BY <5>1, WindowSplit, ZenonT(60)
      <4> QED BY <3>1, <4>1, <4>2, Zenon
    <3> QED BY <3>2 DEF K, a, z
  <2>3. oos = TradesIn(R[a], K)
    BY <1>6, <1>16a
  <2> HIDE DEF K, after, a, z
  <2> QED BY <1>1, <1>15, <2>2, <2>3
<1>18. oos \in Seq(Trades)
  <2>1. oos = TradesIn(R[a], K)
    BY <1>6, <1>16a
  <2> HIDE DEF K, a
  <2> QED BY <1>14, <2>1, InBoth
<1> HIDE DEF after, before, a, K, trades
<1>19. results' \in Seq(WindowResults) /\ Total(Counts(results')) = Len(oos) + Len(after)
  <2> DEFINE r == rec
  <2>1. r = [inSample |-> FromTrades(before, Capital), outOfSample |-> FromTrades(after, Capital)]
    OBVIOUS
  <2> HIDE DEF r
  <2>2. \A x, y \in Seq(Trades), rs \in Seq(WindowResults) :
          r = [inSample |-> FromTrades(x, Capital), outOfSample |-> FromTrades(y, Capital)] =>
            /\ Append(rs, r) \in Seq(WindowResults)
            /\ Total(Counts(Append(rs, r))) = Total(Counts(rs)) + Len(y)
    BY CountsOneMore
  <2>3. /\ Append(results, r) \in Seq(WindowResults)
        /\ Total(Counts(Append(results, r))) = Total(Counts(results)) + Len(after)
    BY <1>6, <1>16, <2>1, <2>2
  <2> QED BY <1>1, <1>6, <2>3 DEF r
<1>20. Len(oos') = Len(oos) + Len(after)
  BY <1>1, <1>16, <1>18
<1>21. SampleSoFar'
  BY <1>9, <1>17, <1>19, <1>20, <1>16a
<1>22. window' \in 1 .. asked'.windows + 1
  BY <1>1, <1>5, <1>11 DEF k
<1> QED
  BY <1>1, <1>3, <1>21, <1>22 DEF SampleInv, k, w

\* Every step of the command keeps the invariant.
LEMMA SampleNext == SampleInv /\ [WalkNext]_walkVars => SampleInv'
<1> SUFFICES ASSUME SampleInv, [WalkNext]_walkVars PROVE SampleInv'
  OBVIOUS
<1>1. CASE Ask
  BY <1>1, AskSample
<1>2. CASE RefuseSeries
  BY <1>2, RefuseSample
<1>3. CASE RunWindow
  BY <1>3, WindowSample
<1>4. CASE Finish
  BY <1>4, FinishSample
<1>5. CASE UNCHANGED walkVars
  <2>1. /\ series' = series /\ asked' = asked /\ window' = window /\ results' = results
        /\ oos' = oos /\ report' = report
    BY <1>5 DEF walkVars
  <2>2. Selection' = Selection
    BY <2>1 DEF Selection
  <2>3. (SampleSoFar' <=> SampleSoFar) /\ Report' = Report
    BY <2>1, <2>2 DEF SampleSoFar, Report, Calendar, Holdout
  <2> QED BY <2>1, <2>2, <2>3 DEF SampleInv
<1> QED
  BY <1>1, <1>2, <1>3, <1>4, <1>5 DEF WalkNext

\* After the last window the sample is that of the single run, as far as the windows see it.
LEMMA SampleHolds == SampleInv => SampleKept
<1> SUFFICES ASSUME SampleInv, report # Off, "figures" \in DOMAIN report PROVE SampleKept
  BY DEF SampleKept, Reported
<1> DEFINE len == Selection
           k == asked.windows
           b == Block(len, k)
           K == Inside(b, k)
           fl == asked.flatten
           single == EngineRun(series, Len(series), fl)
           S == {t \in ToSet(single) : /\ BlockOf(t.entry) \in 1 .. k
                                       /\ BlockOf(t.exit) = BlockOf(t.entry)
                                       /\ Seen(t)}
<1>1. asked # Off
  BY DEF SampleInv
<1>2. /\ window \in 1 .. k + 1 /\ ~ TooShort(len, k) /\ SampleSoFar
      /\ window > k /\ report = Report
  <2>1. report # [refused |-> TRUE]
    <3> SUFFICES ASSUME report = [refused |-> TRUE] PROVE FALSE
      OBVIOUS
    <3>1. DOMAIN report = {"refused"}
      OBVIOUS
    <3> QED BY <3>1
  <2> QED BY <1>1, <2>1 DEF SampleInv
<1>3. PICK n \in 1 .. Len(Exits) : series \in [1 .. n -> Markets]
  BY DEF SampleInv
<1>4. n \in Nat /\ Len(series) = n
  <2>1. n \in Nat
    BY WalkAssumption
  <2>2. series \in Seq(Markets) /\ DOMAIN series = 1 .. n
    BY <1>3, <2>1
  <2> QED BY <2>1, <2>2
<1>5. /\ k \in Nat /\ len \in Nat /\ len <= n
      /\ asked.cut # Off => asked.cut \in Nat /\ len = asked.cut - 1
  BY <1>1, <1>4, SelectionFits
<1>6. window = k + 1
  BY <1>2, <1>5
<1>7. /\ oos = TradesIn(EngineRun(series, (k + 1) * b, fl), K) /\ results \in Seq(WindowResults)
      /\ Total(Counts(results)) = Len(oos)
  BY <1>2, <1>6 DEF SampleSoFar
<1>8. /\ report.figures = FromTrades(oos, Capital)
      /\ report.sessions = Calendar
      /\ report.holdout = Holdout
  BY <1>2 DEF Report
<1>9. Calendar = {Stamps[i].day : i \in 1 * b + 1 .. (k + 1) * b}
  BY DEF Calendar, TestStart, TestEnd
<1>10. \A i : BlockOf(i) = (i - 1) \div b
  BY DEF BlockOf
<1>11. /\ asked.cut = Off => Holdout = << >>
       /\ asked.cut # Off => Holdout = TradesIn(single, EnteredFrom(single, asked.cut))
  BY DEF Holdout
<1> HIDE DEF len, k
<1>12. k # 0 /\ b \in Nat \ {0} /\ (k + 1) * b <= len
  BY <1>2, <1>5, BlocksFit
<1> HIDE DEF b
<1> DEFINE z == (k + 1) * b
<1>13. z \in 0 .. n /\ n \in z .. n /\ z <= len
  <2>1. z \in Nat
    BY <1>5, <1>12
  <2> HIDE DEF z
  <2> QED BY <1>4, <1>5, <1>12, <2>1 DEF z
<1>14. PICK R : /\ Ledgers(R, n) /\ EngineRun(series, n, fl) = R[n]
                /\ \A j \in 0 .. n : EngineRun(series, j, fl) = TradesIn(R[j], Unbelled(j))
  <2>1. fl \in BOOLEAN
    BY <1>1 DEF SampleInv
  <2> HIDE DEF fl
  <2> QED BY <1>3, <2>1, EngineIs
<1>15. single = R[n] /\ R[z] \in Seq(Trades) /\ R[n] \in Seq(Trades)
  BY <1>4, <1>13, <1>14 DEF Ledgers
<1>15a. TradesIn(EngineRun(series, z, fl), K) = TradesIn(R[z], K)
  <2>1. k + 1 \in Nat \ {0}
    BY <1>5
  <2>2. TradesIn(TradesIn(R[(k + 1) * b], Unbelled((k + 1) * b)), Inside(b, k))
          = TradesIn(R[(k + 1) * b], Inside(b, k))
    BY <1>5, <1>12, <1>15, <2>1, InsideUnbelled
  <2>3. EngineRun(series, z, fl) = TradesIn(R[z], Unbelled(z))
    BY <1>13, <1>14
  <2> QED BY <2>2, <2>3
<1>16. \A t \in K : /\ t \in Trades /\ b < t.entry /\ b < t.exit /\ t.entry <= z /\ t.exit <= z
                    /\ t.entry \in Nat /\ t.exit \in Nat
  <2>1. \A t \in K : t \in Trades /\ b < t.entry /\ b < t.exit /\ t.entry <= z /\ t.exit <= z
    BY <1>5, <1>12, InsideBounds
  <2>2. \A t \in Trades : t.entry \in Nat /\ t.exit \in Nat
    BY TradesAre, WalkAssumption
  <2> HIDE DEF K, z
  <2> QED BY <2>1, <2>2
<1> HIDE DEF z, single
<1>17. oos = TradesIn(R[n], K)
  <2>1. \A t \in Trades : z < t.exit /\ t.exit <= n => t \notin K
    <3> HIDE DEF K
    <3> QED BY <1>13, <1>16
  <2> HIDE DEF K
  <2>2. TradesIn(R[n], K) = TradesIn(R[z], K)
    <3>1. Ledgers(R, n) /\ z \in 0 .. n /\ n \in z .. n
      BY <1>13, <1>14
    <3>2. \A m \in z .. n : (\A t \in Trades : z < t.exit /\ t.exit <= m => t \notin K)
            => TradesIn(R[m], K) = TradesIn(R[z], K)
      <4>1. n \in Nat
        BY <1>4
      <4>2. \A S1 : \A x \in 0 .. n : \A y \in x .. n :
              (\A t \in Trades : x < t.exit /\ t.exit <= y => t \notin S1)
                => TradesIn(R[y], S1) = TradesIn(R[x], S1)
        BY <3>1, <4>1, NothingBetween, Zenon
      <4> QED BY <3>1, <4>2, Zenon
    <3> QED BY <2>1, <3>1, <3>2
  <2> QED BY <1>7, <1>15a, <2>2 DEF z
<1>18. oos = TradesIn(single, S)
  <2>1. \A t \in ToSet(R[n]) : t \in Trades
    BY <1>4, <1>13, <1>14, LedgerTimes
  <2>2. \A t \in Trades : Seen(t) <=> (t.reason = "end_of_day" => t.exit \div b = (t.exit - 1) \div b)
    <3> TAKE t \in Trades
    <3>1. t.exit + 1 - 1 = t.exit
      BY TradesAre, WalkAssumption
    <3>2. BlockOf(t.exit + 1) = t.exit \div b
      <4> DEFINE v == t.exit + 1
      <4> HIDE DEF v
      <4>1. BlockOf(v) = (v - 1) \div b
        BY <1>10
      <4>2. v - 1 = t.exit
        <5>1. t.exit \in Int
          BY TradesAre, WalkAssumption
        <5> QED BY <5>1 DEF v
      <4>3. BlockOf(v) = t.exit \div b
        BY <4>1, <4>2
      <4> QED BY <4>3 DEF v
    <3>3. BlockOf(t.exit) = (t.exit - 1) \div b
      BY <1>10
    <3> DEFINE x == t.exit \div b
               y == (t.exit - 1) \div b
    <3> HIDE DEF x, y
    <3>4. (x = y) <=> (BlockOf(t.exit + 1) = BlockOf(t.exit))
      BY <3>2, <3>3 DEF x, y
    <3> QED BY <3>4, Zenon DEF Seen, x, y
  <2>3. ToSet(R[n]) \cap K = ToSet(R[n]) \cap S
    BY <1>10, <1>15, <2>1, <2>2 DEF Inside
  <2> HIDE DEF K, S
  <2>4. TradesIn(R[n], K) = TradesIn(R[n], S)
    BY <1>15, <2>3, InSame
  <2> QED BY <1>15, <1>17, <2>4
<1>19. oos \in Seq(Trades) /\ ToSet(oos) = ToSet(R[n]) \cap K
  <2> HIDE DEF K
  <2> QED BY <1>15, <1>17, InBoth
<1> HIDE DEF K
<1>20. FiguresAgree(report.figures, oos, Capital)
  <2>1. \A t \in Trades : t.pnl \in Int
    BY TradesAre
  <2> QED BY <1>8, <1>19, <2>1, FiguresAre, WalkAssumption
<1>21. report.figures.total = Total([w \in DOMAIN results |-> results[w].outOfSample.total])
  BY <1>7, <1>8, <1>19, FigureCount DEF Counts
<1>22. \A t \in ToSet(oos) : {Stamps[t.entry].day, t.day} \subseteq report.sessions
  <2> TAKE t \in ToSet(oos)
  <2>1. t \in K /\ t \in Trades
    BY <1>16, <1>19
  <2>2. t.entry \in 1 * b + 1 .. z /\ t.exit \in 1 * b + 1 .. z
    <3>1. 1 * b = b /\ b \in Nat
      BY <1>12
    <3>2. z \in Nat
      BY <1>13
    <3> QED BY <1>16, <2>1, <3>1, <3>2
  <2>3. t.day = Stamps[t.exit].day
    BY <2>1, TradesAre
  <2>4. \A i \in 1 * b + 1 .. z : Stamps[i].day \in report.sessions
    BY <1>8, <1>9 DEF z
  <2> QED BY <2>2, <2>3, <2>4
<1>23. asked.cut # Off => \A t \in ToSet(single) : t.entry >= asked.cut <=> t \in ToSet(report.holdout)
  <2> SUFFICES ASSUME asked.cut # Off
               PROVE  \A t \in ToSet(single) : t.entry >= asked.cut <=> t \in ToSet(report.holdout)
    OBVIOUS
  <2>1. ToSet(report.holdout) = ToSet(single) \cap EnteredFrom(single, asked.cut)
    BY <1>8, <1>11, <1>15, InBoth
  <2> QED BY <2>1 DEF EnteredFrom
<1>24. ToSet(report.holdout) \cap ToSet(oos) = {}
  <2>1. CASE asked.cut = Off
    BY <1>8, <1>11, <2>1 DEF ToSet
  <2>2. CASE asked.cut # Off
    <3>1. ToSet(report.holdout) = ToSet(single) \cap EnteredFrom(single, asked.cut)
      BY <1>8, <1>11, <1>15, <2>2, InBoth
    <3>2. \A t \in ToSet(report.holdout) : t.entry >= asked.cut
      BY <3>1 DEF EnteredFrom
    <3>3. \A t \in ToSet(oos) : t.entry <= z /\ t.entry \in Nat
      BY <1>16, <1>19
    <3>4. asked.cut \in Nat /\ z < asked.cut /\ z \in Nat
      BY <1>5, <1>13, <2>2
    <3>5. \A t \in ToSet(oos) : ~ (t.entry >= asked.cut)
      BY <3>3, <3>4
    <3> QED BY <3>2, <3>5
  <2> QED BY <2>1, <2>2
<1> QED
  BY <1>18, <1>20, <1>21, <1>22, <1>23, <1>24 DEF SampleKept, k, single

\* The sample of a walk-forward is what one run over the series enters and leaves inside a
\* test block, without the trades that only the candle behind the block lets the engine
\* close (is_last_bar_of_session), and its figures are those of its trades.
THEOREM SampleSafe == WalkSpec => []SampleKept
<1>1. SampleInv /\ [WalkNext]_walkVars => SampleInv'
  BY SampleNext
<1> QED
  BY <1>1, SampleInit, SampleHolds, PTL DEF WalkSpec
=============================================================================
