------------------------------ MODULE SetLemmas ------------------------------
(***************************************************************************)
(* What the proofs need of finite sets and find in no library: the least   *)
(* and the greatest of a set of naturals, and sums as MapThenSumSet of     *)
(* FiniteSetsExt adds them up.  A fact about every finite set is proved by *)
(* a smallest set that would contradict it.                                *)
(***************************************************************************)
EXTENDS Integers, FiniteSetsExt, FiniteSetTheorems, WellFoundedInduction, TLAPS

\* The order of the naturals as a set of pairs.
Less == {ss \in Nat \X Nat : ss[1] < ss[2]}

\* The order of the naturals is well founded: the library states it of the
\* relation it builds from an operator, and Less is the same set of pairs.
LEMMA LessWellFounded == IsWellFoundedOn(Less, Nat)
BY NatLessThanWellFounded DEF OpToRel, Less

\* What a pair of Less says.
LEMMA LessPairs == \A x, y \in Nat : <<x, y>> \in Less <=> x < y
BY DEF Less

\* Min of a set of naturals that is not empty is one of its members and none is
\* smaller: the choice of the next free bracket in Send, of the first fill of a
\* replay.
LEMMA MinIn ==
    ASSUME NEW S \in SUBSET Nat, S # {}
    PROVE  Min(S) \in S /\ \A y \in S : Min(S) <= y
<1>1. PICK x \in S : \A y \in S : ~ (<<y, x>> \in Less)
  BY LessWellFounded, WFMin
<1>2. \A y \in S : ~ (y < x)
  BY <1>1, LessPairs
<1>3. \A y \in S : x <= y
  BY <1>2
<1>4. \E z \in S : \A y \in S : z <= y
  BY <1>3
<1> QED
  BY <1>4 DEF Min

\* Max of a set of naturals with an upper bound is one of its members: the
\* newest open row of Recoverable.
LEMMA MaxIn ==
    ASSUME NEW n \in Nat, NEW S \in SUBSET (0 .. n), S # {}
    PROVE  Max(S) \in S
<1> DEFINE T == {k \in 0 .. n : n - k \in S}
<1>1. PICK x \in S : TRUE
  OBVIOUS
<1>2. x \in Int /\ n - x \in 0 .. n /\ n - (n - x) = x
  BY <1>1
<1>3. T \in SUBSET Nat /\ T # {}
  <2>1. n - (n - x) \in S
    BY <1>2
  <2>2. n - x \in T
    BY <1>2, <2>1
  <2>3. \A k \in 0 .. n : k \in Nat
    OBVIOUS
  <2> QED BY <2>2, <2>3
<1>4. Min(T) \in T /\ \A y \in T : Min(T) <= y
  <2> HIDE DEF T
  <2> QED BY <1>3, MinIn
<1>5. ASSUME NEW y \in S PROVE n - Min(T) >= y
  <2>1. y \in 0 .. n /\ n - y \in 0 .. n /\ n - (n - y) = y
    OBVIOUS
  <2>2. n - y \in T
    BY <2>1
  <2>3. Min(T) <= n - y /\ Min(T) \in 0 .. n
    BY <1>4, <2>2
  <2>4. \A m \in 0 .. n, z \in 0 .. n : m <= n - z => n - m >= z
    OBVIOUS
  <2> HIDE DEF T
  <2> QED BY <2>1, <2>3, <2>4
<1>6. n - Min(T) \in S
  BY <1>4
<1>7. \E z \in S : \A y \in S : z >= y
  BY <1>5, <1>6
<1> QED
  BY <1>7 DEF Max

-----------------------------------------------------------------------------
\* The sum of w over T.
SumOver(w, T) == MapThenSumSet(LAMBDA x : w[x], T)

\* The element that is added first, and the function the library adds with.
First(s) == CHOOSE x \in s : TRUE
Adds(g, w, T) ==
    g = [s \in SUBSET T |-> IF s = {} THEN 0 ELSE w[First(s)] + g[s \ {First(s)}]]

\* The library's fold is of such a function, the one its CHOOSE takes.
LEMMA TotalFolds ==
    ASSUME NEW w, NEW T
    PROVE  SumOver(w, T) = (CHOOSE g : Adds(g, w, T))[T]
BY DEF SumOver, MapThenSumSet, MapThenFoldSet, Adds, First

\* Among sets of parts of a finite set some one has no smaller one.
LEMMA SmallestPart ==
    ASSUME NEW T, IsFiniteSet(T), NEW B, B \subseteq SUBSET T, B # {}
    PROVE  \E s \in B : \A u \in B : u \subseteq s => u = s
<1>1. IsWellFoundedOn(StrictSubsetOrdering(T), SUBSET T)
  BY FS_StrictSubsetOrderingWellFounded, FS_FiniteSubsetsOfFinite
<1>2. PICK s \in B : \A u \in B : ~ (<<u, s>> \in StrictSubsetOrdering(T))
  BY <1>1, WFMin
<1> QED
  BY <1>2 DEF StrictSubsetOrdering

\* The element that is added first is in the set.
LEMMA FirstIn == ASSUME NEW s, s # {} PROVE First(s) \in s
BY DEF First

\* Such a function at a set: what is added first, and the rest.
LEMMA AddsAt ==
    ASSUME NEW w, NEW T, NEW g, Adds(g, w, T), NEW s \in SUBSET T
    PROVE  g[s] = IF s = {} THEN 0 ELSE w[First(s)] + g[s \ {First(s)}]
BY DEF Adds

\* Two such functions agree where both are defined.
LEMMA AddsAgree ==
    ASSUME NEW w, NEW T, NEW U, NEW g, NEW h, Adds(g, w, T), Adds(h, w, U),
           NEW s \in SUBSET T, s \in SUBSET U, IsFiniteSet(s)
    PROVE  g[s] = h[s]
<1> DEFINE B == {u \in SUBSET s : g[u] # h[u]}
<1> SUFFICES ASSUME B # {} PROVE FALSE
  OBVIOUS
<1>1. PICK u \in B : \A v \in B : v \subseteq u => v = u
  <2>1. B \subseteq SUBSET s
    OBVIOUS
  <2> HIDE DEF B
  <2> QED BY <2>1, SmallestPart
<1>0. u \in SUBSET T /\ u \in SUBSET U /\ u \subseteq s /\ g[u] # h[u]
  BY <1>1
<1>2. u # {}
  <2>1. {} \in SUBSET T /\ {} \in SUBSET U
    OBVIOUS
  <2>2. g[{}] = 0 /\ h[{}] = 0
    BY <2>1, AddsAt
  <2> QED BY <1>0, <2>2
<1> DEFINE v == u \ {First(u)}
<1>3. g[v] = h[v]
  BY <1>1, <1>2, FirstIn
<1>4. g[u] = w[First(u)] + g[v] /\ h[u] = w[First(u)] + h[v]
  <2> HIDE DEF B
  <2> QED BY <1>0, <1>2, AddsAt
<1> QED
  BY <1>0, <1>3, <1>4

\* There is such a function on the parts of any finite set.
LEMMA AddsExists ==
    ASSUME NEW w, NEW T, IsFiniteSet(T)
    PROVE  \E g : Adds(g, w, T)
<1> DEFINE B == {s \in SUBSET T : ~ \E g : Adds(g, w, s)}
<1> SUFFICES ASSUME B # {} PROVE FALSE
  OBVIOUS
<1>1. PICK s \in B : \A u \in B : u \subseteq s => u = s
  <2>1. B \subseteq SUBSET T
    OBVIOUS
  <2> HIDE DEF B
  <2> QED BY <2>1, SmallestPart
<1> DEFINE h[u \in SUBSET T] == (CHOOSE g : Adds(g, w, u))[u]
           k == [u \in SUBSET s |-> IF u = {} THEN 0 ELSE w[First(u)] + h[u \ {First(u)}]]
<1>2. \A u \in SUBSET s : u # s => Adds(CHOOSE g : Adds(g, w, u), w, u)
  BY <1>1
<1>3. ASSUME NEW u \in SUBSET s, u # s PROVE k[u] = h[u]
  <2>0. DEFINE gu == CHOOSE g : Adds(g, w, u)
  <2>1. Adds(gu, w, u)
    BY <1>2, <1>3
  <2>2. h[u] = gu[u]
    BY <1>1
  <2> HIDE DEF gu, h
  <2>3. CASE u = {}
    BY <2>1, <2>2, <2>3, AddsAt
  <2>4. CASE u # {}
    <3>0. DEFINE v == u \ {First(u)}
                 gv == CHOOSE g : Adds(g, w, v)
    <3>1. v \in SUBSET s /\ v # s /\ v \subseteq u
      BY <1>3, <2>4, FirstIn
    <3>2. Adds(gv, w, v) /\ h[v] = gv[v]
      BY <1>1, <1>2, <3>1 DEF h
    <3>3. IsFiniteSet(v)
      BY <1>1, <3>1, FS_Subset
    <3> HIDE DEF gv
    <3>4. gu[v] = gv[v]
      BY <2>1, <3>1, <3>2, <3>3, AddsAgree
    <3>5. gu[u] = w[First(u)] + gu[v]
      BY <2>1, <2>4, AddsAt
    <3>6. k[u] = w[First(u)] + h[v]
      BY <2>4
    <3> QED BY <2>2, <3>2, <3>4, <3>5, <3>6
  <2> QED BY <2>3, <2>4
<1>4. ASSUME NEW u \in SUBSET s, u # {} PROVE h[u \ {First(u)}] = k[u \ {First(u)}]
  <2>1. u \ {First(u)} \in SUBSET s /\ u \ {First(u)} # s
    BY <1>4, FirstIn
  <2> HIDE DEF h, k
  <2> QED BY <1>3, <2>1
<1>5. Adds(k, w, s)
  <2> HIDE DEF h
  <2>1. \A u \in SUBSET s : (IF u = {} THEN 0 ELSE w[First(u)] + h[u \ {First(u)}])
            = IF u = {} THEN 0 ELSE w[First(u)] + k[u \ {First(u)}]
    <3> HIDE DEF k
    <3> QED BY <1>4
  <2> QED BY <2>1 DEF Adds
<1> QED
  BY <1>1, <1>5

\* The sum over a part is what any such function gives for it.
LEMMA TotalAdds ==
    ASSUME NEW w, NEW T, IsFiniteSet(T), NEW g, Adds(g, w, T), NEW s \in SUBSET T
    PROVE  SumOver(w, s) = g[s]
<1>1. IsFiniteSet(s)
  BY FS_Subset
<1>2. Adds(CHOOSE h : Adds(h, w, s), w, s)
  BY <1>1, AddsExists
<1> QED
  BY <1>1, <1>2, AddsAgree, TotalFolds

\* The sum of nothing.
LEMMA TotalEmpty == ASSUME NEW w PROVE SumOver(w, {}) = 0
<1>1. IsFiniteSet({})
  BY FS_EmptySet
<1>2. PICK g : Adds(g, w, {})
  BY <1>1, AddsExists
<1> QED
  BY <1>1, <1>2, TotalAdds, AddsAt

\* The sum takes the first element off and goes on with the rest.
LEMMA TotalFirst ==
    ASSUME NEW w, NEW T, IsFiniteSet(T), T # {}
    PROVE  SumOver(w, T) = w[First(T)] + SumOver(w, T \ {First(T)})
<1>1. PICK g : Adds(g, w, T)
  BY AddsExists
<1>2. g[T] = w[First(T)] + g[T \ {First(T)}]
  BY <1>1, AddsAt
<1> QED
  BY <1>1, <1>2, TotalAdds

-----------------------------------------------------------------------------
\* The sum of whole numbers is a whole number.
LEMMA TotalInt ==
    ASSUME NEW w, NEW T, IsFiniteSet(T), \A x \in T : w[x] \in Int
    PROVE  SumOver(w, T) \in Int
<1> DEFINE B == {s \in SUBSET T : SumOver(w, s) \notin Int}
<1> SUFFICES ASSUME B # {} PROVE FALSE
  OBVIOUS
<1>1. PICK s \in B : \A u \in B : u \subseteq s => u = s
  <2>1. B \subseteq SUBSET T
    OBVIOUS
  <2> HIDE DEF B
  <2> QED BY <2>1, SmallestPart
<1>2. s \in SUBSET T /\ SumOver(w, s) \notin Int /\ IsFiniteSet(s)
  BY <1>1, FS_Subset
<1>3. s # {}
  BY <1>2, TotalEmpty
<1>4. First(s) \in s
  BY <1>3, FirstIn
<1>5. SumOver(w, s \ {First(s)}) \in Int
  BY <1>1, <1>4
<1>6. SumOver(w, s) = w[First(s)] + SumOver(w, s \ {First(s)})
  BY <1>2, <1>3, TotalFirst
<1> QED
  BY <1>2, <1>4, <1>5, <1>6

\* That of what is not negative is not negative.
LEMMA TotalNat ==
    ASSUME NEW w, NEW T, IsFiniteSet(T), \A x \in T : w[x] \in Nat
    PROVE  SumOver(w, T) \in Nat
<1> DEFINE B == {s \in SUBSET T : SumOver(w, s) \notin Nat}
<1> SUFFICES ASSUME B # {} PROVE FALSE
  OBVIOUS
<1>1. PICK s \in B : \A u \in B : u \subseteq s => u = s
  <2>1. B \subseteq SUBSET T
    OBVIOUS
  <2> HIDE DEF B
  <2> QED BY <2>1, SmallestPart
<1>2. s \in SUBSET T /\ SumOver(w, s) \notin Nat /\ IsFiniteSet(s)
  BY <1>1, FS_Subset
<1>3. s # {}
  BY <1>2, TotalEmpty
<1>4. First(s) \in s
  BY <1>3, FirstIn
<1>5. SumOver(w, s \ {First(s)}) \in Nat
  BY <1>1, <1>4
<1>6. SumOver(w, s) = w[First(s)] + SumOver(w, s \ {First(s)})
  BY <1>2, <1>3, TotalFirst
<1> QED
  BY <1>2, <1>4, <1>5, <1>6

\* The order does not matter: any element can be the one that is added first.
LEMMA TotalMinus ==
    ASSUME NEW w, NEW T, IsFiniteSet(T), \A x \in T : w[x] \in Int, NEW e \in T
    PROVE  SumOver(w, T) = w[e] + SumOver(w, T \ {e})
<1> DEFINE Bad(s) == \E x \in s : SumOver(w, s) # w[x] + SumOver(w, s \ {x})
           B == {s \in SUBSET T : Bad(s)}
<1> SUFFICES ASSUME B # {} PROVE FALSE
  OBVIOUS
<1>1. PICK s \in B : \A u \in B : u \subseteq s => u = s
  <2>1. B \subseteq SUBSET T
    OBVIOUS
  <2> HIDE DEF B
  <2> QED BY <2>1, SmallestPart
<1>2. s \subseteq T /\ Bad(s) /\ \A u \in SUBSET s : u = s \/ ~ Bad(u)
  BY <1>1
<1>3. PICK x \in s : SumOver(w, s) # w[x] + SumOver(w, s \ {x})
  BY <1>2
<1> HIDE DEF B
<1>4. PICK f \in s : f = First(s)
  BY <1>3, FirstIn
<1>5. SumOver(w, s) = w[f] + SumOver(w, s \ {f})
  BY <1>2, <1>4, FS_Subset, TotalFirst
<1>6. f # x
  BY <1>3, <1>5
<1>7. SumOver(w, s \ {f}) = w[x] + SumOver(w, (s \ {f}) \ {x})
  <2>1. ~ Bad(s \ {f}) /\ x \in s \ {f}
    BY <1>2, <1>4, <1>6
  <2> QED BY <2>1
<1>8. SumOver(w, s \ {x}) = w[f] + SumOver(w, (s \ {x}) \ {f})
  <2>1. ~ Bad(s \ {x}) /\ f \in s \ {x}
    BY <1>2, <1>4, <1>6
  <2> QED BY <2>1
<1>9. (s \ {f}) \ {x} = (s \ {x}) \ {f}
  OBVIOUS
<1>10. SumOver(w, (s \ {f}) \ {x}) \in Int
  BY <1>2, FS_Subset, TotalInt
<1>11. w[x] \in Int /\ w[f] \in Int
  BY <1>2
<1>12. /\ SumOver(w, s) = w[f] + (w[x] + SumOver(w, (s \ {f}) \ {x}))
       /\ SumOver(w, s \ {x}) = w[f] + SumOver(w, (s \ {f}) \ {x})
  BY <1>5, <1>7, <1>8, <1>9
<1>13. w[f] + (w[x] + SumOver(w, (s \ {f}) \ {x})) = w[x] + (w[f] + SumOver(w, (s \ {f}) \ {x}))
  BY <1>10, <1>11
<1> QED
  BY <1>3, <1>12, <1>13

\* One element more adds what it is worth.
LEMMA TotalPlus ==
    ASSUME NEW w, NEW T, IsFiniteSet(T), \A x \in T : w[x] \in Int, NEW e, e \notin T,
           w[e] \in Int
    PROVE  SumOver(w, T \cup {e}) = SumOver(w, T) + w[e]
<1>1. IsFiniteSet(T \cup {e})
  BY FS_AddElement
<1>2. (T \cup {e}) \ {e} = T
  OBVIOUS
<1>3. SumOver(w, T \cup {e}) = w[e] + SumOver(w, T)
  BY <1>1, <1>2, TotalMinus
<1> QED
  BY <1>3, TotalInt

\* A sum is that of what is added, whatever else the function holds.
LEMMA TotalSame ==
    ASSUME NEW w, NEW v, NEW T, IsFiniteSet(T), \A x \in T : w[x] = v[x]
    PROVE  SumOver(w, T) = SumOver(v, T)
<1> DEFINE B == {s \in SUBSET T : SumOver(w, s) # SumOver(v, s)}
<1> SUFFICES ASSUME B # {} PROVE FALSE
  OBVIOUS
<1>1. PICK s \in B : \A u \in B : u \subseteq s => u = s
  <2>1. B \subseteq SUBSET T
    OBVIOUS
  <2> HIDE DEF B
  <2> QED BY <2>1, SmallestPart
<1>2. s \in SUBSET T /\ SumOver(w, s) # SumOver(v, s) /\ IsFiniteSet(s)
  BY <1>1, FS_Subset
<1>3. s # {}
  BY <1>2, TotalEmpty
<1>4. First(s) \in s
  BY <1>3, FirstIn
<1>5. SumOver(w, s \ {First(s)}) = SumOver(v, s \ {First(s)})
  BY <1>1, <1>4
<1>6. /\ SumOver(w, s) = w[First(s)] + SumOver(w, s \ {First(s)})
      /\ SumOver(v, s) = v[First(s)] + SumOver(v, s \ {First(s)})
  BY <1>2, <1>3, TotalFirst
<1> QED
  BY <1>2, <1>4, <1>5, <1>6

\* A part of what is not negative is not more than the whole.
LEMMA TotalOfPart ==
    ASSUME NEW w, NEW T, IsFiniteSet(T), \A x \in T : w[x] \in Nat, NEW U \in SUBSET T
    PROVE  SumOver(w, U) <= SumOver(w, T)
<1> DEFINE B == {s \in SUBSET T : U \subseteq s /\ ~ (SumOver(w, U) <= SumOver(w, s))}
<1> SUFFICES ASSUME B # {} PROVE FALSE
  OBVIOUS
<1>1. PICK s \in B : \A u \in B : u \subseteq s => u = s
  <2>1. B \subseteq SUBSET T
    OBVIOUS
  <2> HIDE DEF B
  <2> QED BY <2>1, SmallestPart
<1>2. s \in SUBSET T /\ U \subseteq s /\ ~ (SumOver(w, U) <= SumOver(w, s))
  BY <1>1
<1>3. IsFiniteSet(s) /\ IsFiniteSet(U) /\ SumOver(w, U) \in Nat
  BY <1>2, FS_Subset, TotalNat
<1>4. PICK e \in s : e \notin U
  BY <1>2, <1>3
<1>5. SumOver(w, U) <= SumOver(w, s \ {e})
  BY <1>1, <1>2, <1>4
<1>6. SumOver(w, s) = w[e] + SumOver(w, s \ {e})
  <2>1. \A x \in s : w[x] \in Int
    BY <1>2
  <2> QED BY <1>3, <2>1, TotalMinus
<1>7. SumOver(w, s \ {e}) \in Nat /\ w[e] \in Nat
  BY <1>2, <1>3, <1>4, FS_Subset, TotalNat
<1> QED
  BY <1>2, <1>3, <1>5, <1>6, <1>7
===============================================================================
