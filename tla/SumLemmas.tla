----------------------------- MODULE SumLemmas ------------------------------
(***************************************************************************)
(* What the figures rest on: the sum of a function over a finite set, as    *)
(* Functions.tla defines it by a recursive function on the subsets of the   *)
(* set.  The recursive function is shown to exist and to be the only one;   *)
(* from then on a sum is known by the empty set, by the removal of any      *)
(* element, and by the splitting, joining and regrouping of sums.           *)
(*                                                                          *)
(* Every induction is the choice of a minimal subset among those that       *)
(* refute the statement (FS_StrictSubsetOrderingWellFounded): the           *)
(* statements stay first-order.                                             *)
(***************************************************************************)
EXTENDS Integers, FiniteSets, Functions, FiniteSetTheorems, TLAPS

\* The element a sum takes first.
First(S) == CHOOSE x \in S : TRUE

\* h is the recursive function behind the sums of f over the subsets of S.
Unfolds(f, S, h) ==
    h = [s \in SUBSET S |-> IF s = {} THEN 0 ELSE f[First(s)] + h[s \ {First(s)}]]

\* A non-empty set of subsets of a finite set has a minimal member.
LEMMA MinimalSubset ==
    ASSUME NEW S, IsFiniteSet(S), NEW Bad \in SUBSET (SUBSET S), Bad # {}
    PROVE  \E U \in Bad : \A V \in SUBSET U : V # U => V \notin Bad
<1> DEFINE R == StrictSubsetOrdering(S)
           F == FiniteSubsetsOf(S)
<1>1. IsWellFoundedOn(R, F)
  BY FS_StrictSubsetOrderingWellFounded
<1>2. Bad \subseteq F
  BY FS_Subset DEF FiniteSubsetsOf
<1>3. PICK U \in Bad : \A V \in Bad : ~ (<<V, U>> \in R)
  <2> HIDE DEF R, F
  <2> QED BY <1>1, <1>2, WFMin
<1>4. ASSUME NEW V \in SUBSET U, V # U, V \in Bad
      PROVE  FALSE
  BY <1>3, <1>4 DEF StrictSubsetOrdering
<1> QED
  BY <1>3, <1>4

LEMMA FirstIn == \A S : S # {} => First(S) \in S
  BY DEF First

LEMMA SumUnfolded ==
    ASSUME NEW f, NEW S
    PROVE  SumFunctionOnSet(f, S) = (CHOOSE h : Unfolds(f, S, h))[S]
  BY DEF SumFunctionOnSet, FoldFunctionOnSet, MapThenFoldSet, Unfolds, First

\* Two such functions agree on the sets both know.
LEMMA UnfoldsAgree ==
    ASSUME NEW f, NEW S, NEW T, NEW g, NEW h, NEW U, IsFiniteSet(U),
           U \subseteq S, U \subseteq T, Unfolds(f, S, g), Unfolds(f, T, h)
    PROVE  g[U] = h[U]
<1> DEFINE Bad == {V \in SUBSET U : g[V] # h[V]}
<1> SUFFICES ASSUME Bad # {} PROVE FALSE
  OBVIOUS
<1>1. PICK V \in Bad : \A W \in SUBSET V : W # V => W \notin Bad
  <2>1. Bad \in SUBSET (SUBSET U)
    OBVIOUS
  <2> HIDE DEF Bad
  <2> QED BY <2>1, MinimalSubset
<1>2. V \in SUBSET S /\ V \in SUBSET T
  OBVIOUS
<1>3. /\ g[V] = IF V = {} THEN 0 ELSE f[First(V)] + g[V \ {First(V)}]
      /\ h[V] = IF V = {} THEN 0 ELSE f[First(V)] + h[V \ {First(V)}]
  BY <1>2 DEF Unfolds
<1>4. V # {}
  BY <1>3
<1>5. g[V \ {First(V)}] = h[V \ {First(V)}]
  BY <1>1, <1>4, FirstIn
<1> QED
  BY <1>3, <1>4, <1>5

\* There is such a function on every finite set.
LEMMA UnfoldsExists ==
    ASSUME NEW f, NEW S, IsFiniteSet(S)
    PROVE  \E h : Unfolds(f, S, h)
<1> DEFINE Bad == {V \in SUBSET S : ~ \E h : Unfolds(f, V, h)}
<1> SUFFICES ASSUME Bad # {} PROVE FALSE
  OBVIOUS
<1>1. PICK U \in Bad : \A V \in SUBSET U : V # U => V \notin Bad
  <2>1. Bad \in SUBSET (SUBSET S)
    OBVIOUS
  <2> HIDE DEF Bad
  <2> QED BY <2>1, MinimalSubset
<1> DEFINE H(V) == CHOOSE h : Unfolds(f, V, h)
           g == [s \in SUBSET U |->
                   IF s = {} THEN 0
                   ELSE f[First(s)] + H(s \ {First(s)})[s \ {First(s)}]]
<1>2. ASSUME NEW V \in SUBSET U, V # U
      PROVE  Unfolds(f, V, H(V))
  BY <1>1, <1>2
<1>3. ASSUME NEW s \in SUBSET U, s # {}
      PROVE  g[s \ {First(s)}] = H(s \ {First(s)})[s \ {First(s)}]
  <2> DEFINE t == s \ {First(s)}
  <2>1. t \in SUBSET U /\ t # U /\ t \in SUBSET t
    BY <1>3, FirstIn
  <2>2. Unfolds(f, t, H(t))
    BY <2>1, <1>2
  <2>3. H(t)[t] = IF t = {} THEN 0 ELSE f[First(t)] + H(t)[t \ {First(t)}]
    <3> HIDE DEF H, t
    <3> QED BY <2>1, <2>2 DEF Unfolds
  <2>4. CASE t = {}
    BY <2>3, <2>4, <2>1
  <2>5. CASE t # {}
    <3> DEFINE u == t \ {First(t)}
    <3>1. u \in SUBSET U /\ u # U /\ u \subseteq t /\ u \subseteq u
      BY <2>1, <2>5, FirstIn
    <3>2. Unfolds(f, u, H(u))
      BY <3>1, <1>2
    <3>3. IsFiniteSet(u)
      BY <3>1, FS_Subset
    <3>4. H(t)[u] = H(u)[u]
      <4> HIDE DEF H, t, u
      <4> QED BY <2>2, <3>1, <3>2, <3>3, UnfoldsAgree
    <3>5. g[t] = f[First(t)] + H(u)[u]
      BY <2>1, <2>5
    <3> QED
      BY <2>3, <2>5, <3>4, <3>5
  <2> QED
    BY <2>4, <2>5
<1>4. ASSUME NEW s \in SUBSET U
      PROVE  g[s] = IF s = {} THEN 0 ELSE f[First(s)] + g[s \ {First(s)}]
  <2>1. CASE s = {}
    BY <2>1
  <2>2. CASE s # {}
    <3>1. g[s] = f[First(s)] + H(s \ {First(s)})[s \ {First(s)}]
      BY <2>2
    <3> HIDE DEF g, H
    <3> QED
      BY <2>2, <3>1, <1>3
  <2> QED
    BY <2>1, <2>2
<1>5. Unfolds(f, U, g)
  <2>1. g = [s \in SUBSET U |-> g[s]]
    <3> HIDE DEF H
    <3> QED OBVIOUS
  <2> HIDE DEF g
  <2> QED BY <2>1, <1>4, Zenon DEF Unfolds
<1> QED
  BY <1>1, <1>5

----------------------------------------------------------------------------
(* Sums by their elements *)

\* A sum is the value of its recursive function.
LEMMA SumFirst ==
    ASSUME NEW f, NEW S, IsFiniteSet(S)
    PROVE  SumFunctionOnSet(f, S) =
             IF S = {} THEN 0 ELSE f[First(S)] + SumFunctionOnSet(f, S \ {First(S)})
<1> DEFINE g == CHOOSE h : Unfolds(f, S, h)
           T == S \ {First(S)}
           k == CHOOSE h : Unfolds(f, T, h)
<1>1. Unfolds(f, S, g)
  BY UnfoldsExists
<1>2. g[S] = IF S = {} THEN 0 ELSE f[First(S)] + g[T]
  <2> HIDE DEF g
  <2> QED BY <1>1 DEF Unfolds
<1>3. IsFiniteSet(T)
  BY FS_RemoveElement
<1>4. Unfolds(f, T, k)
  BY <1>3, UnfoldsExists
<1>5. g[T] = k[T]
  <2> HIDE DEF g, k
  <2> QED BY <1>1, <1>3, <1>4, UnfoldsAgree
<1> QED
  BY <1>2, <1>5, SumUnfolded

\* The sum over nothing is 0.
LEMMA SumEmpty == \A f : SumFunctionOnSet(f, {}) = 0
  BY SumFirst, FS_EmptySet

\* Integers add up to an integer.
LEMMA SumType ==
    ASSUME NEW f, NEW S, IsFiniteSet(S), \A x \in S : f[x] \in Int
    PROVE  SumFunctionOnSet(f, S) \in Int
<1> DEFINE Bad == {V \in SUBSET S : SumFunctionOnSet(f, V) \notin Int}
<1> SUFFICES ASSUME Bad # {} PROVE FALSE
  OBVIOUS
<1>1. PICK U \in Bad : \A V \in SUBSET U : V # U => V \notin Bad
  <2>1. Bad \in SUBSET (SUBSET S)
    OBVIOUS
  <2> HIDE DEF Bad
  <2> QED BY <2>1, MinimalSubset
<1>2. IsFiniteSet(U)
  BY <1>1, FS_Subset
<1>3. U # {}
  BY SumEmpty
<1>4. First(U) \in U /\ f[First(U)] \in Int
  BY <1>3, FirstIn
<1>5. SumFunctionOnSet(f, U \ {First(U)}) \in Int
  BY <1>1, <1>4
<1> QED
  BY <1>2, <1>3, <1>4, <1>5, SumFirst

\* Any element may be taken out first.
LEMMA SumRemove ==
    ASSUME NEW f, NEW S, IsFiniteSet(S), \A x \in S : f[x] \in Int, NEW x \in S
    PROVE  SumFunctionOnSet(f, S) = f[x] + SumFunctionOnSet(f, S \ {x})
<1> DEFINE Bad == {V \in SUBSET S : \E y \in V :
                     SumFunctionOnSet(f, V) # f[y] + SumFunctionOnSet(f, V \ {y})}
<1> SUFFICES ASSUME Bad # {} PROVE FALSE
  OBVIOUS
<1>1. PICK U \in Bad : \A V \in SUBSET U : V # U => V \notin Bad
  <2>1. Bad \in SUBSET (SUBSET S)
    OBVIOUS
  <2> HIDE DEF Bad
  <2> QED BY <2>1, MinimalSubset
<1>2. PICK y \in U : SumFunctionOnSet(f, U) # f[y] + SumFunctionOnSet(f, U \ {y})
  BY <1>1
<1> DEFINE z == First(U)
<1>3. z \in U
  BY FirstIn
<1>4. IsFiniteSet(U) /\ SumFunctionOnSet(f, U) = f[z] + SumFunctionOnSet(f, U \ {z})
  BY <1>1, <1>3, FS_Subset, SumFirst
<1>5. y # z
  BY <1>2, <1>4
<1> HIDE DEF z
<1>6. SumFunctionOnSet(f, U \ {z}) = f[y] + SumFunctionOnSet(f, (U \ {z}) \ {y})
  BY <1>1, <1>3, <1>5
<1>7. SumFunctionOnSet(f, U \ {y}) = f[z] + SumFunctionOnSet(f, (U \ {y}) \ {z})
  BY <1>1, <1>3, <1>5
<1>8. (U \ {y}) \ {z} = (U \ {z}) \ {y}
  OBVIOUS
<1>9. SumFunctionOnSet(f, (U \ {z}) \ {y}) \in Int
  <2>1. IsFiniteSet((U \ {z}) \ {y})
    BY <1>1, FS_Subset
  <2> QED BY <1>1, <2>1, SumType
<1>10. f[y] \in Int /\ f[z] \in Int
  BY <1>1, <1>3
<1> HIDE DEF Bad
<1>11. SumFunctionOnSet(f, U \ {y}) = f[z] + SumFunctionOnSet(f, (U \ {z}) \ {y})
  BY <1>7, <1>8, Zenon
<1> QED
  BY <1>2, <1>4, <1>6, <1>9, <1>10, <1>11

\* A sum depends on the values over its set alone.
LEMMA SumSame ==
    ASSUME NEW f, NEW g, NEW S, IsFiniteSet(S), \A x \in S : f[x] = g[x]
    PROVE  SumFunctionOnSet(f, S) = SumFunctionOnSet(g, S)
<1> DEFINE Bad == {V \in SUBSET S : SumFunctionOnSet(f, V) # SumFunctionOnSet(g, V)}
<1> SUFFICES ASSUME Bad # {} PROVE FALSE
  OBVIOUS
<1>1. PICK U \in Bad : \A V \in SUBSET U : V # U => V \notin Bad
  <2>1. Bad \in SUBSET (SUBSET S)
    OBVIOUS
  <2> HIDE DEF Bad
  <2> QED BY <2>1, MinimalSubset
<1>2. U # {}
  BY SumEmpty
<1>3. First(U) \in U /\ IsFiniteSet(U)
  BY <1>1, <1>2, FirstIn, FS_Subset
<1>4. SumFunctionOnSet(f, U \ {First(U)}) = SumFunctionOnSet(g, U \ {First(U)})
  BY <1>1, <1>3
<1> QED
  BY <1>1, <1>2, <1>3, <1>4, SumFirst

\* A sum of zeros is 0.
LEMMA SumZero ==
    ASSUME NEW f, NEW S, IsFiniteSet(S), \A x \in S : f[x] = 0
    PROVE  SumFunctionOnSet(f, S) = 0
<1> DEFINE Bad == {V \in SUBSET S : SumFunctionOnSet(f, V) # 0}
<1> SUFFICES ASSUME Bad # {} PROVE FALSE
  OBVIOUS
<1>1. PICK U \in Bad : \A V \in SUBSET U : V # U => V \notin Bad
  <2>1. Bad \in SUBSET (SUBSET S)
    OBVIOUS
  <2> HIDE DEF Bad
  <2> QED BY <2>1, MinimalSubset
<1>2. U # {}
  BY SumEmpty
<1>3. First(U) \in U /\ IsFiniteSet(U)
  BY <1>1, <1>2, FirstIn, FS_Subset
<1>4. SumFunctionOnSet(f, U \ {First(U)}) = 0
  BY <1>1, <1>3
<1> QED
  BY <1>1, <1>2, <1>3, <1>4, SumFirst

\* Only one element counts.
LEMMA SumOne ==
    ASSUME NEW f, NEW S, IsFiniteSet(S), NEW x \in S, f[x] \in Int,
           \A y \in S \ {x} : f[y] = 0
    PROVE  SumFunctionOnSet(f, S) = f[x]
<1>1. IsFiniteSet(S \ {x})
  BY FS_RemoveElement
<1>2. SumFunctionOnSet(f, S \ {x}) = 0
  BY <1>1, SumZero
<1>3. \A y \in S : f[y] \in Int
  OBVIOUS
<1>4. SumFunctionOnSet(f, S) = f[x] + SumFunctionOnSet(f, S \ {x})
  BY <1>3, SumRemove
<1> QED
  BY <1>2, <1>4

\* A set may be summed in two parts.
LEMMA SumSplit ==
    ASSUME NEW f, NEW S, IsFiniteSet(S), \A x \in S : f[x] \in Int, NEW T \in SUBSET S
    PROVE  SumFunctionOnSet(f, S) = SumFunctionOnSet(f, T) + SumFunctionOnSet(f, S \ T)
<1> DEFINE Bad == {V \in SUBSET T : SumFunctionOnSet(f, S) #
                     SumFunctionOnSet(f, V) + SumFunctionOnSet(f, S \ V)}
<1> SUFFICES ASSUME Bad # {} PROVE FALSE
  OBVIOUS
<1>0. IsFiniteSet(T)
  BY FS_Subset
<1>1. PICK U \in Bad : \A V \in SUBSET U : V # U => V \notin Bad
  <2>1. Bad \in SUBSET (SUBSET T)
    OBVIOUS
  <2> HIDE DEF Bad
  <2> QED BY <1>0, <2>1, MinimalSubset
<1>2. U # {}
  <2> SUFFICES ASSUME U = {} PROVE FALSE
    OBVIOUS
  <2>1. S \ U = S
    OBVIOUS
  <2>2. SumFunctionOnSet(f, S) \in Int
    BY SumType
  <2> QED
    BY <1>1, <2>1, <2>2, SumEmpty
<1> DEFINE y == First(U)
           V == U \ {y}
           W == S \ V
<1>3. y \in U /\ V \in SUBSET U /\ V # U
  BY <1>2, FirstIn
<1>4. SumFunctionOnSet(f, S) = SumFunctionOnSet(f, V) + SumFunctionOnSet(f, W)
  BY <1>1, <1>3
<1> HIDE DEF y
<1>5. IsFiniteSet(U) /\ IsFiniteSet(V) /\ IsFiniteSet(W) /\ IsFiniteSet(S \ U)
  BY <1>1, FS_Subset
<1>6. SumFunctionOnSet(f, W) = f[y] + SumFunctionOnSet(f, S \ U)
  <2>1. y \in W /\ W \ {y} = S \ U
    BY <1>1, <1>3
  <2>2. \A z \in W : f[z] \in Int
    OBVIOUS
  <2> HIDE DEF W
  <2> QED BY <1>5, <2>1, <2>2, SumRemove
<1>7. SumFunctionOnSet(f, U) = f[y] + SumFunctionOnSet(f, V)
  <2>1. \A z \in U : f[z] \in Int
    BY <1>1
  <2> QED BY <1>3, <1>5, <2>1, SumRemove
<1>8. /\ SumFunctionOnSet(f, V) \in Int /\ SumFunctionOnSet(f, S \ U) \in Int
      /\ f[y] \in Int
  <2>1. (\A z \in V : f[z] \in Int) /\ (\A z \in S \ U : f[z] \in Int) /\ f[y] \in Int
    BY <1>1, <1>3
  <2> QED BY <1>5, <2>1, SumType
<1>9. SumFunctionOnSet(f, S) # SumFunctionOnSet(f, U) + SumFunctionOnSet(f, S \ U)
  BY <1>1
<1> QED
  BY <1>4, <1>6, <1>7, <1>8, <1>9

\* What is 0 outside a part may be summed over the whole.
LEMMA SumRestrict ==
    ASSUME NEW f, NEW h, NEW S, IsFiniteSet(S), NEW T \in SUBSET S,
           \A x \in T : f[x] \in Int /\ h[x] = f[x], \A x \in S \ T : h[x] = 0
    PROVE  SumFunctionOnSet(f, T) = SumFunctionOnSet(h, S)
<1>1. IsFiniteSet(T) /\ IsFiniteSet(S \ T)
  BY FS_Subset
<1>2. \A x \in S : h[x] \in Int
  OBVIOUS
<1>3. SumFunctionOnSet(h, S) = SumFunctionOnSet(h, T) + SumFunctionOnSet(h, S \ T)
  BY <1>2, SumSplit
<1>4. SumFunctionOnSet(h, S \ T) = 0
  BY <1>1, SumZero
<1>5. SumFunctionOnSet(h, T) = SumFunctionOnSet(f, T)
  BY <1>1, SumSame
<1>6. SumFunctionOnSet(f, T) \in Int
  BY <1>1, SumType
<1> QED
  BY <1>3, <1>4, <1>5, <1>6

----------------------------------------------------------------------------
(* Sums of sums *)

\* Sums of two functions add up to the sum of their sum.
LEMMA SumPlus ==
    ASSUME NEW f, NEW g, NEW h, NEW S, IsFiniteSet(S),
           \A x \in S : f[x] \in Int /\ g[x] \in Int /\ h[x] = f[x] + g[x]
    PROVE  SumFunctionOnSet(h, S) = SumFunctionOnSet(f, S) + SumFunctionOnSet(g, S)
<1> DEFINE Bad == {V \in SUBSET S : SumFunctionOnSet(h, V) #
                     SumFunctionOnSet(f, V) + SumFunctionOnSet(g, V)}
<1> SUFFICES ASSUME Bad # {} PROVE FALSE
  OBVIOUS
<1>1. PICK U \in Bad : \A V \in SUBSET U : V # U => V \notin Bad
  <2>1. Bad \in SUBSET (SUBSET S)
    OBVIOUS
  <2> HIDE DEF Bad
  <2> QED BY <2>1, MinimalSubset
<1>2. U # {}
  <2> SUFFICES ASSUME U = {} PROVE FALSE
    OBVIOUS
  <2>1. SumFunctionOnSet(h, U) # SumFunctionOnSet(f, U) + SumFunctionOnSet(g, U)
    BY <1>1
  <2> HIDE DEF Bad
  <2> QED BY <2>1, SumEmpty
<1> DEFINE x == First(U)
           V == U \ {x}
<1>3. x \in U /\ V \in SUBSET U /\ V # U
  BY <1>2, FirstIn
<1>4. IsFiniteSet(U) /\ IsFiniteSet(V) /\ V \in SUBSET S
  BY <1>1, FS_Subset
<1>5. SumFunctionOnSet(h, V) = SumFunctionOnSet(f, V) + SumFunctionOnSet(g, V)
  BY <1>1, <1>3, <1>4
<1>6. SumFunctionOnSet(f, V) \in Int /\ SumFunctionOnSet(g, V) \in Int
  <2> HIDE DEF V
  <2> QED BY <1>4, SumType
<1>7. /\ SumFunctionOnSet(f, U) = f[x] + SumFunctionOnSet(f, V)
      /\ SumFunctionOnSet(g, U) = g[x] + SumFunctionOnSet(g, V)
      /\ SumFunctionOnSet(h, U) = h[x] + SumFunctionOnSet(h, V)
  BY <1>2, <1>4, SumFirst
<1>8. f[x] \in Int /\ g[x] \in Int /\ h[x] = f[x] + g[x]
  BY <1>1, <1>3
<1>9. SumFunctionOnSet(h, U) # SumFunctionOnSet(f, U) + SumFunctionOnSet(g, U)
  BY <1>1
<1> HIDE DEF x, V, Bad
<1> QED
  BY <1>5, <1>6, <1>7, <1>8, <1>9

\* The sum of the opposites is the opposite of the sum.
LEMMA SumNegate ==
    ASSUME NEW f, NEW g, NEW S, IsFiniteSet(S),
           \A x \in S : f[x] \in Int /\ g[x] = -f[x]
    PROVE  SumFunctionOnSet(g, S) = -SumFunctionOnSet(f, S)
<1> DEFINE z == [x \in S |-> 0]
<1>1. SumFunctionOnSet(z, S) = 0
  <2>1. \A x \in S : z[x] = 0
    OBVIOUS
  <2> HIDE DEF z
  <2> QED BY <2>1, SumZero
<1>2. SumFunctionOnSet(z, S) = SumFunctionOnSet(f, S) + SumFunctionOnSet(g, S)
  <2>1. \A x \in S : f[x] \in Int /\ g[x] \in Int /\ z[x] = f[x] + g[x]
    OBVIOUS
  <2> HIDE DEF z
  <2> QED BY <2>1, SumPlus
<1>3. SumFunctionOnSet(f, S) \in Int /\ SumFunctionOnSet(g, S) \in Int
  BY SumType
<1> HIDE DEF z
<1> QED
  BY <1>1, <1>2, <1>3

\* Smaller terms give a smaller sum.
LEMMA SumMonotonic ==
    ASSUME NEW f, NEW g, NEW S, IsFiniteSet(S),
           \A x \in S : f[x] \in Int /\ g[x] \in Int /\ f[x] <= g[x]
    PROVE  SumFunctionOnSet(f, S) <= SumFunctionOnSet(g, S)
<1> DEFINE Bad == {V \in SUBSET S : ~ (SumFunctionOnSet(f, V) <= SumFunctionOnSet(g, V))}
<1> SUFFICES ASSUME Bad # {} PROVE FALSE
  OBVIOUS
<1>1. PICK U \in Bad : \A V \in SUBSET U : V # U => V \notin Bad
  <2>1. Bad \in SUBSET (SUBSET S)
    OBVIOUS
  <2> HIDE DEF Bad
  <2> QED BY <2>1, MinimalSubset
<1>2. U # {}
  BY SumEmpty
<1> DEFINE x == First(U)
           V == U \ {x}
<1>3. x \in U /\ V \in SUBSET U /\ V # U
  BY <1>2, FirstIn
<1>4. IsFiniteSet(U) /\ IsFiniteSet(V) /\ V \in SUBSET S
  BY <1>1, FS_Subset
<1>5. SumFunctionOnSet(f, V) <= SumFunctionOnSet(g, V)
  BY <1>1, <1>3, <1>4
<1>6. SumFunctionOnSet(f, V) \in Int /\ SumFunctionOnSet(g, V) \in Int
  <2> HIDE DEF V
  <2> QED BY <1>4, SumType
<1>7. /\ SumFunctionOnSet(f, U) = f[x] + SumFunctionOnSet(f, V)
      /\ SumFunctionOnSet(g, U) = g[x] + SumFunctionOnSet(g, V)
  BY <1>2, <1>4, SumFirst
<1>8. f[x] \in Int /\ g[x] \in Int /\ f[x] <= g[x]
  BY <1>1, <1>3
<1>9. ~ (SumFunctionOnSet(f, U) <= SumFunctionOnSet(g, U))
  BY <1>1
<1> HIDE DEF x, V, Bad
<1> QED
  BY <1>5, <1>6, <1>7, <1>8, <1>9

\* The order of a double sum does not matter.
LEMMA SumSwap ==
    ASSUME NEW m, NEW S, NEW T, IsFiniteSet(S), IsFiniteSet(T),
           \A x \in S, y \in T : m[x][y] \in Int
    PROVE  SumFunctionOnSet([x \in S |-> SumFunctionOnSet(m[x], T)], S)
             = SumFunctionOnSet(
                 [y \in T |-> SumFunctionOnSet([x \in S |-> m[x][y]], S)], T)
<1> DEFINE row == [x \in S |-> SumFunctionOnSet(m[x], T)]
           col(y) == [x \in S |-> m[x][y]]
           byCol(V) == [y \in T |-> SumFunctionOnSet(col(y), V)]
           Bad == {V \in SUBSET S :
                     SumFunctionOnSet(row, V) # SumFunctionOnSet(byCol(V), T)}
<1> SUFFICES ASSUME Bad # {} PROVE FALSE
  <2>1. Bad = {} => SumFunctionOnSet(row, S) = SumFunctionOnSet(byCol(S), T)
    <3> HIDE DEF row, byCol
    <3> QED OBVIOUS
  <2> QED BY <2>1
<1>1. PICK U \in Bad : \A V \in SUBSET U : V # U => V \notin Bad
  <2>1. Bad \in SUBSET (SUBSET S)
    OBVIOUS
  <2> HIDE DEF Bad
  <2> QED BY <2>1, MinimalSubset
<1>2. U # {}
  <2> SUFFICES ASSUME U = {} PROVE FALSE
    OBVIOUS
  <2>1. \A y \in T : byCol(U)[y] = 0
    BY SumEmpty
  <2>2. SumFunctionOnSet(byCol(U), T) = 0
    <3> HIDE DEF byCol
    <3> QED BY <2>1, SumZero
  <2> QED
    BY <1>1, <2>2, SumEmpty
<1> DEFINE x == First(U)
           V == U \ {x}
<1>3. x \in U /\ x \in S /\ V \in SUBSET U /\ V # U
  BY <1>1, <1>2, FirstIn
<1>4. IsFiniteSet(U) /\ IsFiniteSet(V) /\ V \in SUBSET S
  BY <1>1, FS_Subset
<1>5. SumFunctionOnSet(row, V) = SumFunctionOnSet(byCol(V), T)
  <2> HIDE DEF row, byCol, x
  <2> QED BY <1>1, <1>3, <1>4
<1>6. SumFunctionOnSet(row, U) = SumFunctionOnSet(m[x], T) + SumFunctionOnSet(row, V)
  <2>1. row[x] = SumFunctionOnSet(m[x], T)
    BY <1>3
  <2> HIDE DEF row
  <2> QED BY <1>2, <1>4, <2>1, SumFirst
<1>7. SumFunctionOnSet(byCol(U), T)
        = SumFunctionOnSet(m[x], T) + SumFunctionOnSet(byCol(V), T)
  <2>1. ASSUME NEW y \in T
        PROVE  /\ m[x][y] \in Int
               /\ byCol(V)[y] \in Int
               /\ byCol(U)[y] = m[x][y] + byCol(V)[y]
    <3>1. col(y)[x] = m[x][y] /\ m[x][y] \in Int
      BY <1>3
    <3>2. \A z \in V : col(y)[z] \in Int
      BY <1>4
    <3>3. SumFunctionOnSet(col(y), V) \in Int
      <4> HIDE DEF col, V
      <4> QED BY <1>4, <3>2, SumType
    <3>4. SumFunctionOnSet(col(y), U) = col(y)[x] + SumFunctionOnSet(col(y), V)
      <4> HIDE DEF col
      <4> QED BY <1>2, <1>4, SumFirst
    <3> QED
      BY <3>1, <3>3, <3>4
  <2> HIDE DEF byCol, V, x
  <2> QED BY <2>1, SumPlus
<1>8. SumFunctionOnSet(row, U) # SumFunctionOnSet(byCol(U), T)
  BY <1>1
<1> HIDE DEF row, byCol, x, V, Bad
<1> QED
  BY <1>5, <1>6, <1>7, <1>8

\* Regrouping by a key changes nothing.
LEMMA SumByKey ==
    ASSUME NEW f, NEW key, NEW S, NEW K, IsFiniteSet(S), IsFiniteSet(K),
           \A x \in S : f[x] \in Int /\ key[x] \in K
    PROVE  SumFunctionOnSet(f, S)
             = SumFunctionOnSet(
                 [k \in K |-> SumFunctionOnSet(f, {x \in S : key[x] = k})], K)
<1> DEFINE fiber(k) == {x \in S : key[x] = k}
           within(V) == {x \in S : key[x] \in V}
           byKey == [k \in K |-> SumFunctionOnSet(f, fiber(k))]
           Bad == {V \in SUBSET K :
                     SumFunctionOnSet(f, within(V)) # SumFunctionOnSet(byKey, V)}
<1> SUFFICES ASSUME Bad # {} PROVE FALSE
  <2>1. Bad = {} => SumFunctionOnSet(f, within(K)) = SumFunctionOnSet(byKey, K)
    <3> HIDE DEF byKey, within
    <3> QED OBVIOUS
  <2>2. within(K) = S
    OBVIOUS
  <2> HIDE DEF within, Bad
  <2> QED BY <2>1, <2>2
<1>1. PICK U \in Bad : \A V \in SUBSET U : V # U => V \notin Bad
  <2>1. Bad \in SUBSET (SUBSET K)
    OBVIOUS
  <2> HIDE DEF Bad
  <2> QED BY <2>1, MinimalSubset
<1>2. U # {}
  <2> SUFFICES ASSUME U = {} PROVE FALSE
    OBVIOUS
  <2>1. within(U) = {}
    OBVIOUS
  <2> HIDE DEF within, byKey
  <2> QED
    BY <1>1, <2>1, SumEmpty
<1> DEFINE k == First(U)
           V == U \ {k}
<1>3. k \in U /\ k \in K /\ V \in SUBSET U /\ V # U /\ V \in SUBSET K
  BY <1>1, <1>2, FirstIn
<1>4. SumFunctionOnSet(f, within(V)) = SumFunctionOnSet(byKey, V)
  <2> HIDE DEF within, byKey, k
  <2> QED BY <1>1, <1>3
<1>5. SumFunctionOnSet(byKey, U) = byKey[k] + SumFunctionOnSet(byKey, V)
  <2>1. IsFiniteSet(U)
    BY <1>1, FS_Subset
  <2> HIDE DEF byKey
  <2> QED BY <1>2, <2>1, SumFirst
<1>6. SumFunctionOnSet(f, within(U))
        = SumFunctionOnSet(f, fiber(k)) + SumFunctionOnSet(f, within(V))
  <2>1. fiber(k) \in SUBSET within(U) /\ within(U) \ fiber(k) = within(V)
    BY <1>3
  <2>2. IsFiniteSet(within(U)) /\ \A x \in within(U) : f[x] \in Int
    BY FS_Subset
  <2> HIDE DEF fiber, within, k, V, Bad
  <2> QED BY <2>1, <2>2, SumSplit
<1>7. byKey[k] = SumFunctionOnSet(f, fiber(k))
  BY <1>3
<1>8. SumFunctionOnSet(f, within(U)) # SumFunctionOnSet(byKey, U)
  BY <1>1
<1> HIDE DEF byKey, within, fiber, k, V, Bad
<1> QED
  BY <1>4, <1>5, <1>6, <1>7, <1>8
----------------------------------------------------------------------------
(* Sums carried over *)

\* A balance carried over from month to month: P the months, C the created
\* ones, d what each month adds to each account.
Carries(P, A, C, d, g) ==
    g = [p \in P |-> [a \in A |->
           IF p - 1 \in P /\ p - 1 \in C THEN g[p - 1][a] + d[p - 1][a] ELSE 0]]

\* The months before p that follow each other up to it, all of them created.
Leads(P, C, p) == {q \in P : q < p /\ \A r \in q..(p - 1) : r \in P /\ r \in C}

Column(P, d, a) == [q \in P |-> d[q][a]]

CarriedOver(P, A, C, d) ==
    [p \in P |-> [a \in A |-> SumFunctionOnSet(Column(P, d, a), Leads(P, C, p))]]

LEMMA LeadsFinite ==
    ASSUME NEW P \in SUBSET Nat, NEW C, NEW p \in P
    PROVE  IsFiniteSet(Leads(P, C, p))
<1>1. p \in Nat /\ 0 \in Int /\ IsFiniteSet(0..p)
  BY FS_Interval
<1>2. ASSUME NEW q \in Leads(P, C, p) PROVE q \in 0..p
  <2>1. q \in Nat /\ q < p
    BY DEF Leads
  <2> QED BY <1>1, <2>1
<1> QED
  BY <1>1, <1>2, FS_Subset

LEMMA LeadsStep ==
    ASSUME NEW P \in SUBSET Nat, NEW C, NEW p \in P
    PROVE  IF p - 1 \in P /\ p - 1 \in C
           THEN /\ Leads(P, C, p) \ {p - 1} = Leads(P, C, p - 1)
                /\ p - 1 \in Leads(P, C, p)
           ELSE Leads(P, C, p) = {}
<1>1. CASE p - 1 \in P /\ p - 1 \in C
  <2> PICK m \in P : m = p - 1
    BY <1>1
  <2>1. m \in Nat /\ p \in Nat /\ p = m + 1
    OBVIOUS
  <2>2. \A q \in Nat : q < p /\ q # m => q < m /\ q..m = (q..(m - 1)) \cup {m}
    BY <2>1
  <2>3. m \in Leads(P, C, p)
    BY <2>1, <1>1 DEF Leads
  <2>4. ASSUME NEW q \in P
        PROVE  (q \in Leads(P, C, p) /\ q # m) <=> q \in Leads(P, C, m)
    <3>1. q \in Nat /\ (q < m => q < p /\ q # m /\ q..m = (q..(m - 1)) \cup {m})
      BY <2>1, <2>2
    <3> QED
      BY <3>1, <2>1, <2>2, <1>1 DEF Leads
  <2>5. Leads(P, C, p) \in SUBSET P /\ Leads(P, C, m) \in SUBSET P
    BY DEF Leads
  <2> QED
    BY <1>1, <2>3, <2>4, <2>5
<1>2. CASE ~ (p - 1 \in P /\ p - 1 \in C)
  <2>1. ASSUME NEW q \in Leads(P, C, p) PROVE FALSE
    <3>1. q \in Nat /\ p \in Nat /\ q < p
      BY <2>1 DEF Leads
    <3>2. p - 1 \in q..(p - 1)
      BY <3>1
    <3> QED
      BY <1>2, <2>1, <3>2 DEF Leads
  <2> QED
    BY <1>2, <2>1
<1> QED
  BY <1>1, <1>2

\* Such a balance exists and is the sum over the months that lead to its own.
LEMMA CarriedOverCarries ==
    ASSUME NEW P \in SUBSET Nat, NEW A, NEW C, NEW d,
           \A q \in P, a \in A : d[q][a] \in Int
    PROVE  Carries(P, A, C, d, CarriedOver(P, A, C, d))
<1> DEFINE g == CarriedOver(P, A, C, d)
<1>1. ASSUME NEW p \in P, NEW a \in A
      PROVE  g[p][a] = IF p - 1 \in P /\ p - 1 \in C THEN g[p - 1][a] + d[p - 1][a] ELSE 0
  <2>1. g[p][a] = SumFunctionOnSet(Column(P, d, a), Leads(P, C, p))
    BY DEF CarriedOver
  <2>4. ASSUME NEW m \in P, m \in Leads(P, C, p),
               Leads(P, C, p) \ {m} = Leads(P, C, m)
        PROVE  g[p][a] = g[m][a] + d[m][a]
    <3>1. g[m][a] = SumFunctionOnSet(Column(P, d, a), Leads(P, C, m))
      BY DEF CarriedOver
    <3>2. IsFiniteSet(Leads(P, C, p)) /\ IsFiniteSet(Leads(P, C, m))
      BY LeadsFinite
    <3>3. /\ Leads(P, C, p) \in SUBSET P /\ Leads(P, C, m) \in SUBSET P
          /\ \A q \in P : Column(P, d, a)[q] \in Int
          /\ Column(P, d, a)[m] = d[m][a]
      BY DEF Leads, Column
    <3>4. SumFunctionOnSet(Column(P, d, a), Leads(P, C, p))
            = d[m][a] + SumFunctionOnSet(Column(P, d, a), Leads(P, C, m))
      BY <2>4, <3>2, <3>3, SumRemove
    <3>5. SumFunctionOnSet(Column(P, d, a), Leads(P, C, m)) \in Int
      BY <3>2, <3>3, SumType
    <3> HIDE DEF g
    <3> QED
      BY <2>1, <3>1, <3>3, <3>4, <3>5
  <2>2. CASE p - 1 \in P /\ p - 1 \in C
    <3> HIDE DEF g
    <3> QED
      BY <2>2, <2>4, LeadsStep
  <2>3. CASE ~ (p - 1 \in P /\ p - 1 \in C)
    <3>1. Leads(P, C, p) = {}
      BY <2>3, LeadsStep
    <3> QED
      BY <2>1, <2>3, <3>1, SumEmpty
  <2> QED
    BY <2>2, <2>3
<1> DEFINE e(p, a) == IF p - 1 \in P /\ p - 1 \in C THEN g[p - 1][a] + d[p - 1][a] ELSE 0
<1>2. g = [p \in P |-> [a \in A |-> g[p][a]]]
  BY DEF CarriedOver
<1>3. g = [p \in P |-> [a \in A |-> e(p, a)]]
  <2>1. \A p \in P, a \in A : g[p][a] = e(p, a)
    BY <1>1
  <2> HIDE DEF g, e
  <2>2. \A p \in P : [a \in A |-> g[p][a]] = [a \in A |-> e(p, a)]
    BY <2>1
  <2>3. [p \in P |-> [a \in A |-> g[p][a]]] = [p \in P |-> [a \in A |-> e(p, a)]]
    BY <2>2
  <2> QED
    BY <1>2, <2>3
<1> HIDE DEF g
<1> QED
  BY <1>3, Zenon DEF Carries, g

\* A non-empty set of numbers has a least one.
LEMMA LeastNat ==
    ASSUME NEW Bad \in SUBSET Nat, Bad # {}
    PROVE  \E n \in Bad : \A m \in Bad : ~ (m < n)
<1>1. \E n \in Bad : \A m \in Bad : ~ (<<m, n>> \in OpToRel(<, Nat))
  BY NatLessThanWellFounded, WFMin
<1> QED
  BY <1>1 DEF OpToRel

\* There is no other such balance.
LEMMA CarriesUnique ==
    ASSUME NEW P \in SUBSET Nat, NEW A, NEW C, NEW d, NEW g, NEW h,
           Carries(P, A, C, d, g), Carries(P, A, C, d, h)
    PROVE  g = h
<1> DEFINE Bad == {p \in P : g[p] # h[p]}
<1>1. /\ g = [p \in P |-> g[p]] /\ h = [p \in P |-> h[p]]
  BY DEF Carries
<1>2. SUFFICES ASSUME Bad # {} PROVE FALSE
  BY <1>1
<1>3. PICK p \in Bad : \A q \in Bad : ~ (q < p)
  <2>1. Bad \in SUBSET Nat
    OBVIOUS
  <2> HIDE DEF Bad
  <2> QED BY <1>2, <2>1, LeastNat
<1>4. p - 1 \in P => g[p - 1] = h[p - 1]
  BY <1>3
<1>5. /\ g[p] = [a \in A |-> IF p - 1 \in P /\ p - 1 \in C THEN g[p - 1][a] + d[p - 1][a] ELSE 0]
      /\ h[p] = [a \in A |-> IF p - 1 \in P /\ p - 1 \in C THEN h[p - 1][a] + d[p - 1][a] ELSE 0]
  BY Zenon DEF Carries
<1>6. g[p] = h[p]
  BY <1>4, <1>5
<1> QED
  BY <1>6

\* A bounded set of naturals has a greatest element.
LEMMA GreatestNat ==
    ASSUME NEW S \in SUBSET Nat, S # {}, NEW b \in Nat, \A x \in S : x <= b
    PROVE  \E x \in S : \A y \in S : x >= y
<1> DEFINE Gaps == {n \in Nat : \E x \in S : n = b - x}
<1>1. Gaps \in SUBSET Nat /\ Gaps # {}
  <2>1. PICK x \in S : TRUE
    OBVIOUS
  <2>2. b - x \in Nat
    BY <2>1
  <2> QED BY <2>1, <2>2
<1>2. PICK n \in Gaps : \A m \in Gaps : ~ (m < n)
  <2> HIDE DEF Gaps
  <2> QED BY <1>1, LeastNat
<1>3. PICK x \in S : n = b - x
  BY <1>2
<1>4. ASSUME NEW y \in S PROVE x >= y
  <2>1. b - y \in Nat /\ b - y \in Gaps
    BY <1>4
  <2>2. ~ (b - y < b - x)
    BY <1>2, <1>3, <2>1
  <2> QED
    BY <2>2
<1> QED
  BY <1>4

\* A function into the integers is least somewhere on a finite set.
LEMMA LeastValue ==
    ASSUME NEW f, NEW S, IsFiniteSet(S), S # {}, \A x \in S : f[x] \in Int
    PROVE  \E x \in S : \A y \in S : f[x] <= f[y]
<1> DEFINE Bad == {V \in SUBSET S : V # {} /\ ~ \E x \in V : \A y \in V : f[x] <= f[y]}
<1> SUFFICES ASSUME Bad # {} PROVE FALSE
  OBVIOUS
<1>1. PICK V \in Bad : \A W \in SUBSET V : W # V => W \notin Bad
  <2>1. Bad \in SUBSET (SUBSET S)
    OBVIOUS
  <2> HIDE DEF Bad
  <2> QED BY <2>1, MinimalSubset
<1>2. V \in SUBSET S /\ V # {} /\ ~ \E x \in V : \A y \in V : f[x] <= f[y]
  BY <1>1
<1>3. PICK z \in V : TRUE
  BY <1>2
<1>4. V \ {z} \notin Bad
  BY <1>1, <1>3
<1>5. CASE V = {z}
  BY <1>2, <1>3, <1>5
<1>6. CASE V # {z}
  <2>1. V \ {z} # {}
    BY <1>3, <1>6
  <2>2. PICK x \in V \ {z} : \A y \in V \ {z} : f[x] <= f[y]
    BY <1>2, <1>4, <2>1
  <2>3. f[x] \in Int /\ f[z] \in Int
    BY <1>2, <1>3, <2>2
  <2>4. CASE f[x] <= f[z]
    <3>1. \A y \in V : f[x] <= f[y]
      BY <2>2, <2>4
    <3> QED BY <1>2, <2>2, <3>1
  <2>5. CASE f[z] <= f[x]
    <3>1. \A y \in V : f[z] <= f[y]
      <4> SUFFICES ASSUME NEW y \in V PROVE f[z] <= f[y]
        OBVIOUS
      <4>1. f[y] \in Int /\ (y = z \/ f[x] <= f[y])
        BY <1>2, <2>2
      <4> QED BY <2>3, <2>5, <4>1
    <3> QED BY <1>2, <1>3, <3>1
  <2> QED
    BY <2>3, <2>4, <2>5
<1> QED
  BY <1>5, <1>6
=============================================================================
