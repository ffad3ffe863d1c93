------------------------------ MODULE SumFacts ------------------------------
(***************************************************************************)
(* Sums of a function over a finite set, as the specifications use them    *)
(* (SumFunctionOnSet of the community modules): the empty sum, one element *)
(* taken out, one summand changed, the type. The library defines the sum by*)
(* a recursive function that takes elements out in an order of its own. That*)
(* such a function exists, and that the order does not matter, is shown by *)
(* looking at a smallest subset for which it would not be so.              *)
(***************************************************************************)
EXTENDS Integers, FiniteSets, Functions, FiniteSetTheorems, WellFoundedInduction, TLAPS

\* Among some subsets of a finite set there is one with no other inside it: what
\* the proofs below use for induction.
LEMMA MinimalSubset ==
  ASSUME NEW S, IsFiniteSet(S), NEW F \in SUBSET (SUBSET S), F # {}
  PROVE  \E X \in F : \A Y \in F : ~(Y \subseteq X /\ Y # X)
<1>1. IsWellFoundedOn(StrictSubsetOrdering(S), SUBSET S)
  BY FS_StrictSubsetOrderingWellFounded, FS_FiniteSubsetsOfFinite
<1>2. PICK X \in F : \A Y \in F : ~ (<<Y, X>> \in StrictSubsetOrdering(S))
  BY <1>1, WFMin
<1> QED
  BY <1>2 DEF StrictSubsetOrdering

\* Numbers up to n have a least one among them.
LEMMA LeastOf ==
  ASSUME NEW n \in Nat, NEW F \in SUBSET (0..n), F # {}
  PROVE  \E i \in F : \A j \in F : i <= j
<1>. DEFINE G == {0..i : i \in F}
<1>1. G \in SUBSET (SUBSET (0..n)) /\ G # {}
  <2>1. \A i \in F : 0..i \subseteq 0..n
    OBVIOUS
  <2>. QED  BY <2>1
<1>2. IsFiniteSet(0..n)
  BY FS_Interval
<1>3. \E X \in G : \A Y \in G : ~(Y \subseteq X /\ Y # X)
  <2>. DEFINE S == 0..n
  <2>1. IsFiniteSet(S) /\ G \in SUBSET (SUBSET S) /\ G # {}
    BY <1>1, <1>2
  <2>. HIDE DEF G, S
  <2>. QED  BY <2>1, MinimalSubset
<1>4. PICK i \in F : \A j \in F : ~(0..j \subseteq 0..i /\ 0..j # 0..i)
  <2>1. PICK X \in G : \A Y \in G : ~(Y \subseteq X /\ Y # X)
    BY <1>3
  <2>2. PICK i \in F : X = 0..i
    BY <2>1
  <2>3. \A j \in F : 0..j \in G
    OBVIOUS
  <2>. QED  BY <2>1, <2>2, <2>3
<1>5. ASSUME NEW j \in F, j < i PROVE FALSE
  <2>1. 0..j \subseteq 0..i /\ i \in 0..i /\ i \notin 0..j
    BY <1>5
  <2>. QED  BY <1>4, <2>1
<1>. QED  BY <1>5

\* The element the library takes out of s first, and the recursive function it sums by.
Pick(s) == CHOOSE x \in s : TRUE
IsSum(g, f, S) == g = [s \in SUBSET S |-> IF s = {} THEN 0 ELSE f[Pick(s)] + g[s \ {Pick(s)}]]
SumFcn(f, S) == CHOOSE g : IsSum(g, f, S)

LEMMA SumUnfold == ASSUME NEW f, NEW S PROVE SumFunctionOnSet(f, S) = SumFcn(f, S)[S]
  BY DEF SumFunctionOnSet, FoldFunctionOnSet, MapThenFoldSet, Pick, IsSum, SumFcn

LEMMA PickIn == ASSUME NEW s, s # {} PROVE Pick(s) \in s
  BY DEF Pick

LEMMA IsSumAt ==
  ASSUME NEW f, NEW S, NEW g, IsSum(g, f, S), NEW s \in SUBSET S
  PROVE  g[s] = IF s = {} THEN 0 ELSE f[Pick(s)] + g[s \ {Pick(s)}]
  BY DEF IsSum

\* Two such functions agree where both are defined, and there is one.
LEMMA SumUnique ==
  ASSUME NEW f, NEW S, IsFiniteSet(S), NEW X \in SUBSET S,
         NEW g, IsSum(g, f, S), NEW h, IsSum(h, f, X)
  PROVE  \A s \in SUBSET X : g[s] = h[s]
<1>. DEFINE F == {s \in SUBSET X : g[s] # h[s]}
<1>1. SUFFICES ASSUME F # {} PROVE FALSE
  OBVIOUS
<1>2. PICK s \in F : \A t \in F : ~(t \subseteq s /\ t # s)
  <2>1. F \in SUBSET (SUBSET S)
    OBVIOUS
  <2>. HIDE DEF F
  <2>. QED  BY <1>1, <2>1, MinimalSubset
<1>3. s \in SUBSET X /\ s \in SUBSET S /\ g[s] # h[s]
  BY <1>2
<1>4. s # {}
  BY <1>3, IsSumAt
<1>5. g[s] = f[Pick(s)] + g[s \ {Pick(s)}] /\ h[s] = f[Pick(s)] + h[s \ {Pick(s)}]
  BY <1>3, <1>4, IsSumAt
<1>6. s \ {Pick(s)} \in SUBSET X /\ s \ {Pick(s)} # s
  BY <1>3, <1>4, PickIn
<1>7. s \ {Pick(s)} \notin F
  BY <1>2, <1>6
<1>. QED  BY <1>3, <1>5, <1>6, <1>7

LEMMA SumExists ==
  ASSUME NEW f, NEW S, IsFiniteSet(S)
  PROVE  \A X \in SUBSET S : \E g : IsSum(g, f, X)
<1>. DEFINE F == {X \in SUBSET S : ~ \E g : IsSum(g, f, X)}
<1>1. SUFFICES ASSUME F # {} PROVE FALSE
  OBVIOUS
<1>2. PICK X \in F : \A Y \in F : ~(Y \subseteq X /\ Y # X)
  <2>1. F \in SUBSET (SUBSET S)
    OBVIOUS
  <2>. HIDE DEF F
  <2>. QED  BY <1>1, <2>1, MinimalSubset
<1>3. X \in SUBSET S /\ \A g : ~IsSum(g, f, X)
  BY <1>2
<1>4. ASSUME NEW s \in SUBSET X, s # X PROVE IsSum(SumFcn(f, s), f, s) /\ IsFiniteSet(s)
  <2>1. \E g : IsSum(g, f, s)
    BY <1>2, <1>3, <1>4
  <2>2. IsSum(SumFcn(f, s), f, s)
    BY <2>1 DEF SumFcn
  <2>. QED  BY <1>3, <2>2, FS_Subset
<1>. DEFINE v(s) == SumFcn(f, s)[s]
            g == [s \in SUBSET X |->
                    IF s = {} THEN 0
                    ELSE IF s = X THEN f[Pick(X)] + v(X \ {Pick(X)}) ELSE v(s)]
<1>5. ASSUME NEW s \in SUBSET X, s # X, s # {}
      PROVE  v(s) = f[Pick(s)] + v(s \ {Pick(s)})
  <2>1. s \ {Pick(s)} \in SUBSET s /\ s \ {Pick(s)} \in SUBSET X /\ s \ {Pick(s)} # X
    BY <1>5, PickIn
  <2>2. IsSum(SumFcn(f, s), f, s) /\ IsFiniteSet(s)
        /\ IsSum(SumFcn(f, s \ {Pick(s)}), f, s \ {Pick(s)})
    BY <1>4, <1>5, <2>1
  <2>3. SumFcn(f, s)[s] = f[Pick(s)] + SumFcn(f, s)[s \ {Pick(s)}]
    BY <1>5, <2>2, IsSumAt
  <2>4. SumFcn(f, s)[s \ {Pick(s)}] = SumFcn(f, s \ {Pick(s)})[s \ {Pick(s)}]
    BY <2>1, <2>2, SumUnique
  <2>. QED  BY <2>3, <2>4
<1>6. ASSUME {} # X PROVE v({}) = 0
  BY <1>4, <1>6, IsSumAt
<1>. HIDE DEF v
<1>7. ASSUME NEW s \in SUBSET X
      PROVE  g[s] = IF s = {} THEN 0 ELSE f[Pick(s)] + g[s \ {Pick(s)}]
  <2>1. CASE s = {}
    BY <2>1
  <2>2. CASE s # {}
    <3>1. s \ {Pick(s)} \in SUBSET X /\ s \ {Pick(s)} # X /\ X # {}
      BY <2>2, PickIn
    <3>2. g[s \ {Pick(s)}] = v(s \ {Pick(s)})
      BY <1>6, <3>1
    <3>3. g[s] = f[Pick(s)] + v(s \ {Pick(s)})
      BY <1>5, <2>2
    <3>. QED  BY <2>2, <3>2, <3>3
  <2>. QED  BY <2>1, <2>2
<1>8. IsSum(g, f, X)
  <2>. DEFINE h == [s \in SUBSET X |-> IF s = {} THEN 0 ELSE f[Pick(s)] + g[s \ {Pick(s)}]]
  <2>1. \A s \in SUBSET X : g[s] = h[s]
    BY <1>7
  <2>2. g = h
    BY <2>1
  <2>. QED  BY <2>2 DEF IsSum
<1>. QED  BY <1>3, <1>8

-----------------------------------------------------------------------------
LEMMA SumEmpty == ASSUME NEW f PROVE SumFunctionOnSet(f, {}) = 0
<1>1. IsSum(SumFcn(f, {}), f, {})
  BY SumExists, FS_EmptySet DEF SumFcn
<1>. QED  BY <1>1, IsSumAt, SumUnfold

LEMMA SumPick ==
  ASSUME NEW f, NEW S, IsFiniteSet(S), S # {}
  PROVE  SumFunctionOnSet(f, S) = f[Pick(S)] + SumFunctionOnSet(f, S \ {Pick(S)})
<1>1. IsSum(SumFcn(f, S), f, S) /\ IsSum(SumFcn(f, S \ {Pick(S)}), f, S \ {Pick(S)})
  BY SumExists, FS_Subset DEF SumFcn
<1>2. SumFcn(f, S)[S] = f[Pick(S)] + SumFcn(f, S)[S \ {Pick(S)}]
  BY <1>1, IsSumAt
<1>3. SumFcn(f, S)[S \ {Pick(S)}] = SumFcn(f, S \ {Pick(S)})[S \ {Pick(S)}]
  <2>. DEFINE X == S \ {Pick(S)}
  <2>1. X \in SUBSET S /\ X \in SUBSET X
    OBVIOUS
  <2>2. IsSum(SumFcn(f, X), f, X)
    BY <1>1
  <2>. HIDE DEF X
  <2>3. SumFcn(f, S)[X] = SumFcn(f, X)[X]
    BY <1>1, <2>1, <2>2, SumUnique
  <2>. QED  BY <2>3 DEF X
<1>. QED  BY <1>2, <1>3, SumUnfold

LEMMA SumType ==
  ASSUME NEW f, NEW S, IsFiniteSet(S), NEW V, 0 \in V, \A a, b \in V : a + b \in V,
         \A x \in S : f[x] \in V
  PROVE  SumFunctionOnSet(f, S) \in V
<1>. DEFINE F == {X \in SUBSET S : SumFunctionOnSet(f, X) \notin V}
<1>1. SUFFICES ASSUME F # {} PROVE FALSE
  OBVIOUS
<1>2. PICK X \in F : \A Y \in F : ~(Y \subseteq X /\ Y # X)
  <2>1. F \in SUBSET (SUBSET S)
    OBVIOUS
  <2>. HIDE DEF F
  <2>. QED  BY <1>1, <2>1, MinimalSubset
<1>3. X # {}
  BY <1>2, SumEmpty
<1>4. X \ {Pick(X)} \notin F /\ X \ {Pick(X)} \in SUBSET S /\ Pick(X) \in S
  BY <1>2, <1>3, PickIn
<1>5. SumFunctionOnSet(f, X \ {Pick(X)}) \in V /\ f[Pick(X)] \in V
  BY <1>4
<1>6. SumFunctionOnSet(f, X) = f[Pick(X)] + SumFunctionOnSet(f, X \ {Pick(X)})
  BY <1>2, <1>3, SumPick, FS_Subset
<1>. QED  BY <1>2, <1>5, <1>6

LEMMA SumInt ==
  ASSUME NEW f, NEW S, IsFiniteSet(S), \A x \in S : f[x] \in Int
  PROVE  SumFunctionOnSet(f, S) \in Int
<1>1. 0 \in Int /\ \A a, b \in Int : a + b \in Int
  OBVIOUS
<1>. QED  BY <1>1, SumType

LEMMA SumNat ==
  ASSUME NEW f, NEW S, IsFiniteSet(S), \A x \in S : f[x] \in Nat
  PROVE  SumFunctionOnSet(f, S) \in Nat
<1>1. 0 \in Nat /\ \A a, b \in Nat : a + b \in Nat
  OBVIOUS
<1>. QED  BY <1>1, SumType

\* Any element may be taken out of a sum, not only the one the library takes first.
LEMMA SumStep ==
  ASSUME NEW f, NEW S, IsFiniteSet(S), \A x \in S : f[x] \in Int, NEW e \in S
  PROVE  SumFunctionOnSet(f, S) = f[e] + SumFunctionOnSet(f, S \ {e})
<1>. DEFINE T(X) == SumFunctionOnSet(f, X)
            F == {X \in SUBSET S : \E x \in X : T(X) # f[x] + T(X \ {x})}
<1>1. SUFFICES ASSUME F # {} PROVE FALSE
  OBVIOUS
<1>2. PICK X \in F : \A Y \in F : ~(Y \subseteq X /\ Y # X)
  <2>1. F \in SUBSET (SUBSET S)
    OBVIOUS
  <2>. HIDE DEF F
  <2>. QED  BY <1>1, <2>1, MinimalSubset
<1>3. PICK x \in X : T(X) # f[x] + T(X \ {x})
  BY <1>2
<1>. DEFINE p == Pick(X)
<1>4. p \in X /\ X \in SUBSET S
  BY <1>2, <1>3, PickIn
<1>5. T(X) = f[p] + T(X \ {p})
  BY <1>4, SumPick, FS_Subset
<1>6. p # x
  BY <1>3, <1>5
<1>. HIDE DEF p
<1>7. X \ {p} \notin F /\ X \ {x} \notin F
  BY <1>2, <1>3, <1>4
<1>8. T(X \ {p}) = f[x] + T((X \ {p}) \ {x})
  BY <1>3, <1>4, <1>6, <1>7
<1>9. T(X \ {x}) = f[p] + T((X \ {x}) \ {p})
  BY <1>3, <1>4, <1>6, <1>7
<1>10. (X \ {x}) \ {p} = (X \ {p}) \ {x}
  OBVIOUS
<1>11. T((X \ {p}) \ {x}) \in Int
  <2>1. IsFiniteSet((X \ {p}) \ {x}) /\ \A y \in (X \ {p}) \ {x} : f[y] \in Int
    BY <1>4, FS_Subset
  <2>. QED  BY <2>1, SumInt
<1>12. f[x] \in Int /\ f[p] \in Int
  BY <1>3, <1>4
<1>. QED  BY <1>3, <1>5, <1>8, <1>9, <1>10, <1>11, <1>12

-----------------------------------------------------------------------------
\* The sum depends on the summands only.
LEMMA SumSame ==
  ASSUME NEW f, NEW g, NEW S, IsFiniteSet(S), \A x \in S : f[x] = g[x]
  PROVE  SumFunctionOnSet(f, S) = SumFunctionOnSet(g, S)
<1>. DEFINE F == {X \in SUBSET S : SumFunctionOnSet(f, X) # SumFunctionOnSet(g, X)}
<1>1. SUFFICES ASSUME F # {} PROVE FALSE
  OBVIOUS
<1>2. PICK X \in F : \A Y \in F : ~(Y \subseteq X /\ Y # X)
  <2>1. F \in SUBSET (SUBSET S)
    OBVIOUS
  <2>. HIDE DEF F
  <2>. QED  BY <1>1, <2>1, MinimalSubset
<1>3. X # {}
  BY <1>2, SumEmpty
<1>4. X \ {Pick(X)} \notin F /\ X \ {Pick(X)} \in SUBSET S /\ Pick(X) \in S
  BY <1>2, <1>3, PickIn
<1>5. /\ SumFunctionOnSet(f, X) = f[Pick(X)] + SumFunctionOnSet(f, X \ {Pick(X)})
      /\ SumFunctionOnSet(g, X) = g[Pick(X)] + SumFunctionOnSet(g, X \ {Pick(X)})
  BY <1>2, <1>3, SumPick, FS_Subset
<1>. QED  BY <1>2, <1>4, <1>5

\* One summand changes: the sum changes by as much.
LEMMA SumChange ==
  ASSUME NEW f, NEW g, NEW S, IsFiniteSet(S), NEW e \in S,
         \A x \in S : f[x] \in Int /\ g[x] \in Int,
         \A x \in S \ {e} : g[x] = f[x]
  PROVE  /\ SumFunctionOnSet(f, S) \in Int
         /\ SumFunctionOnSet(g, S) = SumFunctionOnSet(f, S) - f[e] + g[e]
<1>1. IsFiniteSet(S \ {e})
  BY FS_Subset
<1>2. SumFunctionOnSet(f, S) = f[e] + SumFunctionOnSet(f, S \ {e})
  BY SumStep
<1>3. SumFunctionOnSet(g, S) = g[e] + SumFunctionOnSet(g, S \ {e})
  BY SumStep
<1>4. SumFunctionOnSet(f, S \ {e}) = SumFunctionOnSet(g, S \ {e})
  BY <1>1, SumSame
<1>5. SumFunctionOnSet(f, S \ {e}) \in Int
  BY <1>1, SumInt
<1>. QED  BY <1>2, <1>3, <1>4, <1>5

LEMMA SumZero ==
  ASSUME NEW f, NEW S, IsFiniteSet(S), \A x \in S : f[x] = 0
  PROVE  SumFunctionOnSet(f, S) = 0
<1>. DEFINE F == {X \in SUBSET S : SumFunctionOnSet(f, X) # 0}
<1>1. SUFFICES ASSUME F # {} PROVE FALSE
  OBVIOUS
<1>2. PICK X \in F : \A Y \in F : ~(Y \subseteq X /\ Y # X)
  <2>1. F \in SUBSET (SUBSET S)
    OBVIOUS
  <2>. HIDE DEF F
  <2>. QED  BY <1>1, <2>1, MinimalSubset
<1>3. X # {}
  BY <1>2, SumEmpty
<1>4. X \ {Pick(X)} \notin F /\ X \ {Pick(X)} \in SUBSET S /\ Pick(X) \in S
  BY <1>2, <1>3, PickIn
<1>5. SumFunctionOnSet(f, X) = f[Pick(X)] + SumFunctionOnSet(f, X \ {Pick(X)})
  BY <1>2, <1>3, SumPick, FS_Subset
<1>. QED  BY <1>2, <1>4, <1>5

\* One element more.
LEMMA SumMore ==
  ASSUME NEW f, NEW g, NEW S, IsFiniteSet(S), NEW e, e \notin S,
         \A x \in S : f[x] \in Int /\ g[x] = f[x], g[e] \in Int
  PROVE  SumFunctionOnSet(g, S \cup {e}) = SumFunctionOnSet(f, S) + g[e]
<1>1. IsFiniteSet(S \cup {e}) /\ (S \cup {e}) \ {e} = S
  BY FS_AddElement
<1>2. SumFunctionOnSet(g, S \cup {e}) = g[e] + SumFunctionOnSet(g, (S \cup {e}) \ {e})
  <2>1. \A x \in S \cup {e} : g[x] \in Int
    OBVIOUS
  <2>. QED  BY <1>1, <2>1, SumStep
<1>3. SumFunctionOnSet(g, S) = SumFunctionOnSet(f, S) /\ SumFunctionOnSet(f, S) \in Int
  BY SumSame, SumInt
<1>4. SumFunctionOnSet(g, S \cup {e}) = g[e] + SumFunctionOnSet(f, S)
  BY <1>1, <1>2, <1>3
<1>. QED  BY <1>3, <1>4

\* Numbers of one sign that add up to nothing are all nothing.
LEMMA SumNothing ==
  ASSUME NEW f, NEW S, IsFiniteSet(S), NEW V \in {Nat, {n \in Int : n <= 0}},
         \A x \in S : f[x] \in V, SumFunctionOnSet(f, S) = 0
  PROVE  \A x \in S : f[x] = 0
<1>. SUFFICES ASSUME NEW x \in S PROVE f[x] = 0
  OBVIOUS
<1>1. 0 \in V /\ V \subseteq Int /\ \A a, b \in V : a + b \in V /\ (a + b = 0 => a = 0)
  OBVIOUS
<1>2. SumFunctionOnSet(f, S) = f[x] + SumFunctionOnSet(f, S \ {x})
  <2>1. \A y \in S : f[y] \in Int
    BY <1>1
  <2>. QED  BY <2>1, SumStep
<1>3. SumFunctionOnSet(f, S \ {x}) \in V
  <2>1. IsFiniteSet(S \ {x})
    BY FS_Subset
  <2>. QED  BY <1>1, <2>1, SumType
<1>. QED  BY <1>1, <1>2, <1>3
=============================================================================
