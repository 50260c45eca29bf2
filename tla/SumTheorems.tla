----------------------------- MODULE SumTheorems ----------------------------
(***************************************************************************)
(* Facts about SumFunctionOnSet of the community modules, for every finite *)
(* set: the sum over a set with one element more, over two functions that  *)
(* differ in one element, and its sign.  The fold is defined by recursion  *)
(* on subsets, so the facts are proved by contradiction from a smallest    *)
(* set (or a smallest cardinality) that violates them.                     *)
(***************************************************************************)
EXTENDS Integers, Functions, FiniteSets, FiniteSetTheorems, WellFoundedInduction, TLAPS

LOCAL Pick(s) == CHOOSE x \in s : TRUE

\* The equation that the fold solves.
LOCAL Step(F, g, s) == IF s = {} THEN 0 ELSE F[Pick(s)] + g[s \ {Pick(s)}]
LOCAL Solves(F, S, g) == g = [s \in SUBSET S |-> Step(F, g, s)]
LOCAL IntSolution(F, S, g) ==
  (\A x \in S : F[x] \in Int) /\ g \in [SUBSET S -> Int] /\ Solves(F, S, g)

\* A non-empty set of natural numbers has a least element.
LEMMA MinNat ==
  ASSUME NEW T, T \subseteq Nat, T # {}
  PROVE  \E x \in T : \A y \in T : x <= y
<1>1. \E x \in T : \A y \in T : ~(<<y, x>> \in OpToRel(<, Nat))
  BY NatLessThanWellFounded, WFMin, Zenon
<1>2. PICK x \in T : \A y \in T : ~(<<y, x>> \in OpToRel(<, Nat))
  BY <1>1, Zenon
<1>3. ASSUME NEW y \in T PROVE x <= y
  <2>1. x \in Nat /\ y \in Nat
    OBVIOUS
  <2>2. <<y, x>> \notin OpToRel(<, Nat)
    BY <1>2, Zenon
  <2>3. ~(y < x)
    BY <2>1, <2>2 DEF OpToRel
  <2> QED
    BY <2>1, <2>3
<1> QED
  BY <1>2, <1>3

\* A non-empty set of subsets of a finite set has a minimal one.
LEMMA MinSubset ==
  ASSUME NEW S, IsFiniteSet(S), NEW T, T \subseteq SUBSET S, T # {}
  PROVE  \E x \in T : \A y \in T : y \subseteq x => y = x
<1>1. IsWellFoundedOn(StrictSubsetOrdering(S), SUBSET S)
  BY FS_StrictSubsetOrderingWellFounded, FS_FiniteSubsetsOfFinite
<1>2. \E x \in T : \A y \in T : ~(<<y, x>> \in StrictSubsetOrdering(S))
  BY <1>1, WFMin, Zenon
<1> QED
  BY <1>2 DEF StrictSubsetOrdering

\* The fold, as its definition says.
LEMMA SumUnfold ==
  ASSUME NEW F, NEW S
  PROVE  SumFunctionOnSet(F, S) = (CHOOSE g : Solves(F, S, g))[S]
  BY Zenon DEF SumFunctionOnSet, FoldFunctionOnSet, MapThenFoldSet, Solves, Step, Pick

\* The equation has a solution: it is built from smaller to larger subsets.
LEMMA Solvable ==
  ASSUME NEW S, IsFiniteSet(S), NEW F, \A x \in S : F[x] \in Int
  PROVE  \E g \in [SUBSET S -> Int] : Solves(F, S, g)
<1> DEFINE Level(n) == {s \in SUBSET S : Cardinality(s) <= n}
           Partial(n, g) == g \in [Level(n) -> Int] /\ \A s \in Level(n) : g[s] = Step(F, g, s)
           Bad == {n \in Nat : ~\E g : Partial(n, g)}
<1>c. ASSUME NEW s \in SUBSET S
      PROVE  /\ IsFiniteSet(s) /\ Cardinality(s) \in Nat
             /\ Cardinality(s) = 0 <=> s = {}
             /\ s # {} => /\ Pick(s) \in s /\ F[Pick(s)] \in Int
                          /\ s \ {Pick(s)} \in SUBSET S
                          /\ Cardinality(s \ {Pick(s)}) = Cardinality(s) - 1
  <2>1. IsFiniteSet(s)
    BY FS_Subset
  <2>2. s # {} => Pick(s) \in s
    BY DEF Pick
  <2> QED
    BY <2>1, <2>2, FS_CardinalityType, FS_EmptySet, FS_RemoveElement
<1>d. \A s \in SUBSET S : Cardinality(s) \in Nat /\ (Cardinality(s) = 0 <=> s = {})
  BY <1>c
<1>1. \E g : Partial(0, g)
  <2> DEFINE g == [s \in Level(0) |-> 0]
  <2>1. ASSUME NEW s \in Level(0) PROVE s = {}
    BY <1>d
  <2>2. Partial(0, g)
    BY <2>1 DEF Step
  <2> QED
    BY <2>2
<1>2. ASSUME NEW n \in Nat, NEW g, Partial(n, g) PROVE \E h : Partial(n + 1, h)
  <2> DEFINE h == [s \in Level(n + 1) |-> Step(F, g, s)]
  <2>1. ASSUME NEW s \in Level(n + 1), s # {}
        PROVE  /\ s \ {Pick(s)} \in Level(n) /\ s \ {Pick(s)} \in Level(n + 1)
               /\ F[Pick(s)] \in Int
    BY <1>c, <2>1
  <2>2. \A u \in Level(n) : u \in Level(n + 1) /\ h[u] = g[u] /\ g[u] \in Int
    <3>1. ASSUME NEW u \in Level(n) PROVE u \in Level(n + 1)
      BY <1>d
    <3> QED
      BY <1>2, <3>1
  <2>3. ASSUME NEW s \in Level(n + 1) PROVE h[s] = Step(F, h, s) /\ h[s] \in Int
    <3>1. CASE s = {}
      BY <3>1 DEF Step
    <3>2. CASE s # {}
      <4>1. h[s] = F[Pick(s)] + g[s \ {Pick(s)}]
        BY <3>2 DEF Step
      <4>2. h[s \ {Pick(s)}] = g[s \ {Pick(s)}] /\ g[s \ {Pick(s)}] \in Int
        BY <2>1, <2>2, <3>2
      <4> HIDE DEF h
      <4> QED
        BY <4>1, <4>2, <2>1, <3>2 DEF Step
    <3> QED
      BY <3>1, <3>2
  <2>4. h \in [Level(n + 1) -> Int]
    BY <2>3
  <2> QED
    BY <2>3, <2>4
<1>3. Bad = {}
  <2> SUFFICES ASSUME Bad # {} PROVE FALSE
    OBVIOUS
  <2>0. Bad \subseteq Nat /\ \A n \in Nat : n \in Bad <=> ~\E g : Partial(n, g)
    OBVIOUS
  <2> HIDE DEF Bad, Partial
  <2>1. PICK m \in Bad : \A y \in Bad : m <= y
    BY <2>0, MinNat
  <2>2. m # 0 /\ m \in Nat
    BY <2>0, <1>1
  <2>3. m - 1 \in Nat /\ m - 1 \notin Bad
    BY <2>1, <2>2
  <2>4. \E h : Partial((m - 1) + 1, h)
    BY <2>0, <2>3, <1>2
  <2>5. (m - 1) + 1 = m
    BY <2>2
  <2> QED
    BY <2>0, <2>4, <2>5
<1>4. Cardinality(S) \in Nat /\ Level(Cardinality(S)) = SUBSET S
  BY FS_CardinalityType, FS_Subset
<1>5. PICK g : Partial(Cardinality(S), g)
  BY <1>3, <1>4
<1>6. g \in [SUBSET S -> Int] /\ \A s \in SUBSET S : g[s] = Step(F, g, s)
  BY <1>4, <1>5
<1> QED
  BY <1>6 DEF Solves

\* A solution over a larger set agrees on the smaller one, also when the
\* functions are the same only there.
LEMMA SolutionsAgree ==
  ASSUME NEW S, NEW T, T \subseteq S, IsFiniteSet(T), NEW F, NEW G, \A x \in T : F[x] = G[x],
         NEW g, Solves(F, S, g), NEW h, Solves(G, T, h)
  PROVE  \A u \in SUBSET T : g[u] = h[u]
<1> DEFINE Bad == {u \in SUBSET T : g[u] # h[u]}
<1>1. SUFFICES ASSUME Bad # {} PROVE FALSE
  OBVIOUS
<1>b. Bad \subseteq SUBSET T
  OBVIOUS
<1>2. PICK u \in Bad : \A y \in Bad : y \subseteq u => y = u
  <2> HIDE DEF Bad
  <2> QED
    BY <1>1, <1>b, MinSubset
<1>3. g[u] = Step(F, g, u) /\ h[u] = Step(G, h, u)
  BY DEF Solves
<1>4. u # {}
  BY <1>2, <1>3 DEF Step
<1>5. Pick(u) \in u
  BY <1>4 DEF Pick
<1>6. g[u \ {Pick(u)}] = h[u \ {Pick(u)}]
  BY <1>2, <1>5
<1>7. F[Pick(u)] = G[Pick(u)]
  BY <1>5
<1> QED
  BY <1>2, <1>3, <1>4, <1>6, <1>7 DEF Step

\* The order of the summands does not matter.
LEMMA SolutionRemove ==
  ASSUME NEW S, IsFiniteSet(S), NEW F, NEW g, IntSolution(F, S, g), NEW z \in S
  PROVE  g[S] = F[z] + g[S \ {z}]
<1>0. /\ \A x \in S : F[x] \in Int
      /\ g \in [SUBSET S -> Int]
      /\ Solves(F, S, g)
  BY DEF IntSolution
<1> DEFINE Bad == {s \in SUBSET S : \E x \in s : g[s] # F[x] + g[s \ {x}]}
<1>1. SUFFICES ASSUME Bad # {} PROVE FALSE
  <2>1. S \in SUBSET S /\ S \notin Bad => g[S] = F[z] + g[S \ {z}]
    OBVIOUS
  <2> QED
    BY <2>1
<1>b. Bad \subseteq SUBSET S
  OBVIOUS
<1>2. PICK s \in Bad : \A y \in Bad : y \subseteq s => y = s
  <2> HIDE DEF Bad
  <2> QED
    BY <1>1, <1>b, MinSubset
<1>3. PICK x \in s : g[s] # F[x] + g[s \ {x}]
  BY <1>2
<1> DEFINE y == Pick(s)
           withoutY == s \ {y}
           withoutX == s \ {x}
           r  == withoutY \ {x}
<1>4. y \in s
  BY <1>3 DEF Pick
<1>5. g[s] = F[y] + g[withoutY]
  <2>1. g[s] = Step(F, g, s)
    BY <1>0 DEF Solves
  <2> QED
    BY <2>1, <1>3 DEF Step
<1>6. x # y
  BY <1>3, <1>5
<1>7. withoutY \in SUBSET S /\ withoutX \in SUBSET S /\ withoutY \notin Bad /\ withoutX \notin Bad
  BY <1>2, <1>3, <1>4
<1>8. x \in withoutY /\ y \in withoutX /\ withoutX \ {y} = r /\ r \in SUBSET S
  BY <1>3, <1>4, <1>6
<1> HIDE DEF y, withoutY, withoutX, r
<1>9. g[withoutY] = F[x] + g[r] /\ g[withoutX] = F[y] + g[r]
  BY <1>7, <1>8 DEF r
<1>10. F[x] \in Int /\ F[y] \in Int /\ g[r] \in Int
  BY <1>0, <1>3, <1>4, <1>8
<1>11. g[s] = F[x] + g[withoutX]
  BY <1>5, <1>9, <1>10
<1> QED
  BY <1>3, <1>11 DEF withoutX

-----------------------------------------------------------------------------
(***************************************************************************)
(* The facts to cite.                                                      *)
(***************************************************************************)

\* The fold is the value of a solution.
LEMMA SumSolution ==
  ASSUME NEW S, IsFiniteSet(S), NEW F, \A x \in S : F[x] \in Int
  PROVE  \E g \in [SUBSET S -> Int] : Solves(F, S, g) /\ SumFunctionOnSet(F, S) = g[S]
<1> DEFINE g == CHOOSE g : Solves(F, S, g)
<1>1. PICK h \in [SUBSET S -> Int] : Solves(F, S, h)
  BY Solvable
<1>2. Solves(F, S, g)
  BY <1>1
<1>3. SumFunctionOnSet(F, S) = g[S]
  BY SumUnfold
<1> HIDE DEF g
<1>4. \A u \in SUBSET S : g[u] = h[u]
  BY <1>1, <1>2, SolutionsAgree
<1>5. g \in [SUBSET S -> Int]
  <2>1. g = [s \in SUBSET S |-> Step(F, g, s)]
    BY <1>2 DEF Solves
  <2> QED
    BY <2>1, <1>4
<1> QED
  BY <1>2, <1>3, <1>5

\* Nothing sums up to nothing.
THEOREM SumEmpty == ASSUME NEW F PROVE SumFunctionOnSet(F, {}) = 0
<1>1. IsFiniteSet({})
  BY FS_EmptySet
<1>2. PICK g \in [SUBSET {} -> Int] : Solves(F, {}, g) /\ SumFunctionOnSet(F, {}) = g[{}]
  BY <1>1, SumSolution
<1>3. {} \in SUBSET {}
  OBVIOUS
<1> QED
  BY <1>2, <1>3 DEF Solves, Step

\* A sum of integers is one.
THEOREM SumType ==
  ASSUME NEW S, IsFiniteSet(S), NEW F, \A x \in S : F[x] \in Int
  PROVE  SumFunctionOnSet(F, S) \in Int
<1>1. PICK g \in [SUBSET S -> Int] : SumFunctionOnSet(F, S) = g[S]
  BY SumSolution
<1>2. S \in SUBSET S
  OBVIOUS
<1> QED
  BY <1>1, <1>2

\* Functions that agree on a set have the same sum over it.
THEOREM SumSame ==
  ASSUME NEW S, IsFiniteSet(S), NEW F, NEW G, \A x \in S : F[x] \in Int /\ F[x] = G[x]
  PROVE  SumFunctionOnSet(F, S) = SumFunctionOnSet(G, S)
<1>1. PICK g \in [SUBSET S -> Int] : Solves(F, S, g) /\ SumFunctionOnSet(F, S) = g[S]
  BY SumSolution
<1>2. PICK h \in [SUBSET S -> Int] : Solves(G, S, h) /\ SumFunctionOnSet(G, S) = h[S]
  BY SumSolution
<1>3. \A u \in SUBSET S : g[u] = h[u]
  BY <1>1, <1>2, SolutionsAgree
<1>4. S \in SUBSET S
  OBVIOUS
<1> QED
  BY <1>1, <1>2, <1>3, <1>4

\* One summand can be taken out.
THEOREM SumRemove ==
  ASSUME NEW S, IsFiniteSet(S), NEW F, \A x \in S : F[x] \in Int, NEW y \in S
  PROVE  SumFunctionOnSet(F, S) = F[y] + SumFunctionOnSet(F, S \ {y})
<1> DEFINE T == S \ {y}
<1>0. T \subseteq S /\ T \in SUBSET T /\ S \in SUBSET S /\ T \in SUBSET S
  OBVIOUS
<1>f. IsFiniteSet(T)
  BY FS_Subset
<1>1. PICK g \in [SUBSET S -> Int] : Solves(F, S, g) /\ SumFunctionOnSet(F, S) = g[S]
  BY SumSolution
<1>2. \A x \in T : F[x] \in Int
  OBVIOUS
<1> HIDE DEF T
<1>3. PICK h \in [SUBSET T -> Int] : Solves(F, T, h) /\ SumFunctionOnSet(F, T) = h[T]
  BY <1>f, <1>2, SumSolution
<1>4. g[T] = h[T]
  BY <1>0, <1>f, <1>1, <1>3, SolutionsAgree
<1>5. g[S] = F[y] + g[T]
  <2>1. IntSolution(F, S, g)
    BY <1>1 DEF IntSolution
  <2>2. g[S] = F[y] + g[S \ {y}]
    BY <2>1, SolutionRemove
  <2> QED
    BY <1>0, <2>2 DEF T
<1> QED
  BY <1>1, <1>3, <1>4, <1>5 DEF T

\* One summand can be added.
THEOREM SumAdd ==
  ASSUME NEW S, IsFiniteSet(S), NEW y, y \notin S, NEW F, \A x \in S \cup {y} : F[x] \in Int
  PROVE  SumFunctionOnSet(F, S \cup {y}) = F[y] + SumFunctionOnSet(F, S)
<1>1. IsFiniteSet(S \cup {y})
  BY FS_AddElement
<1>2. (S \cup {y}) \ {y} = S
  OBVIOUS
<1>3. y \in S \cup {y}
  OBVIOUS
<1> QED
  BY <1>1, <1>2, <1>3, SumRemove

\* A function that changes at one element changes its sum by as much.
THEOREM SumUpdate ==
  ASSUME NEW S, IsFiniteSet(S), NEW y \in S, NEW F, NEW G,
         \A x \in S : F[x] \in Int /\ G[x] \in Int,
         \A x \in S : x # y => G[x] = F[x]
  PROVE  SumFunctionOnSet(G, S) = SumFunctionOnSet(F, S) + (G[y] - F[y])
<1>1. IsFiniteSet(S \ {y})
  BY FS_Subset
<1>2. SumFunctionOnSet(F, S \ {y}) = SumFunctionOnSet(G, S \ {y})
  BY <1>1, SumSame
<1>3. SumFunctionOnSet(F, S \ {y}) \in Int
  BY <1>1, SumType
<1>4. SumFunctionOnSet(F, S) = F[y] + SumFunctionOnSet(F, S \ {y})
  BY SumRemove
<1>5. SumFunctionOnSet(G, S) = G[y] + SumFunctionOnSet(G, S \ {y})
  BY SumRemove
<1> QED
  BY <1>2, <1>3, <1>4, <1>5

\* A sum of natural numbers is one, and at least each of them.
THEOREM SumNat ==
  ASSUME NEW S, IsFiniteSet(S), NEW F, \A x \in S : F[x] \in Nat
  PROVE  /\ SumFunctionOnSet(F, S) \in Nat
         /\ \A y \in S : SumFunctionOnSet(F, S) >= F[y]
<1> DEFINE Bad == {T \in SUBSET S : SumFunctionOnSet(F, T) \notin Nat}
<1>f. \A T \in SUBSET S : IsFiniteSet(T)
  BY FS_Subset
<1>1. ASSUME NEW T \in SUBSET S PROVE SumFunctionOnSet(F, T) \in Nat
  <2> SUFFICES ASSUME Bad # {} PROVE FALSE
    BY <1>1
  <2>b. Bad \subseteq SUBSET S /\ \A U \in SUBSET S : U \in Bad <=> SumFunctionOnSet(F, U) \notin Nat
    OBVIOUS
  <2> HIDE DEF Bad
  <2>1. PICK U \in Bad : \A y \in Bad : y \subseteq U => y = U
    BY <2>b, MinSubset
  <2>2. U # {}
    <3>1. SumFunctionOnSet(F, {}) \in Nat /\ {} \in SUBSET S
      BY SumEmpty
    <3> QED
      BY <2>b, <3>1
  <2>3. PICK y \in U : TRUE
    BY <2>2
  <2>4. U \ {y} \in SUBSET S /\ U \ {y} \notin Bad
    BY <2>1, <2>3, <2>b
  <2>5. IsFiniteSet(U) /\ \A x \in U : F[x] \in Int
    BY <1>f, <2>b
  <2>6. SumFunctionOnSet(F, U) = F[y] + SumFunctionOnSet(F, U \ {y})
    BY <2>5, <2>3, SumRemove
  <2>7. F[y] \in Nat
    BY <2>b, <2>3
  <2> QED
    BY <2>b, <2>4, <2>6, <2>7
<1>2. ASSUME NEW y \in S PROVE SumFunctionOnSet(F, S) >= F[y]
  <2>1. SumFunctionOnSet(F, S) = F[y] + SumFunctionOnSet(F, S \ {y})
    BY SumRemove
  <2>2. SumFunctionOnSet(F, S \ {y}) \in Nat
    BY <1>1
  <2> QED
    BY <2>1, <2>2
<1> QED
  BY <1>1, <1>2

\* The sum over a set is that over a subset and that over the rest.
THEOREM SumDifference ==
  ASSUME NEW S, IsFiniteSet(S), NEW F, \A x \in S : F[x] \in Int, NEW T, T \subseteq S
  PROVE  SumFunctionOnSet(F, S) = SumFunctionOnSet(F, S \ T) + SumFunctionOnSet(F, T)
<1> DEFINE Sum(U) == SumFunctionOnSet(F, U)
           Bad    == {U \in SUBSET T : Sum(S) # Sum(S \ U) + Sum(U)}
<1>f. \A U \in SUBSET S : IsFiniteSet(U) /\ Sum(U) \in Int
  <2>1. ASSUME NEW U \in SUBSET S PROVE IsFiniteSet(U) /\ \A x \in U : F[x] \in Int
    BY FS_Subset
  <2> QED
    BY <2>1, SumType
<1>1. SUFFICES ASSUME Bad # {} PROVE FALSE
  OBVIOUS
<1>b. Bad \subseteq SUBSET T /\ IsFiniteSet(T) /\ \A U \in SUBSET T : U \in Bad <=> Sum(S) # Sum(S \ U) + Sum(U)
  BY <1>f
<1> HIDE DEF Bad
<1>2. PICK U \in Bad : \A V \in Bad : V \subseteq U => V = U
  BY <1>1, <1>b, MinSubset
<1>3. U # {}
  <2>1. Sum({}) = 0 /\ Sum(S) \in Int
    BY <1>f, SumEmpty
  <2>2. S \ {} = S /\ {} \in SUBSET T
    OBVIOUS
  <2>3. Sum(S) = Sum(S \ {}) + Sum({})
    BY <2>1, <2>2
  <2>4. {} \notin Bad
    BY <1>b, <2>2, <2>3
  <2> QED
    BY <2>4
<1>4. PICK y \in U : TRUE
  BY <1>3
<1> DEFINE V == U \ {y}
           R == S \ V
<1>5. V \in SUBSET T /\ V \notin Bad /\ U \in SUBSET T
  BY <1>2, <1>4, <1>b
<1>6. R \in SUBSET S /\ U \in SUBSET S /\ V \in SUBSET S /\ S \ U \in SUBSET S /\ y \in R /\ R \ {y} = S \ U
  BY <1>4, <1>5
<1> HIDE DEF V, R
<1>7. Sum(R) = F[y] + Sum(S \ U)
  <2>1. \A x \in R : F[x] \in Int
    BY <1>6
  <2> QED
    BY <1>f, <1>6, <2>1, SumRemove
<1>8. Sum(U) = F[y] + Sum(V)
  <2>1. \A x \in U : F[x] \in Int
    BY <1>6
  <2> QED
    BY <1>f, <1>4, <1>6, <2>1, SumRemove DEF V
<1>9. Sum(S) = Sum(R) + Sum(V)
  BY <1>b, <1>5 DEF R
<1>10. F[y] \in Int /\ Sum(V) \in Int /\ Sum(S \ U) \in Int
  BY <1>f, <1>4, <1>6
<1>11. Sum(S) = Sum(S \ U) + Sum(U)
  BY <1>7, <1>8, <1>9, <1>10
<1> QED
  BY <1>b, <1>5, <1>11
=============================================================================
