-------------------------------- MODULE Sums --------------------------------
(***************************************************************************)
(* Laws of SumFunction, the sum of the values of a function on a finite    *)
(* set, as the ledgers of the program use it (the vault over its draws,    *)
(* the treasury over the tickets).  SumFunction is a recursive function on *)
(* the subsets of the domain: each law is proved of a smallest subset, or  *)
(* number, that would refute it.                                           *)
(***************************************************************************)
EXTENDS Integers, FiniteSets, Functions, FiniteSetTheorems, WellFoundedInduction, TLAPS

\* A set of naturals has a least element.
LEMMA LeastNatural ==
  ASSUME NEW T \in SUBSET Nat, T # {}
  PROVE  \E x \in T : \A y \in T : x <= y
<1> DEFINE R == {ss \in Nat \X Nat : ss[1] < ss[2]}
<1>1. IsWellFoundedOn(R, Nat)
  BY NatLessThanWellFounded, Zenon DEF OpToRel
<1> HIDE DEF R
<1>2. PICK x \in T : \A y \in T : ~(<<y, x>> \in R)
  BY <1>1, WFMin
<1>3. ASSUME NEW y \in T PROVE x <= y
  <2>1. y \in Nat /\ x \in Nat /\ <<y, x>> \in Nat \X Nat
    OBVIOUS
  <2>2. <<y, x>>[1] = y /\ <<y, x>>[2] = x
    OBVIOUS
  <2>3. ~(y < x)
    BY <1>2, <2>1, <2>2 DEF R
  <2> QED
    BY <2>1, <2>3
<1> QED
  BY <1>3

\* A set of subsets of a finite set has a smallest element.
LEMMA LeastSubset ==
  ASSUME NEW S, IsFiniteSet(S), NEW T \in SUBSET SUBSET S, T # {}
  PROVE  \E s \in T : \A t \in T : t \subseteq s => t = s
<1> DEFINE R == StrictSubsetOrdering(S)
<1>1. IsWellFoundedOn(R, FiniteSubsetsOf(S))
  BY FS_StrictSubsetOrderingWellFounded
<1>2. T \subseteq FiniteSubsetsOf(S)
  BY FS_Subset DEF FiniteSubsetsOf
<1>3. PICK s \in T : \A t \in T : ~(<<t, s>> \in R)
  <2> HIDE DEF R
  <2> QED BY <1>1, <1>2, WFMin
<1>4. ASSUME NEW t \in T, t \subseteq s PROVE t = s
  <2>1. ~(<<t, s>> \in R)
    BY <1>3
  <2>2. t \in SUBSET S /\ s \in SUBSET S
    OBVIOUS
  <2>3. <<t, s>> \in (SUBSET S) \X (SUBSET S) /\ <<t, s>>[1] = t /\ <<t, s>>[2] = s
    BY <2>2, Zenon
  <2> QED
    BY <2>1, <2>3, <1>4, Zenon DEF StrictSubsetOrdering
<1> QED
  BY <1>4

-----------------------------------------------------------------------------
(* The recursion behind SumFunction. *)

\* The element the fold takes first, its step, and a function that takes it at
\* every subset of S.
Pick(s) == CHOOSE x \in s : TRUE
SumStep(F, g, s) == IF s = {} THEN 0 ELSE F[Pick(s)] + g[s \ {Pick(s)}]
Summing(F, S, g) ==
  /\ g \in [SUBSET S -> Int]
  /\ \A s \in SUBSET S : g[s] = SumStep(F, g, s)

\* The element is one of the set.
LEMMA PickIn == ASSUME NEW s, s # {} PROVE Pick(s) \in s
  BY DEF Pick

\* The recursion has a solution: built up by the size of the subsets.
LEMMA SummingExists ==
  ASSUME NEW S, IsFiniteSet(S), NEW F \in [S -> Int]
  PROVE  \E g : Summing(F, S, g)
<1> DEFINE Upto(g, n) ==
      /\ g \in [SUBSET S -> Int]
      /\ \A s \in SUBSET S : Cardinality(s) <= n => g[s] = SumStep(F, g, s)
    Bad == {n \in Nat : ~ \E g : Upto(g, n)}
<1>0. \A s \in SUBSET S : IsFiniteSet(s) /\ Cardinality(s) \in Nat
  BY FS_Subset, FS_CardinalityType
<1>1. Upto([s \in SUBSET S |-> 0], 0)
  <2>1. \A s \in SUBSET S : Cardinality(s) <= 0 => s = {}
    BY <1>0, FS_EmptySet
  <2> QED
    BY <2>1 DEF SumStep
<1>2. ASSUME NEW n \in Nat, NEW g, Upto(g, n)
      PROVE  \E h : Upto(h, n + 1)
  <2> DEFINE h == [s \in SUBSET S |-> IF Cardinality(s) <= n THEN g[s] ELSE SumStep(F, g, s)]
  <2>1. ASSUME NEW s \in SUBSET S, s # {}
        PROVE  /\ Pick(s) \in S /\ F[Pick(s)] \in Int
               /\ s \ {Pick(s)} \in SUBSET S
               /\ Cardinality(s \ {Pick(s)}) = Cardinality(s) - 1
    BY <2>1, PickIn, <1>0, FS_RemoveElement
  <2>2. ASSUME NEW s \in SUBSET S PROVE SumStep(F, g, s) \in Int
    <3>1. CASE s = {}
      BY <3>1 DEF SumStep
    <3>2. CASE s # {}
      <4>1. g[s \ {Pick(s)}] \in Int /\ F[Pick(s)] \in Int
        BY <2>1, <1>2, <3>2
      <4> QED
        BY <4>1, <3>2 DEF SumStep
    <3> QED
      BY <3>1, <3>2
  <2>3. h \in [SUBSET S -> Int]
    BY <2>2, <1>2
  <2>4. ASSUME NEW s \in SUBSET S, Cardinality(s) <= n + 1
        PROVE  h[s] = SumStep(F, h, s)
    <3>1. h[s] = SumStep(F, g, s)
      BY <1>2
    <3>2. CASE s = {}
      BY <3>1, <3>2 DEF SumStep
    <3>3. CASE s # {}
      <4>1. Cardinality(s \ {Pick(s)}) <= n
        BY <2>1, <3>3, <2>4, <1>0
      <4>2. h[s \ {Pick(s)}] = g[s \ {Pick(s)}]
        BY <4>1, <2>1, <3>3
      <4> QED
        BY <4>2, <3>1, <3>3 DEF SumStep
    <3> QED
      BY <3>2, <3>3
  <2> QED
    BY <2>3, <2>4
<1>3. Bad = {}
  <2> SUFFICES ASSUME Bad # {} PROVE FALSE
    OBVIOUS
  <2> HIDE DEF Upto
  <2>1. Bad \in SUBSET Nat
    OBVIOUS
  <2>2. PICK n \in Bad : \A m \in Bad : n <= m
    BY <2>1, LeastNatural
  <2>3. n # 0
    BY <1>1
  <2>4. n - 1 \in Nat /\ n - 1 \notin Bad /\ (n - 1) + 1 = n
    BY <2>2, <2>3
  <2>5. PICK g : Upto(g, n - 1)
    BY <2>4
  <2>6. \E h : Upto(h, (n - 1) + 1)
    BY <2>4, <2>5, <1>2
  <2> QED
    BY <2>6, <2>4
<1>4. Cardinality(S) \in Nat
  BY <1>0
<1>5. PICK g : Upto(g, Cardinality(S))
  BY <1>3, <1>4
<1>6. \A s \in SUBSET S : Cardinality(s) <= Cardinality(S)
  BY FS_Subset
<1> QED
  BY <1>5, <1>6 DEF Summing

\* SumFunction is the value of a solution at the whole domain.
LEMMA SumIsSumming ==
  ASSUME NEW S, IsFiniteSet(S), NEW F \in [S -> Int]
  PROVE  \E g : Summing(F, S, g) /\ SumFunction(F) = g[S]
<1> DEFINE g == CHOOSE g : g = [s \in SUBSET S |-> SumStep(F, g, s)]
    Bad == {s \in SUBSET S : g[s] \notin Int}
<1>1. SumFunction(F) = g[S]
  BY DEF SumFunction, SumFunctionOnSet, FoldFunctionOnSet, MapThenFoldSet, SumStep, Pick
<1>2. g = [s \in SUBSET S |-> SumStep(F, g, s)]
  <2>1. PICK h : Summing(F, S, h)
    BY SummingExists
  <2>2. h = [s \in SUBSET S |-> SumStep(F, h, s)]
    BY <2>1 DEF Summing
  <2> QED
    BY <2>2
<1> HIDE DEF g
<1>3. Bad = {}
  <2> SUFFICES ASSUME Bad # {} PROVE FALSE
    OBVIOUS
  <2>1. Bad \in SUBSET SUBSET S
    OBVIOUS
  <2>2. PICK s \in Bad : \A t \in Bad : t \subseteq s => t = s
    <3> HIDE DEF Bad
    <3> QED
      BY <2>1, LeastSubset
  <2>3. s # {}
    BY <1>2 DEF SumStep
  <2>4. Pick(s) \in s /\ Pick(s) \in S /\ s \ {Pick(s)} \in SUBSET S
    BY <2>3, PickIn
  <2>5. s \ {Pick(s)} \notin Bad
    BY <2>4, <2>2
  <2>6. g[s] = F[Pick(s)] + g[s \ {Pick(s)}]
    BY <1>2, <2>3 DEF SumStep
  <2> QED
    BY <2>4, <2>5, <2>6
<1>4. g \in [SUBSET S -> Int]
  BY <1>2, <1>3
<1> QED
  BY <1>1, <1>2, <1>4 DEF Summing

\* The order in which elements are taken makes no difference.
LEMMA SummingAnyOrder ==
  ASSUME NEW S, IsFiniteSet(S), NEW F \in [S -> Int], NEW g, Summing(F, S, g)
  PROVE  \A s \in SUBSET S : \A y \in s : g[s] = F[y] + g[s \ {y}]
<1> DEFINE Bad == {s \in SUBSET S : \E y \in s : g[s] # F[y] + g[s \ {y}]}
<1> SUFFICES ASSUME Bad # {} PROVE FALSE
  OBVIOUS
<1>1. Bad \in SUBSET SUBSET S
  OBVIOUS
<1>2. PICK s \in Bad : \A t \in Bad : t \subseteq s => t = s
  <2> HIDE DEF Bad
  <2> QED
    BY <1>1, LeastSubset
<1>3. PICK y \in s : g[s] # F[y] + g[s \ {y}]
  OBVIOUS
<1> DEFINE x == Pick(s)
<1>4. x \in s /\ x \in S /\ y \in S
  BY PickIn
<1> HIDE DEF x
<1>5. g[s] = F[x] + g[s \ {x}]
  BY DEF Summing, SumStep, x
<1>6. x # y
  BY <1>3, <1>5
<1>7. s \ {x} \in SUBSET S /\ s \ {x} \notin Bad /\ s \ {y} \in SUBSET S /\ s \ {y} \notin Bad
  BY <1>2, <1>4
<1>8. g[s \ {x}] = F[y] + g[(s \ {x}) \ {y}]
  BY <1>7, <1>6
<1>9. g[s \ {y}] = F[x] + g[(s \ {y}) \ {x}]
  BY <1>7, <1>6, <1>4
<1>10. (s \ {x}) \ {y} = (s \ {y}) \ {x} /\ (s \ {x}) \ {y} \in SUBSET S
  OBVIOUS
<1>11. F[x] \in Int /\ F[y] \in Int /\ g[(s \ {x}) \ {y}] \in Int
  BY <1>4, <1>10 DEF Summing
<1>12. g[(s \ {x}) \ {y}] = g[(s \ {y}) \ {x}]
  BY <1>10
<1> HIDE DEF Bad
<1> QED
  BY <1>3, <1>5, <1>8, <1>9, <1>11, <1>12

\* Larger values on a subset have a larger sum over it.
LEMMA SummingMonotone ==
  ASSUME NEW S, IsFiniteSet(S), NEW F \in [S -> Int], NEW G \in [S -> Int],
         NEW f, Summing(F, S, f), NEW g, Summing(G, S, g),
         NEW r \in SUBSET S, \A x \in r : F[x] <= G[x]
  PROVE  f[r] <= g[r]
<1> DEFINE Bad == {s \in SUBSET r : ~(f[s] <= g[s])}
<1> SUFFICES ASSUME Bad # {} PROVE FALSE
  OBVIOUS
<1>1. Bad \in SUBSET SUBSET S
  OBVIOUS
<1>2. PICK s \in Bad : \A t \in Bad : t \subseteq s => t = s
  <2> HIDE DEF Bad
  <2> QED
    BY <1>1, LeastSubset
<1>3. s \in SUBSET S /\ s \in SUBSET r /\ ~(f[s] <= g[s])
  OBVIOUS
<1>4. f[s] = SumStep(F, f, s) /\ g[s] = SumStep(G, g, s)
  BY <1>3 DEF Summing
<1>5. s # {}
  BY <1>4, <1>3 DEF SumStep
<1> DEFINE x == Pick(s)
<1>6. x \in s /\ x \in S /\ x \in r /\ s \ {x} \in SUBSET S /\ s \ {x} \in SUBSET r
  BY <1>3, <1>5, PickIn
<1>7. f[s] = F[x] + f[s \ {x}] /\ g[s] = G[x] + g[s \ {x}]
  BY <1>4, <1>5 DEF SumStep
<1> HIDE DEF x
<1>8. f[s \ {x}] <= g[s \ {x}]
  BY <1>2, <1>6
<1>9. F[x] \in Int /\ G[x] \in Int /\ f[s \ {x}] \in Int /\ g[s \ {x}] \in Int /\ F[x] <= G[x]
  BY <1>6 DEF Summing
<1> QED
  BY <1>3, <1>7, <1>8, <1>9

-----------------------------------------------------------------------------
(* The laws. *)

\* A sum of integers is an integer: the books have a balance.
THEOREM SumType ==
  ASSUME NEW S, IsFiniteSet(S), NEW F \in [S -> Int]
  PROVE  SumFunction(F) \in Int
<1>1. PICK g : Summing(F, S, g) /\ SumFunction(F) = g[S]
  BY SumIsSumming
<1> QED
  BY <1>1 DEF Summing

\* Nothing moved, nothing is summed: the books of a fresh account.
THEOREM SumZero ==
  ASSUME NEW S, IsFiniteSet(S)
  PROVE  SumFunction([x \in S |-> 0]) = 0
<1> DEFINE F == [x \in S |-> 0]
    g == [s \in SUBSET S |-> 0]
<1>1. F \in [S -> Int]
  OBVIOUS
<1>2. Summing(F, S, g)
  <2>1. ASSUME NEW s \in SUBSET S PROVE g[s] = SumStep(F, g, s)
    BY PickIn DEF SumStep
  <2> QED
    BY <2>1 DEF Summing
<1>3. g[S] = 0
  OBVIOUS
<1>4. \A x \in S : F[x] <= F[x]
  OBVIOUS
<1> HIDE DEF F, g
<1>5. PICK f : Summing(F, S, f) /\ SumFunction(F) = f[S]
  BY <1>1, SumIsSumming
<1>6. f[S] <= g[S] /\ g[S] <= f[S]
  BY <1>1, <1>2, <1>4, <1>5, SummingMonotone
<1>7. f[S] \in Int
  BY <1>5 DEF Summing
<1>8. SumFunction(F) = 0
  BY <1>3, <1>5, <1>6, <1>7
<1> QED
  BY <1>8 DEF F

\* A sum grows with its terms: what covers every claim covers all of them.
THEOREM SumMonotone ==
  ASSUME NEW S, IsFiniteSet(S), NEW F \in [S -> Int], NEW G \in [S -> Int],
         \A x \in S : F[x] <= G[x]
  PROVE  SumFunction(F) <= SumFunction(G)
<1>1. PICK f : Summing(F, S, f) /\ SumFunction(F) = f[S]
  BY SumIsSumming
<1>2. PICK g : Summing(G, S, g) /\ SumFunction(G) = g[S]
  BY SumIsSumming
<1> QED
  BY <1>1, <1>2, SummingMonotone

\* A handler that changes the entry of one draw changes the sum by as much.
THEOREM SumChange ==
  ASSUME NEW S, IsFiniteSet(S), NEW F \in [S -> Int], NEW G \in [S -> Int],
         NEW y \in S, \A x \in S \ {y} : F[x] = G[x]
  PROVE  SumFunction(G) = SumFunction(F) - F[y] + G[y]
<1>1. PICK f : Summing(F, S, f) /\ SumFunction(F) = f[S]
  BY SumIsSumming
<1>2. PICK g : Summing(G, S, g) /\ SumFunction(G) = g[S]
  BY SumIsSumming
<1>3. f[S] = F[y] + f[S \ {y}]
  BY <1>1, SummingAnyOrder
<1>4. g[S] = G[y] + g[S \ {y}]
  BY <1>2, SummingAnyOrder
<1>5. S \ {y} \in SUBSET S /\ \A x \in S \ {y} : F[x] \in Int /\ G[x] \in Int
  OBVIOUS
<1>6. \A x \in S \ {y} : F[x] <= G[x] /\ G[x] <= F[x]
  BY <1>5
<1>7. f[S \ {y}] <= g[S \ {y}] /\ g[S \ {y}] <= f[S \ {y}]
  BY <1>1, <1>2, <1>5, <1>6, SummingMonotone
<1>8. F[y] \in Int /\ G[y] \in Int /\ f[S \ {y}] \in Int /\ g[S \ {y}] \in Int
  BY <1>1, <1>2, <1>5 DEF Summing
<1> QED
  BY <1>1, <1>2, <1>3, <1>4, <1>7, <1>8

\* A handler that raises the entries of a set, a batch of tickets, by c each
\* raises the sum by c for each of them.
THEOREM SumRaise ==
  ASSUME NEW S, IsFiniteSet(S), NEW F \in [S -> Int], NEW c \in Int, NEW T \in SUBSET S
  PROVE  SumFunction([x \in S |-> IF x \in T THEN F[x] + c ELSE F[x]])
           = SumFunction(F) + Cardinality(T) * c
<1> DEFINE G(t) == [x \in S |-> IF x \in t THEN F[x] + c ELSE F[x]]
    Bad == {t \in SUBSET S : SumFunction(G(t)) # SumFunction(F) + Cardinality(t) * c}
<1> SUFFICES ASSUME Bad # {} PROVE FALSE
  OBVIOUS
<1>1. Bad \in SUBSET SUBSET S
  OBVIOUS
<1>2. PICK t \in Bad : \A u \in Bad : u \subseteq t => u = t
  <2> HIDE DEF Bad
  <2> QED
    BY <1>1, LeastSubset
<1>3. t \in SUBSET S /\ SumFunction(G(t)) # SumFunction(F) + Cardinality(t) * c
  OBVIOUS
<1>4. SumFunction(F) \in Int
  BY SumType
<1>5. t # {}
  <2>1. G({}) = F
    OBVIOUS
  <2>2. Cardinality({}) = 0
    BY FS_EmptySet
  <2>3. SumFunction(G({})) = SumFunction(F) + Cardinality({}) * c
    <3> HIDE DEF G
    <3> QED
      BY <1>4, <2>1, <2>2
  <2> HIDE DEF G
  <2> QED
    BY <1>3, <2>3
<1>6. PICK y \in t : TRUE
  BY <1>5
<1>7. y \in S /\ t \ {y} \in SUBSET S /\ t \ {y} \notin Bad
  BY <1>2, <1>3, <1>6
<1>8. SumFunction(G(t \ {y})) = SumFunction(F) + Cardinality(t \ {y}) * c
  BY <1>7
<1>9. Cardinality(t) \in Nat /\ Cardinality(t \ {y}) = Cardinality(t) - 1
  BY <1>3, <1>6, FS_Subset, FS_RemoveElement, FS_CardinalityType
<1>10. /\ G(t \ {y}) \in [S -> Int] /\ G(t) \in [S -> Int]
       /\ \A x \in S \ {y} : G(t \ {y})[x] = G(t)[x]
       /\ G(t \ {y})[y] = F[y] /\ G(t)[y] = F[y] + c /\ F[y] \in Int
  BY <1>6, <1>7
<1> HIDE DEF G, Bad
<1>11. SumFunction(G(t)) = SumFunction(G(t \ {y})) - F[y] + (F[y] + c)
  <2>1. \A H, K \in [S -> Int] :
          (\A x \in S \ {y} : H[x] = K[x]) => SumFunction(K) = SumFunction(H) - H[y] + K[y]
    BY <1>7, SumChange
  <2> QED
    BY <2>1, <1>10
<1>12. Cardinality(t) * c = (Cardinality(t) - 1) * c + c
  BY <1>9
<1>13. (Cardinality(t) - 1) * c \in Int /\ Cardinality(t) * c \in Int
  BY <1>9
<1>14. SumFunction(G(t \ {y})) = SumFunction(F) + (Cardinality(t) - 1) * c
  BY <1>8, <1>9
<1> QED
  BY <1>3, <1>4, <1>10, <1>11, <1>12, <1>13, <1>14

\* A sum of naturals is at least each of its terms, and not negative.
THEOREM SumAtLeast ==
  ASSUME NEW S, IsFiniteSet(S), NEW F \in [S -> Nat], NEW y \in S
  PROVE  SumFunction(F) \in Nat /\ F[y] <= SumFunction(F)
<1> DEFINE Z == [x \in S |-> 0]
    Y == [x \in S |-> IF x = y THEN F[y] ELSE 0]
<1>1. F \in [S -> Int] /\ Z \in [S -> Int] /\ Y \in [S -> Int] /\ F[y] \in Nat
  OBVIOUS
<1>2. (\A x \in S : Y[x] <= F[x]) /\ (\A x \in S \ {y} : Z[x] = Y[x])
  OBVIOUS
<1>3. Z[y] = 0 /\ Y[y] = F[y] /\ SumFunction(Z) = 0
  BY SumZero
<1> HIDE DEF Y, Z
<1>4. SumFunction(Y) <= SumFunction(F) /\ SumFunction(F) \in Int
  BY <1>1, <1>2, SumMonotone, SumType
<1>5. SumFunction(Y) = SumFunction(Z) - Z[y] + Y[y]
  BY <1>1, <1>2, SumChange
<1> QED
  BY <1>1, <1>3, <1>4, <1>5

\* One larger term and none smaller make a larger sum: equal sums of ordered
\* terms have equal terms.
THEOREM SumStrict ==
  ASSUME NEW S, IsFiniteSet(S), NEW F \in [S -> Int], NEW G \in [S -> Int],
         \A x \in S : F[x] <= G[x], NEW y \in S, F[y] < G[y]
  PROVE  SumFunction(F) < SumFunction(G)
<1> DEFINE H == [x \in S |-> IF x = y THEN G[y] ELSE F[x]]
<1>1. H \in [S -> Int] /\ H[y] = G[y] /\ F[y] \in Int /\ G[y] \in Int
  OBVIOUS
<1>2. (\A x \in S : H[x] <= G[x]) /\ (\A x \in S \ {y} : F[x] = H[x])
  OBVIOUS
<1> HIDE DEF H
<1>3. SumFunction(H) <= SumFunction(G)
  BY <1>1, <1>2, SumMonotone
<1>4. SumFunction(H) = SumFunction(F) - F[y] + H[y]
  BY <1>1, <1>2, SumChange
<1>5. SumFunction(F) \in Int /\ SumFunction(G) \in Int /\ SumFunction(H) \in Int
  BY <1>1, SumType
<1> QED
  BY <1>1, <1>3, <1>4, <1>5

=============================================================================
