------------------------------ MODULE SumLemmas ------------------------------
(***************************************************************************)
(* What the accounts of the watchdog rest on: SumFunctionOnSet over a      *)
(* finite set satisfies its defining equation, whichever element is taken  *)
(* first, and so grows with its summands and with its set.  Induction is   *)
(* stated over a set that holds the values for which the claim is true.    *)
(***************************************************************************)
EXTENDS Naturals, Functions, FiniteSets, FiniteSetTheorems, WellFoundedInduction, TLAPS

\* The provers, and their seconds, for a leaf that does not name one.
USE ZenonT(3), SMTT(60), ZenonT(60), SMTT(61)

(***************************************************************************)
(* Induction.                                                              *)
(***************************************************************************)
\* A nonempty set of naturals has a least element.
LEMMA NatLeast ==
    ASSUME NEW T \in SUBSET Nat, T # {}
    PROVE  \E n \in T : \A m \in T : n <= m
<1> DEFINE Less == {ss \in Nat \X Nat : ss[1] < ss[2]}
<1>1. IsWellFoundedOn(Less, Nat)
    BY NatLessThanWellFounded DEF OpToRel
<1>2. \A m, n \in Nat : <<m, n>> \in Less <=> m < n
    OBVIOUS
<1>3. PICK n \in T : \A m \in T : ~(<<m, n>> \in Less)
  <2> HIDE DEF Less
  <2> QED BY <1>1, WFMin, ZenonT(60)
<1>4. \A m \in T : m \in Nat /\ n \in Nat /\ ~(m < n)
    BY <1>2, <1>3, ZenonT(60)
<1> QED BY <1>4

\* A set that holds 0, and n + 1 whenever it holds n, holds every natural.
LEMMA NatInductionOnSet ==
    ASSUME NEW T, 0 \in T, \A n \in Nat : n \in T => n + 1 \in T
    PROVE  Nat \subseteq T
<1> SUFFICES ASSUME Nat \ T # {} PROVE FALSE
    OBVIOUS
<1>1. PICK n \in Nat \ T : \A m \in Nat \ T : n <= m
    BY NatLeast, ZenonT(60)
<1>2. n # 0 /\ n - 1 \in Nat /\ n - 1 \notin T /\ n = (n - 1) + 1
    BY <1>1
<1> QED BY <1>1, <1>2

\* A nonempty set of subsets of a finite set has a minimal element.
LEMMA MinimalSubset ==
    ASSUME NEW S, IsFiniteSet(S), NEW T, T \subseteq SUBSET S, T # {}
    PROVE  \E U \in T : \A V \in T : ~(<<V, U>> \in StrictSubsetOrdering(S))
<1>1. IsWellFoundedOn(StrictSubsetOrdering(S), SUBSET S)
    BY FS_StrictSubsetOrderingWellFounded, FS_FiniteSubsetsOfFinite
<1> QED BY <1>1, WFMin

\* A set that holds a subset of S as soon as it holds all smaller ones holds them all.
LEMMA SubsetInductionOnSet ==
    ASSUME NEW S, IsFiniteSet(S), NEW T,
           \A U \in SUBSET S : (\A V \in SUBSET U : V # U => V \in T) => U \in T
    PROVE  SUBSET S \subseteq T
<1> SUFFICES ASSUME (SUBSET S) \ T # {} PROVE FALSE
    OBVIOUS
<1> DEFINE Bad == (SUBSET S) \ T
<1>1. \E U \in Bad : \A V \in Bad : ~(<<V, U>> \in StrictSubsetOrdering(S))
  <2>1. Bad \subseteq SUBSET S /\ Bad # {}
    OBVIOUS
  <2> HIDE DEF Bad
  <2> QED BY <2>1, MinimalSubset
<1>2. PICK U \in Bad : \A V \in Bad : ~(<<V, U>> \in StrictSubsetOrdering(S))
    BY <1>1
<1>3. \A V \in SUBSET U : V # U => V \in T
    BY <1>2, ZenonT(60) DEF StrictSubsetOrdering
<1> QED BY <1>2, <1>3

\* A set that holds {}, and U with one more element whenever it holds U, holds S.
LEMMA FiniteInductionOnSet ==
    ASSUME NEW S, IsFiniteSet(S), NEW T, {} \in T,
           \A U \in SUBSET S : U \in T => \A x \in S \ U : U \cup {x} \in T
    PROVE  S \in T
<1>1. ASSUME NEW U \in SUBSET S, \A V \in SUBSET U : V # U => V \in T
      PROVE  U \in T
  <2>1. CASE U # {}
    <3>1. PICK x \in U : TRUE
        BY <2>1
    <3>2. U \ {x} \in T /\ U \ {x} \in SUBSET S /\ x \in S \ (U \ {x}) /\ (U \ {x}) \cup {x} = U
        BY <1>1, <3>1
    <3> QED BY <3>2
  <2> QED BY <2>1
<1> QED BY <1>1, SubsetInductionOnSet

(***************************************************************************)
(* The recursion that defines the sum.                                     *)
(***************************************************************************)
Pick(s) == CHOOSE x \in s : TRUE

Addition(g, f, s) == IF s = {} THEN 0 ELSE f[Pick(s)] + g[s \ {Pick(s)}]

\* g[s] is the sum over s, for every subset s of S, as the library's fold defines it.
IsSum(g, f, S) == g = [s \in SUBSET S |-> Addition(g, f, s)]

\* The equation has a solution: it is extended from the sets of at most n elements to those
\* of at most n + 1.
LEMMA SumExists ==
    ASSUME NEW S, IsFiniteSet(S), NEW f
    PROVE  \E g : IsSum(g, f, S)
<1> DEFINE Upto(n, g) == \A s \in SUBSET S : Cardinality(s) <= n => g[s] = Addition(g, f, s)
           T == {n \in Nat : \E g : Upto(n, g)}
<1>1. \A s \in SUBSET S : IsFiniteSet(s) /\ Cardinality(s) \in Nat /\ Cardinality(s) <= Cardinality(S)
    BY FS_Subset, FS_CardinalityType
<1>2. 0 \in T
  <2>1. Upto(0, [s \in SUBSET S |-> 0])
    BY <1>1, FS_EmptySet DEF Addition
  <2> QED BY <2>1
<1>3. ASSUME NEW n \in Nat, n \in T
      PROVE  n + 1 \in T
  <2>1. PICK g : Upto(n, g)
    BY <1>3
  <2> DEFINE h == [s \in SUBSET S |-> Addition(g, f, s)]
  <2>2. ASSUME NEW s \in SUBSET S, Cardinality(s) <= n + 1
        PROVE  h[s] = Addition(h, f, s)
    <3>1. CASE s = {}
        BY <3>1 DEF Addition
    <3>2. CASE s # {}
      <4>1. Pick(s) \in s
        BY <3>2 DEF Pick
      <4> DEFINE r == s \ {Pick(s)}
      <4>2. r \in SUBSET S /\ Cardinality(r) <= n
        BY <4>1, <2>2, <1>1, FS_RemoveElement
      <4>3. g[r] = h[r]
        BY <4>2, <2>1
      <4> QED BY <3>2, <4>3 DEF Addition
    <3> QED BY <3>1, <3>2
  <2>3. Upto(n + 1, h)
    BY <2>2, ZenonT(60)
  <2>4. \E k : Upto(n + 1, k)
    <3> HIDE DEF Upto, h
    <3> QED BY <2>3
  <2> QED BY <2>4
<1>4. Cardinality(S) \in T
  <2> HIDE DEF T
  <2> QED BY <1>1, <1>2, <1>3, NatInductionOnSet
<1>5. PICK g : Upto(Cardinality(S), g)
    BY <1>4
<1> DEFINE h == [s \in SUBSET S |-> Addition(g, f, s)]
<1>6. \A s \in SUBSET S : h[s] = g[s]
    BY <1>1, <1>5
<1>7. \A s \in SUBSET S : Addition(g, f, s) = Addition(h, f, s)
    BY <1>6, ZenonT(60) DEF Addition, Pick
<1> QED BY <1>7, ZenonT(60) DEF IsSum

\* The sum of the library is a value of such a solution.
LEMMA SumUnfold ==
    ASSUME NEW S, IsFiniteSet(S), NEW f
    PROVE  \E g : IsSum(g, f, S) /\ SumFunctionOnSet(f, S) = g[S]
<1> DEFINE iter == CHOOSE g : IsSum(g, f, S)
<1>1. IsSum(iter, f, S)
    BY SumExists
<1>2. SumFunctionOnSet(f, S) = iter[S]
    BY DEF SumFunctionOnSet, FoldFunctionOnSet, MapThenFoldSet, IsSum, Addition, Pick
<1> QED BY <1>1, <1>2, ZenonT(60)

\* The equation, case by case.
LEMMA PickedElement ==
    ASSUME NEW S, NEW f, NEW g, IsSum(g, f, S), NEW s \in SUBSET S
    PROVE  /\ s = {} => g[s] = 0
           /\ s # {} => Pick(s) \in s /\ g[s] = f[Pick(s)] + g[s \ {Pick(s)}]
<1>1. s # {} => Pick(s) \in s
    BY DEF Pick
<1>2. g[s] = Addition(g, f, s)
    BY DEF IsSum
<1> QED BY <1>1, <1>2 DEF Addition

\* A sum of naturals is a natural.
LEMMA SumValues ==
    ASSUME NEW S, IsFiniteSet(S), NEW f, \A x \in S : f[x] \in Nat, NEW g, IsSum(g, f, S)
    PROVE  \A s \in SUBSET S : g[s] \in Nat
<1> DEFINE T == {s \in SUBSET S : g[s] \in Nat}
<1>1. ASSUME NEW U \in SUBSET S, \A V \in SUBSET U : V # U => V \in T
      PROVE  U \in T
  <2>1. CASE U = {}
    BY <2>1, PickedElement
  <2>2. CASE U # {}
    <3>1. Pick(U) \in U /\ g[U] = f[Pick(U)] + g[U \ {Pick(U)}]
        BY <2>2, PickedElement
    <3>2. U \ {Pick(U)} \in T
        BY <1>1, <3>1
    <3> QED BY <3>1, <3>2
  <2> QED BY <2>1, <2>2
<1>2. SUBSET S \subseteq T
  <2> HIDE DEF T
  <2> QED BY <1>1, SubsetInductionOnSet
<1> QED BY <1>2

\* It does not matter which element is added first.
LEMMA SumAnyElement ==
    ASSUME NEW S, IsFiniteSet(S), NEW f, \A x \in S : f[x] \in Nat, NEW g, IsSum(g, f, S)
    PROVE  \A s \in SUBSET S : \A x \in s : g[s] = f[x] + g[s \ {x}]
<1> DEFINE T == {s \in SUBSET S : \A x \in s : g[s] = f[x] + g[s \ {x}]}
<1>1. ASSUME NEW U \in SUBSET S, \A V \in SUBSET U : V # U => V \in T
      PROVE  U \in T
  <2> SUFFICES ASSUME NEW x \in U PROVE g[U] = f[x] + g[U \ {x}]
    OBVIOUS
  <2> DEFINE c == Pick(U)
  <2>1. c \in U /\ g[U] = f[c] + g[U \ {c}]
    BY PickedElement
  <2>2. CASE x = c
    BY <2>1, <2>2
  <2>3. CASE x # c
    <3> HIDE DEF c
    <3>1. g[U \ {c}] = f[x] + g[(U \ {c}) \ {x}]
        BY <1>1, <2>1, <2>3
    <3>2. g[U \ {x}] = f[c] + g[(U \ {x}) \ {c}]
        BY <1>1, <2>1, <2>3
    <3>3. (U \ {x}) \ {c} = (U \ {c}) \ {x}
        OBVIOUS
    <3>4. f[x] \in Nat /\ f[c] \in Nat /\ g[(U \ {c}) \ {x}] \in Nat
        BY <2>1, SumValues
    <3>5. \A a, b, m \in Nat : a + (b + m) = b + (a + m)
        OBVIOUS
    <3>6. f[c] + (f[x] + g[(U \ {c}) \ {x}]) = f[x] + (f[c] + g[(U \ {c}) \ {x}])
        BY <3>4, <3>5, ZenonT(60)
    <3> QED BY <2>1, <3>1, <3>2, <3>3, <3>6, ZenonT(60)
  <2> QED BY <2>2, <2>3
<1>2. SUBSET S \subseteq T
  <2> HIDE DEF T
  <2> QED BY <1>1, SubsetInductionOnSet
<1> QED BY <1>2, ZenonT(60)

\* Two solutions, of equations over a set and over a subset of it, agree on the subset.
LEMMA SumAgrees ==
    ASSUME NEW S, IsFiniteSet(S), NEW f, NEW g, IsSum(g, f, S),
           NEW R \in SUBSET S, NEW k, NEW h, IsSum(h, k, R), \A x \in R : f[x] = k[x]
    PROVE  \A s \in SUBSET R : h[s] = g[s]
<1> DEFINE T == {s \in SUBSET R : h[s] = g[s]}
<1>1. \A s \in SUBSET S : s # {} => Pick(s) \in s /\ g[s] = f[Pick(s)] + g[s \ {Pick(s)}]
  <2> SUFFICES ASSUME NEW s \in SUBSET S PROVE s # {} => Pick(s) \in s /\ g[s] = f[Pick(s)] + g[s \ {Pick(s)}]
    OBVIOUS
  <2> QED BY PickedElement
<1>2. \A s \in SUBSET R : s # {} => h[s] = k[Pick(s)] + h[s \ {Pick(s)}]
  <2> SUFFICES ASSUME NEW s \in SUBSET R PROVE s # {} => h[s] = k[Pick(s)] + h[s \ {Pick(s)}]
    OBVIOUS
  <2> QED BY PickedElement
<1>3. ASSUME NEW U \in SUBSET R, \A V \in SUBSET U : V # U => V \in T
      PROVE  U \in T
  <2>1. CASE U = {}
    BY <2>1, PickedElement
  <2>2. CASE U # {}
    <3>1. Pick(U) \in U /\ g[U] = f[Pick(U)] + g[U \ {Pick(U)}]
        BY <2>2, <1>1
    <3>2. h[U] = k[Pick(U)] + h[U \ {Pick(U)}]
        BY <2>2, <1>2
    <3>3. U \ {Pick(U)} \in T
        BY <1>3, <3>1
    <3> QED BY <3>1, <3>2, <3>3
  <2> QED BY <2>1, <2>2
<1>4. IsFiniteSet(R)
    BY FS_Subset
<1>5. SUBSET R \subseteq T
  <2> HIDE DEF T
  <2> QED BY <1>3, <1>4, SubsetInductionOnSet
<1> QED BY <1>5

(***************************************************************************)
(* The sum.                                                                *)
(***************************************************************************)
\* The sum over no element.
LEMMA SumOfEmpty ==
    ASSUME NEW f
    PROVE  SumFunctionOnSet(f, {}) = 0
BY SumUnfold, PickedElement, FS_EmptySet

\* The sum is a natural.
LEMMA SumType ==
    ASSUME NEW S, IsFiniteSet(S), NEW f, \A x \in S : f[x] \in Nat
    PROVE  SumFunctionOnSet(f, S) \in Nat
BY SumUnfold, SumValues

\* The sum depends on the function's values on the set alone.
LEMMA SumCongruent ==
    ASSUME NEW S, IsFiniteSet(S), NEW f, NEW k, \A x \in S : f[x] = k[x]
    PROVE  SumFunctionOnSet(f, S) = SumFunctionOnSet(k, S)
<1>1. PICK g : IsSum(g, f, S) /\ SumFunctionOnSet(f, S) = g[S]
    BY SumUnfold
<1>2. PICK h : IsSum(h, k, S) /\ SumFunctionOnSet(k, S) = h[S]
    BY SumUnfold
<1> QED BY <1>1, <1>2, SumAgrees

\* An element can be taken out of the sum.
LEMMA SumRemove ==
    ASSUME NEW S, IsFiniteSet(S), NEW f, \A x \in S : f[x] \in Nat, NEW x \in S
    PROVE  SumFunctionOnSet(f, S) = f[x] + SumFunctionOnSet(f, S \ {x})
<1>1. PICK g : IsSum(g, f, S) /\ SumFunctionOnSet(f, S) = g[S]
    BY SumUnfold
<1>2. IsFiniteSet(S \ {x})
    BY FS_RemoveElement
<1>3. PICK h : IsSum(h, f, S \ {x}) /\ SumFunctionOnSet(f, S \ {x}) = h[S \ {x}]
    BY <1>2, SumUnfold
<1>4. h[S \ {x}] = g[S \ {x}]
    BY <1>1, <1>3, SumAgrees
<1>5. g[S] = f[x] + g[S \ {x}]
    BY <1>1, SumAnyElement
<1> QED BY <1>1, <1>3, <1>4, <1>5

\* An element can be added to the sum.
LEMMA SumAdd ==
    ASSUME NEW S, IsFiniteSet(S), NEW x, x \notin S, NEW f, \A y \in S \cup {x} : f[y] \in Nat
    PROVE  SumFunctionOnSet(f, S \cup {x}) = f[x] + SumFunctionOnSet(f, S)
<1>1. IsFiniteSet(S \cup {x}) /\ (S \cup {x}) \ {x} = S
    BY FS_AddElement
<1> QED BY <1>1, SumRemove

\* Larger summands make a larger sum.
LEMMA SumMonotonic ==
    ASSUME NEW S, IsFiniteSet(S), NEW f, \A x \in S : f[x] \in Nat,
           NEW g, \A x \in S : g[x] \in Nat, \A x \in S : f[x] <= g[x]
    PROVE  SumFunctionOnSet(f, S) <= SumFunctionOnSet(g, S)
<1> DEFINE T == {U \in SUBSET S : SumFunctionOnSet(f, U) <= SumFunctionOnSet(g, U)}
<1>1. {} \in T
    BY SumOfEmpty
<1>2. ASSUME NEW U \in SUBSET S, U \in T, NEW x \in S \ U
      PROVE  U \cup {x} \in T
  <2>1. IsFiniteSet(U)
    BY FS_Subset
  <2>2. SumFunctionOnSet(f, U \cup {x}) = f[x] + SumFunctionOnSet(f, U)
    BY <2>1, SumAdd
  <2>3. SumFunctionOnSet(g, U \cup {x}) = g[x] + SumFunctionOnSet(g, U)
    BY <2>1, SumAdd, ZenonT(60)
  <2>4. SumFunctionOnSet(f, U) \in Nat /\ SumFunctionOnSet(g, U) \in Nat
    BY <2>1, SumType
  <2>5. SumFunctionOnSet(f, U) <= SumFunctionOnSet(g, U) /\ f[x] <= g[x] /\ f[x] \in Nat /\ g[x] \in Nat
    BY <1>2
  <2> QED BY <2>2, <2>3, <2>4, <2>5
<1>3. S \in T
  <2> HIDE DEF T
  <2> QED BY <1>1, <1>2, FiniteInductionOnSet, ZenonT(60)
<1> QED BY <1>3

\* The sum over a subset is no larger.
LEMMA SumOverSubset ==
    ASSUME NEW S, IsFiniteSet(S), NEW f, \A x \in S : f[x] \in Nat, NEW R \in SUBSET S
    PROVE  SumFunctionOnSet(f, R) <= SumFunctionOnSet(f, S)
<1> DEFINE T == {U \in SUBSET S : SumFunctionOnSet(f, R \cap U) <= SumFunctionOnSet(f, U)}
<1>1. {} \in T
  <2>1. R \cap {} = {}
    OBVIOUS
  <2> QED BY <2>1, SumOfEmpty
<1>2. ASSUME NEW U \in SUBSET S, U \in T, NEW x \in S \ U
      PROVE  U \cup {x} \in T
  <2>1. IsFiniteSet(U) /\ IsFiniteSet(R \cap U)
    BY FS_Subset
  <2>2. SumFunctionOnSet(f, U \cup {x}) = f[x] + SumFunctionOnSet(f, U)
    BY <2>1, SumAdd, ZenonT(60)
  <2>3. SumFunctionOnSet(f, U) \in Nat /\ SumFunctionOnSet(f, R \cap U) \in Nat /\ f[x] \in Nat
    BY <2>1, SumType
  <2>4. CASE x \in R
    <3>1. R \cap (U \cup {x}) = (R \cap U) \cup {x} /\ x \notin R \cap U
        BY <2>4
    <3>2. SumFunctionOnSet(f, R \cap (U \cup {x})) = f[x] + SumFunctionOnSet(f, R \cap U)
        BY <2>1, <3>1, SumAdd
    <3> QED BY <1>2, <2>2, <2>3, <3>2
  <2>5. CASE x \notin R
    <3>1. R \cap (U \cup {x}) = R \cap U
        BY <2>5
    <3>2. SumFunctionOnSet(f, R \cap (U \cup {x})) = SumFunctionOnSet(f, R \cap U)
        BY <3>1
    <3> QED BY <1>2, <2>2, <2>3, <3>2
  <2> QED BY <2>4, <2>5
<1>3. S \in T
  <2> HIDE DEF T
  <2> QED BY <1>1, <1>2, FiniteInductionOnSet, ZenonT(60)
<1>4. R \cap S = R
    OBVIOUS
<1> QED BY <1>3, <1>4

\* A factor common to all summands is a factor of the sum.
LEMMA SumScaled ==
    ASSUME NEW S, IsFiniteSet(S), NEW f, \A x \in S : f[x] \in Nat, NEW k \in Nat
    PROVE  SumFunctionOnSet([x \in S |-> k * f[x]], S) = k * SumFunctionOnSet(f, S)
<1> DEFINE g == [x \in S |-> k * f[x]]
           T == {U \in SUBSET S : SumFunctionOnSet(g, U) = k * SumFunctionOnSet(f, U)}
<1>1. {} \in T
  <2>1. SumFunctionOnSet(g, {}) = 0 /\ SumFunctionOnSet(f, {}) = 0
    BY SumOfEmpty
  <2> QED BY <2>1
<1>2. ASSUME NEW U \in SUBSET S, U \in T, NEW x \in S \ U
      PROVE  U \cup {x} \in T
  <2>1. IsFiniteSet(U)
    BY FS_Subset
  <2>2. SumFunctionOnSet(f, U \cup {x}) = f[x] + SumFunctionOnSet(f, U)
    BY <2>1, SumAdd, ZenonT(60)
  <2>3. g[x] = k * f[x] /\ f[x] \in Nat /\ \A y \in S : g[y] \in Nat
    OBVIOUS
  <2>4. SumFunctionOnSet(g, U \cup {x}) = g[x] + SumFunctionOnSet(g, U)
    BY <2>1, <2>3, SumAdd
  <2>5. SumFunctionOnSet(f, U) \in Nat
    BY <2>1, SumType
  <2>6. \A a, b \in Nat : k * (a + b) = k * a + k * b
    OBVIOUS
  <2>7. k * (f[x] + SumFunctionOnSet(f, U)) = k * f[x] + k * SumFunctionOnSet(f, U)
    BY <2>3, <2>5, <2>6
  <2> HIDE DEF g
  <2> QED BY <1>2, <2>2, <2>3, <2>4, <2>7
<1>3. S \in T
  <2> HIDE DEF T
  <2> QED BY <1>1, <1>2, FiniteInductionOnSet, ZenonT(60)
<1> QED BY <1>3

\* Summands up to k make a sum of at most k times their number.
LEMMA SumBounded ==
    ASSUME NEW S, IsFiniteSet(S), NEW k \in Nat, NEW f, \A x \in S : f[x] \in Nat /\ f[x] <= k
    PROVE  SumFunctionOnSet(f, S) <= Cardinality(S) * k
<1> DEFINE T == {U \in SUBSET S : SumFunctionOnSet(f, U) <= Cardinality(U) * k}
<1>1. {} \in T
  <2>1. SumFunctionOnSet(f, {}) = 0 /\ Cardinality({}) = 0
    BY SumOfEmpty, FS_EmptySet
  <2>2. 0 <= 0 * k
    OBVIOUS
  <2> QED BY <2>1, <2>2
<1>2. ASSUME NEW U \in SUBSET S, U \in T, NEW x \in S \ U
      PROVE  U \cup {x} \in T
  <2>1. IsFiniteSet(U) /\ Cardinality(U) \in Nat
    BY FS_Subset, FS_CardinalityType
  <2>2. SumFunctionOnSet(f, U \cup {x}) = f[x] + SumFunctionOnSet(f, U)
    BY <2>1, SumAdd, ZenonT(60)
  <2>3. SumFunctionOnSet(f, U) \in Nat
    BY <2>1, SumType
  <2>4. Cardinality(U \cup {x}) = Cardinality(U) + 1
    BY <2>1, FS_AddElement, ZenonT(60)
  <2>5. f[x] \in Nat /\ f[x] <= k /\ SumFunctionOnSet(f, U) <= Cardinality(U) * k
    BY <1>2
  <2>6. \A n \in Nat : n * k \in Nat /\ (n + 1) * k = n * k + k
    BY SMT
  <2>7. (Cardinality(U) + 1) * k = Cardinality(U) * k + k /\ Cardinality(U) * k \in Nat
    BY <2>1, <2>6
  <2>8. f[x] + SumFunctionOnSet(f, U) <= (Cardinality(U) + 1) * k
    BY <2>3, <2>5, <2>7
  <2> QED BY <1>2, <2>2, <2>4, <2>8, ZenonT(60)
<1>3. S \in T
  <2> HIDE DEF T
  <2> QED BY <1>1, <1>2, FiniteInductionOnSet, ZenonT(60)
<1> QED BY <1>3

\* Adding to one summand adds as much to the sum.
LEMMA SumIncreased ==
    ASSUME NEW S, IsFiniteSet(S), NEW f, \A x \in S : f[x] \in Nat, NEW x \in S, NEW d \in Nat,
           NEW g, g[x] = f[x] + d, \A y \in S \ {x} : g[y] = f[y]
    PROVE  SumFunctionOnSet(g, S) = SumFunctionOnSet(f, S) + d
<1>1. IsFiniteSet(S \ {x})
    BY FS_RemoveElement
<1>2. SumFunctionOnSet(f, S) = f[x] + SumFunctionOnSet(f, S \ {x})
    BY SumRemove
<1>3. \A y \in S : g[y] \in Nat
    OBVIOUS
<1>4. SumFunctionOnSet(g, S) = g[x] + SumFunctionOnSet(g, S \ {x})
    BY <1>3, SumRemove
<1>5. SumFunctionOnSet(g, S \ {x}) = SumFunctionOnSet(f, S \ {x})
    BY <1>1, SumCongruent
<1>6. SumFunctionOnSet(f, S \ {x}) \in Nat /\ f[x] \in Nat
    BY <1>1, SumType
<1> QED BY <1>2, <1>4, <1>5, <1>6
=============================================================================
