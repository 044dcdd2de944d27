-------------------------------- MODULE Sums --------------------------------
(***************************************************************************)
(* Sums over finite sets, in which the models count what is reserved or    *)
(* spent, and the induction that facts about them rest on.                 *)
(*                                                                         *)
(* The induction theorems of the library take an operator as parameter;    *)
(* here the set of the numbers, or of the subsets, of which a statement    *)
(* holds takes its place, and WFMin, which is about sets, gives a least    *)
(* counterexample.                                                         *)
(***************************************************************************)
EXTENDS Naturals, FiniteSets, FiniteSetsExt, FiniteSetTheorems,
        WellFoundedInduction, TLAPS

\* What the elements of S weigh together.
SumOver(w, S) == MapThenSumSet(LAMBDA x : w[x], S)

-----------------------------------------------------------------------------
(* Induction.                                                              *)

\* The numbers are well founded, as a relation that is a set.
Smaller == {p \in Nat \X Nat : p[1] < p[2]}

LEMMA SmallerIsWellFounded == IsWellFoundedOn(Smaller, Nat)
<1>1. Smaller = OpToRel(<, Nat)
  BY DEF Smaller, OpToRel
<1> QED BY <1>1, NatLessThanWellFounded, Zenon

\* A set of numbers has a least one.
LEMMA LeastNumber ==
  ASSUME NEW T \in SUBSET Nat, T # {}
  PROVE  \E n \in T : \A m \in T : n <= m
<1>1. PICK n \in T : \A m \in T : <<m, n>> \notin Smaller
  BY SmallerIsWellFounded, WFMin, Zenon
<1>2. ASSUME NEW m \in T
      PROVE  n <= m
  <2>1. <<m, n>> \notin Smaller /\ m \in Nat /\ n \in Nat
    BY <1>1
  <2> QED BY <2>1 DEF Smaller
<1> QED BY <1>2

\* Induction, for a set of numbers in place of a predicate.
LEMMA NumberInduction ==
  ASSUME NEW G \in SUBSET Nat, 0 \in G, \A n \in G : n + 1 \in G
  PROVE  G = Nat
<1> SUFFICES ASSUME G # Nat PROVE FALSE
  OBVIOUS
<1>1. PICK n \in Nat \ G : \A m \in Nat \ G : n <= m
  <2>1. Nat \ G \in SUBSET Nat /\ Nat \ G # {}
    OBVIOUS
  <2> QED BY <2>1, LeastNumber
<1>2. n # 0
  BY <1>1
<1>3. n - 1 \in Nat /\ n - 1 < n
  BY <1>1, <1>2
<1>4. n - 1 \in G
  BY <1>1, <1>3
<1> QED BY <1>1, <1>3, <1>4

\* What is left of a finite set without one of its elements.
LEMMA OneLess ==
  ASSUME NEW S, IsFiniteSet(S), NEW x \in S
  PROVE  /\ IsFiniteSet(S \ {x})
         /\ Cardinality(S) \in Nat
         /\ Cardinality(S \ {x}) \in Nat
         /\ Cardinality(S) = Cardinality(S \ {x}) + 1
<1>1. IsFiniteSet(S \ {x}) /\ Cardinality(S \ {x}) = Cardinality(S) - 1
  BY FS_RemoveElement
<1>2. Cardinality(S) \in Nat /\ Cardinality(S \ {x}) \in Nat
  BY <1>1, FS_CardinalityType, Zenon
<1> QED BY <1>1, <1>2

\* Induction over the subsets of a finite set: what holds of a set when it holds
\* of the set without any one of its elements, holds of all.
LEMMA SubsetInduction ==
  ASSUME NEW U, IsFiniteSet(U), NEW G \in SUBSET SUBSET U,
         \A S \in SUBSET U : (\A x \in S : S \ {x} \in G) => S \in G
  PROVE  G = SUBSET U
<1> SUFFICES ASSUME G # SUBSET U PROVE FALSE
  OBVIOUS
<1> DEFINE B == (SUBSET U) \ G
           T == {Cardinality(S) : S \in B}
<1>1. ASSUME NEW S \in SUBSET U
      PROVE  IsFiniteSet(S) /\ Cardinality(S) \in Nat
  BY FS_Subset, FS_CardinalityType
<1>2. T \in SUBSET Nat /\ T # {}
  <2>1. B # {}
    OBVIOUS
  <2> QED BY <1>1, <2>1
<1>3. PICK n \in T : \A m \in T : n <= m
  <2> HIDE DEF T
  <2> QED BY <1>2, LeastNumber
<1>4. PICK S \in B : Cardinality(S) = n
  BY <1>3
<1>5. ASSUME NEW x \in S
      PROVE  S \ {x} \in G
  <2>1. IsFiniteSet(S) /\ S \ {x} \in SUBSET U
    BY <1>1, <1>4
  <2>2. Cardinality(S \ {x}) \in Nat /\ Cardinality(S) = Cardinality(S \ {x}) + 1
    BY <2>1, OneLess
  <2>3. ~(n <= Cardinality(S \ {x}))
    BY <2>2, <1>4
  <2>4. Cardinality(S \ {x}) \notin T
    <3> HIDE DEF T
    <3> QED BY <2>3, <1>3
  <2>5. S \ {x} \notin B
    BY <2>4
  <2> QED BY <2>1, <2>5
<1> QED BY <1>4, <1>5

-----------------------------------------------------------------------------
(* The sum as a function on the subsets of a set.                          *)

\* The element that MapThenSumSet takes out next.
First(S) == CHOOSE x \in S : TRUE

\* f is the function by which MapThenFoldSet is defined.
IsFold(f, w, U) ==
  f = [S \in SUBSET U |-> IF S = {} THEN 0 ELSE w[First(S)] + f[S \ {First(S)}]]

\* f maps every subset of U to the sum of its elements' weights.
Totals(f, w, U) ==
  \A S \in SUBSET U : f[S] = IF S = {} THEN 0 ELSE w[First(S)] + f[S \ {First(S)}]

\* The recursion defines a function, by induction on the size of the subsets.
LEMMA TotalsExist ==
  ASSUME NEW w, NEW U, IsFiniteSet(U)
  PROVE  \E f : IsFold(f, w, U)
<1> DEFINE Upto(f, n) ==
             \A S \in SUBSET U : Cardinality(S) <= n =>
               f[S] = IF S = {} THEN 0 ELSE w[First(S)] + f[S \ {First(S)}]
           G == {n \in Nat : \E f : Upto(f, n)}
<1>1. ASSUME NEW S \in SUBSET U
      PROVE  IsFiniteSet(S) /\ Cardinality(S) \in Nat /\ (Cardinality(S) = 0 <=> S = {})
  BY FS_Subset, FS_CardinalityType, FS_EmptySet
<1>2. ASSUME NEW S \in SUBSET U, S # {}
      PROVE  /\ First(S) \in S /\ S \ {First(S)} \in SUBSET U
             /\ Cardinality(S \ {First(S)}) \in Nat
             /\ Cardinality(S) = Cardinality(S \ {First(S)}) + 1
  <2>1. First(S) \in S
    BY <1>2 DEF First
  <2> QED BY <1>1, <2>1, OneLess
<1>3. 0 \in G
  <2> DEFINE f == [S \in SUBSET U |-> 0]
  <2>1. Upto(f, 0)
    BY <1>1
  <2> HIDE DEF f, Upto
  <2> QED BY <2>1
<1>4. ASSUME NEW n \in G
      PROVE  n + 1 \in G
  <2>1. PICK f : Upto(f, n)
    BY <1>4
  <2> DEFINE g == [S \in SUBSET U |-> IF Cardinality(S) <= n THEN f[S]
                                      ELSE w[First(S)] + f[S \ {First(S)}]]
  <2>2. ASSUME NEW S \in SUBSET U, Cardinality(S) <= n + 1
        PROVE  g[S] = IF S = {} THEN 0 ELSE w[First(S)] + g[S \ {First(S)}]
    <3>1. CASE S = {}
      <4>1. Cardinality(S) <= n
        BY <1>1, <3>1
      <4> QED BY <2>1, <3>1, <4>1
    <3>2. CASE S # {}
      <4>1. Cardinality(S \ {First(S)}) <= n /\ S \ {First(S)} \in SUBSET U
        BY <1>1, <1>2, <2>2, <3>2
      <4>2. g[S \ {First(S)}] = f[S \ {First(S)}]
        BY <4>1
      <4>3. g[S] = w[First(S)] + f[S \ {First(S)}]
        BY <2>1, <3>2
      <4> QED BY <3>2, <4>2, <4>3
    <3> QED BY <3>1, <3>2
  <2>3. Upto(g, n + 1)
    <3> HIDE DEF g
    <3> QED BY <2>2
  <2> HIDE DEF g, Upto
  <2> QED BY <2>3
<1>5. G = Nat
  <2>1. G \in SUBSET Nat
    OBVIOUS
  <2> HIDE DEF G
  <2> QED BY <1>3, <1>4, <2>1, NumberInduction
<1>6. PICK f : Upto(f, Cardinality(U))
  BY <1>1, <1>5
<1> DEFINE g == [S \in SUBSET U |-> f[S]]
<1>7. ASSUME NEW S \in SUBSET U
      PROVE  f[S] = IF S = {} THEN 0 ELSE w[First(S)] + g[S \ {First(S)}]
  <2>1. Cardinality(S) <= Cardinality(U)
    BY FS_Subset
  <2>2. f[S] = IF S = {} THEN 0 ELSE w[First(S)] + f[S \ {First(S)}]
    BY <1>6, <2>1
  <2> QED BY <1>2, <2>2
<1>8. g = [S \in SUBSET U |-> IF S = {} THEN 0 ELSE w[First(S)] + g[S \ {First(S)}]]
  BY <1>7
<1> HIDE DEF g
<1> QED BY <1>8 DEF IsFold

\* The sum of a set depends neither on the larger set it is taken from nor on what
\* the elements of others weigh.
LEMMA TotalsAgree ==
  ASSUME NEW v, NEW w, NEW f, NEW g, NEW U, IsFiniteSet(U),
         Totals(f, v, U), Totals(g, w, U), \A x \in U : v[x] = w[x]
  PROVE  f[U] = g[U]
<1> DEFINE G == {S \in SUBSET U : f[S] = g[S]}
<1>1. ASSUME NEW S \in SUBSET U, \A x \in S : S \ {x} \in G
      PROVE  S \in G
  <2>1. CASE S = {}
    BY <2>1 DEF Totals
  <2>2. CASE S # {}
    <3>1. First(S) \in S
      BY <2>2 DEF First
    <3>2. f[S \ {First(S)}] = g[S \ {First(S)}]
      BY <3>1, <1>1
    <3> QED BY <2>2, <3>1, <3>2 DEF Totals
  <2> QED BY <2>1, <2>2
<1>2. G = SUBSET U
  <2>1. G \in SUBSET SUBSET U
    OBVIOUS
  <2> HIDE DEF G
  <2> QED BY <1>1, <2>1, SubsetInduction
<1> QED BY <1>2

LEMMA SumIsATotal ==
  ASSUME NEW w, NEW U, IsFiniteSet(U)
  PROVE  \E f : Totals(f, w, U) /\ SumOver(w, U) = f[U]
<1> DEFINE f == CHOOSE f : IsFold(f, w, U)
<1>1. SumOver(w, U) = f[U]
  BY DEF SumOver, MapThenSumSet, MapThenFoldSet, First, IsFold
<1>2. IsFold(f, w, U)
  BY TotalsExist
<1> HIDE DEF f
<1>3. Totals(f, w, U)
  BY <1>2 DEF Totals, IsFold
<1> QED BY <1>1, <1>3

-----------------------------------------------------------------------------
(* Facts about sums.                                                       *)

\* Nothing sums up to zero.
LEMMA SumOfNothing ==
  ASSUME NEW w
  PROVE  SumOver(w, {}) = 0
<1>1. PICK f : Totals(f, w, {}) /\ SumOver(w, {}) = f[{}]
  BY SumIsATotal, FS_EmptySet
<1> QED BY <1>1 DEF Totals

\* The sum of a set and of what is left without the element that is taken first.
LEMMA SumOfFirst ==
  ASSUME NEW w, NEW S, IsFiniteSet(S), S # {}
  PROVE  /\ First(S) \in S
         /\ SumOver(w, S) = w[First(S)] + SumOver(w, S \ {First(S)})
<1> DEFINE R == S \ {First(S)}
<1>1. First(S) \in S
  BY DEF First
<1>2. IsFiniteSet(R)
  BY <1>1, OneLess
<1>3. PICK f : Totals(f, w, S) /\ SumOver(w, S) = f[S]
  BY SumIsATotal
<1>4. PICK g : Totals(g, w, R) /\ SumOver(w, R) = g[R]
  BY <1>2, SumIsATotal
<1>5. Totals(f, w, R)
  BY <1>3 DEF Totals
<1>6. f[R] = g[R]
  <2> HIDE DEF R
  <2> QED BY <1>2, <1>4, <1>5, TotalsAgree
<1>7. f[S] = w[First(S)] + f[R]
  BY <1>3 DEF Totals
<1> QED BY <1>1, <1>3, <1>4, <1>6, <1>7

\* A sum of natural numbers is one.
LEMMA SumType ==
  ASSUME NEW w, NEW U, IsFiniteSet(U), \A x \in U : w[x] \in Nat
  PROVE  SumOver(w, U) \in Nat
<1> DEFINE G == {S \in SUBSET U : SumOver(w, S) \in Nat}
<1>1. ASSUME NEW S \in SUBSET U, \A x \in S : S \ {x} \in G
      PROVE  S \in G
  <2>1. CASE S = {}
    BY <2>1, SumOfNothing
  <2>2. CASE S # {}
    <3>1. IsFiniteSet(S)
      BY FS_Subset
    <3>2. First(S) \in S /\ SumOver(w, S) = w[First(S)] + SumOver(w, S \ {First(S)})
      BY <2>2, <3>1, SumOfFirst
    <3>3. SumOver(w, S \ {First(S)}) \in Nat /\ w[First(S)] \in Nat
      BY <1>1, <3>2
    <3> QED BY <3>2, <3>3
  <2> QED BY <2>1, <2>2
<1>2. G = SUBSET U
  <2>1. G \in SUBSET SUBSET U
    OBVIOUS
  <2> HIDE DEF G
  <2> QED BY <1>1, <2>1, SubsetInduction
<1> QED BY <1>2

\* Whichever element is taken out first, the sum is the same.
LEMMA SumWithout ==
  ASSUME NEW w, NEW U, IsFiniteSet(U), \A x \in U : w[x] \in Nat
  PROVE  \A x \in U : SumOver(w, U) = w[x] + SumOver(w, U \ {x})
<1> DEFINE G == {S \in SUBSET U : \A x \in S : SumOver(w, S) = w[x] + SumOver(w, S \ {x})}
<1>1. ASSUME NEW S \in SUBSET U, \A x \in S : S \ {x} \in G
      PROVE  S \in G
  <2> SUFFICES ASSUME NEW x \in S
               PROVE  SumOver(w, S) = w[x] + SumOver(w, S \ {x})
    OBVIOUS
  <2>1. IsFiniteSet(S)
    BY FS_Subset
  <2>2. First(S) \in S /\ SumOver(w, S) = w[First(S)] + SumOver(w, S \ {First(S)})
    BY <2>1, SumOfFirst
  <2>3. CASE First(S) = x
    BY <2>2, <2>3
  <2>4. CASE First(S) # x
    <3> DEFINE p == First(S)
               R == (S \ {p}) \ {x}
    <3> HIDE DEF p
    <3>1. p \in S /\ p # x
      BY <2>2, <2>4 DEF p
    <3>2. S \ {p} \in G /\ S \ {x} \in G
      BY <1>1, <3>1
    <3>3. SumOver(w, S \ {p}) = w[x] + SumOver(w, R)
      BY <3>1, <3>2
    <3>4. (S \ {x}) \ {p} = R
      OBVIOUS
    <3>5. SumOver(w, S \ {x}) = w[p] + SumOver(w, R)
      BY <3>1, <3>2, <3>4
    <3>6. SumOver(w, R) \in Nat
      <4>1. IsFiniteSet(R) /\ \A y \in R : w[y] \in Nat
        BY FS_Subset
      <4> HIDE DEF R
      <4> QED BY <4>1, SumType
    <3>7. w[p] \in Nat /\ w[x] \in Nat
      BY <3>1
    <3>8. SumOver(w, S) = w[p] + SumOver(w, S \ {p})
      BY <2>2 DEF p
    <3> QED BY <3>3, <3>5, <3>6, <3>7, <3>8
  <2> QED BY <2>3, <2>4
<1>2. G = SUBSET U
  <2>1. G \in SUBSET SUBSET U
    OBVIOUS
  <2> HIDE DEF G
  <2> QED BY <1>1, <2>1, SubsetInduction
<1> QED BY <1>2

\* A part of a set sums up to no more than the set.
LEMMA SumOfAPart ==
  ASSUME NEW w, NEW U, IsFiniteSet(U), \A x \in U : w[x] \in Nat, NEW T \in SUBSET U
  PROVE  SumOver(w, T) <= SumOver(w, U)
<1> DEFINE G == {S \in SUBSET U : \A R \in SUBSET S : SumOver(w, R) <= SumOver(w, S)}
<1>1. ASSUME NEW S \in SUBSET U, \A x \in S : S \ {x} \in G
      PROVE  S \in G
  <2> SUFFICES ASSUME NEW R \in SUBSET S
               PROVE  SumOver(w, R) <= SumOver(w, S)
    OBVIOUS
  <2>1. IsFiniteSet(S) /\ IsFiniteSet(R)
    BY FS_Subset
  <2>2. SumOver(w, S) \in Nat /\ SumOver(w, R) \in Nat
    BY <2>1, SumType
  <2>3. CASE R = S
    BY <2>2, <2>3
  <2>4. CASE R # S
    <3>1. PICK x \in S : x \notin R
      BY <2>4
    <3>2. SumOver(w, S) = w[x] + SumOver(w, S \ {x})
      BY <2>1, SumWithout
    <3>3. SumOver(w, R) <= SumOver(w, S \ {x})
      BY <1>1, <3>1
    <3>4. SumOver(w, S \ {x}) \in Nat /\ w[x] \in Nat
      <4>1. IsFiniteSet(S \ {x}) /\ \A y \in S \ {x} : w[y] \in Nat
        BY <2>1, OneLess
      <4> QED BY <4>1, SumType
    <3> QED BY <2>2, <3>2, <3>3, <3>4
  <2> QED BY <2>3, <2>4
<1>2. G = SUBSET U
  <2>1. G \in SUBSET SUBSET U
    OBVIOUS
  <2> HIDE DEF G
  <2> QED BY <1>1, <2>1, SubsetInduction
<1> QED BY <1>2

\* A sum depends on what its own elements weigh.
LEMMA SumsAgree ==
  ASSUME NEW v, NEW w, NEW U, IsFiniteSet(U), \A x \in U : v[x] = w[x]
  PROVE  SumOver(v, U) = SumOver(w, U)
<1>1. PICK f : Totals(f, v, U) /\ SumOver(v, U) = f[U]
  BY SumIsATotal
<1>2. PICK g : Totals(g, w, U) /\ SumOver(w, U) = g[U]
  BY SumIsATotal
<1> QED BY <1>1, <1>2, TotalsAgree
=============================================================================
