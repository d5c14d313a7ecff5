----------------------------- MODULE DataLemmas -----------------------------
(***************************************************************************)
(* Facts about indices, finite sets and sums that the proofs share.        *)
(*                                                                         *)
(* The induction theorems of the library take a property as an operator;   *)
(* here a property is the SET of the indices, or of the subsets, that have *)
(* it, and induction is derived from the well-foundedness of the finite    *)
(* subsets.  The sums are those of SumFunctionOnSet of the community       *)
(* module Functions: its recursion takes the elements in the order CHOOSE  *)
(* gives them; it is shown to have a solution, and the order not to matter.*)
(***************************************************************************)
EXTENDS Integers, Functions, FiniteSetTheorems, TLAPS

(* A nonempty set of naturals has a least element: the intervals 0..k of   *)
(* its elements k have a minimal one under strict inclusion.               *)
LEMMA LeastNatural ==
  ASSUME NEW T \in SUBSET Nat, T # {}
  PROVE  \E m \in T : \A k \in T : m <= k
<1> DEFINE F == {0..k : k \in T}
           R == StrictSubsetOrdering(Nat)
<1>1. F \subseteq FiniteSubsetsOf(Nat)
  <2>1. SUFFICES ASSUME NEW k \in T PROVE 0..k \in FiniteSubsetsOf(Nat)
    OBVIOUS
  <2>2. k \in Int /\ 0 \in Int
    OBVIOUS
  <2>3. IsFiniteSet(0..k)
    BY <2>2, FS_Interval
  <2>4. 0..k \in SUBSET Nat
    OBVIOUS
  <2> QED BY <2>3, <2>4 DEF FiniteSubsetsOf
<1>2. F # {}
  OBVIOUS
<1>3. IsWellFoundedOn(R, FiniteSubsetsOf(Nat))
  BY FS_StrictSubsetOrderingWellFounded
<1> HIDE DEF F, R
<1>4. \E x \in F : \A y \in F : <<y, x>> \notin R
  BY <1>1, <1>2, <1>3, WFMin
<1>5. PICK m \in T : \A y \in F : <<y, 0..m>> \notin R
  BY <1>4 DEF F
<1>6. ASSUME NEW k \in T, k < m PROVE FALSE
  <2>1. 0..k \in F
    BY DEF F
  <2>2. /\ 0..k \in SUBSET Nat /\ 0..m \in SUBSET Nat
        /\ 0..k \subseteq 0..m
        /\ m \in 0..m /\ m \notin 0..k
    BY <1>6
  <2>3. <<0..k, 0..m>> \in R
    BY <2>2 DEF R, StrictSubsetOrdering
  <2> QED BY <2>1, <2>3, <1>5
<1> QED BY <1>6

(* Induction over 0..n: T holds the indices the property has been shown of. *)
LEMMA IndexInduction ==
  ASSUME NEW T, NEW n \in Nat,
         0 \in T,
         \A i \in 1..n : (i - 1) \in T => i \in T
  PROVE  \A i \in 0..n : i \in T
<1> DEFINE B == {i \in 0..n : i \notin T}
<1>1. SUFFICES ASSUME B # {} PROVE FALSE
  OBVIOUS
<1>2. PICK m \in B : \A k \in B : m <= k
  <2>1. B \in SUBSET Nat
    OBVIOUS
  <2> HIDE DEF B
  <2> QED BY <2>1, <1>1, LeastNatural
<1>3. m \in 1..n /\ m - 1 \in 0..n /\ m - 1 \notin B
  BY <1>2
<1> QED BY <1>3, <1>2

-----------------------------------------------------------------------------
(* Induction over the subsets of a finite set, for a property given as the *)
(* collection T of the subsets that have it.                               *)
LEMMA SubsetInduction ==
  ASSUME NEW S, IsFiniteSet(S), NEW T,
         \A A \in SUBSET S : (\A x \in A : A \ {x} \in T) => A \in T
  PROVE  \A A \in SUBSET S : A \in T
<1> DEFINE F == {A \in SUBSET S : A \notin T}
           R == StrictSubsetOrdering(S)
<1>1. SUFFICES ASSUME F # {} PROVE FALSE
  OBVIOUS
<1>2. F \subseteq FiniteSubsetsOf(S)
  <2>1. \A A \in SUBSET S : IsFiniteSet(A)
    BY FS_Subset
  <2> QED BY <2>1 DEF FiniteSubsetsOf
<1>3. IsWellFoundedOn(R, FiniteSubsetsOf(S))
  BY FS_StrictSubsetOrderingWellFounded
<1> HIDE DEF F, R
<1>4. PICK A \in F : \A B \in F : <<B, A>> \notin R
  BY <1>1, <1>2, <1>3, WFMin
<1>5. ASSUME NEW x \in A PROVE A \ {x} \in T
  <2>1. SUFFICES ASSUME A \ {x} \notin T PROVE FALSE
    OBVIOUS
  <2>2. A \in SUBSET S /\ A \ {x} \in SUBSET S /\ A \ {x} # A
    BY <1>5 DEF F
  <2>3. A \ {x} \in F
    BY <2>1, <2>2 DEF F
  <2>4. <<A \ {x}, A>> \in R
    BY <2>2 DEF R, StrictSubsetOrdering
  <2> QED BY <2>3, <2>4, <1>4
<1> QED BY <1>5 DEF F

-----------------------------------------------------------------------------
(* The recursion. *)
PickOf(s) == CHOOSE x \in s : TRUE

SolvesSum(h, f, S) ==
  h = [s \in SUBSET S |->
         IF s = {} THEN 0 ELSE f[PickOf(s)] + h[s \ {PickOf(s)}]]

LEMMA SumUnfolded ==
  ASSUME NEW f, NEW S
  PROVE  SumFunctionOnSet(f, S) = (CHOOSE h : SolvesSum(h, f, S))[S]
BY DEF SumFunctionOnSet, FoldFunctionOnSet, MapThenFoldSet, SolvesSum, PickOf

LEMMA PickIn == ASSUME NEW s, s # {} PROVE PickOf(s) \in s
BY DEF PickOf

LEMMA SolutionShape ==
  ASSUME NEW h, NEW f, NEW S, SolvesSum(h, f, S)
  PROVE  h = [s \in SUBSET S |-> h[s]] /\ h[{}] = 0
BY DEF SolvesSum

LEMMA SolutionStep ==
  ASSUME NEW h, NEW f, NEW S, SolvesSum(h, f, S), NEW s \in SUBSET S, s # {}
  PROVE  h[s] = f[PickOf(s)] + h[s \ {PickOf(s)}]
BY DEF SolvesSum

(* A solution on a set restricts to each subset. *)
LEMMA SolutionRestricts ==
  ASSUME NEW h, NEW f, NEW S, SolvesSum(h, f, S), NEW A \in SUBSET S
  PROVE  SolvesSum([s \in SUBSET A |-> h[s]], f, A)
<1> DEFINE g == [s \in SUBSET A |-> h[s]]
<1>2. ASSUME NEW s \in SUBSET A
      PROVE  g[s] = IF s = {} THEN 0 ELSE f[PickOf(s)] + g[s \ {PickOf(s)}]
  <2>1. CASE s = {}
    BY <2>1, SolutionShape
  <2>2. CASE s # {}
    <3>1. s \in SUBSET S /\ s \ {PickOf(s)} \in SUBSET A
      OBVIOUS
    <3>2. h[s] = f[PickOf(s)] + h[s \ {PickOf(s)}]
      BY <2>2, <3>1, SolutionStep
    <3> QED BY <2>2, <3>1, <3>2
  <2> QED BY <2>1, <2>2
<1>3. g = [s \in SUBSET A |-> g[s]]
  OBVIOUS
<1> HIDE DEF g
<1>4. g = [s \in SUBSET A |->
             IF s = {} THEN 0 ELSE f[PickOf(s)] + g[s \ {PickOf(s)}]]
  BY <1>2, <1>3
<1> QED BY <1>4 DEF SolvesSum, g

(* Two solutions agree where both are defined. *)
LEMMA SolutionsAgree ==
  ASSUME NEW S, IsFiniteSet(S), NEW f, NEW g, NEW h,
         SolvesSum(g, f, S), SolvesSum(h, f, S)
  PROVE  g = h
<1> DEFINE T == {A \in SUBSET S : g[A] = h[A]}
<1>1. ASSUME NEW A \in SUBSET S, \A x \in A : A \ {x} \in T PROVE A \in T
  <2>1. CASE A = {}
    BY <2>1, SolutionShape
  <2>2. CASE A # {}
    <3>1. A \ {PickOf(A)} \in T
      BY <1>1, <2>2, PickIn
    <3>2. g[A] = f[PickOf(A)] + g[A \ {PickOf(A)}]
      BY <2>2, SolutionStep
    <3>3. h[A] = f[PickOf(A)] + h[A \ {PickOf(A)}]
      BY <2>2, SolutionStep
    <3> QED BY <3>1, <3>2, <3>3
  <2> QED BY <2>1, <2>2
<1> HIDE DEF T
<1>2. \A A \in SUBSET S : A \in T
  BY <1>1, SubsetInduction
<1>3. g = [s \in SUBSET S |-> g[s]] /\ h = [s \in SUBSET S |-> h[s]]
  BY SolutionShape
<1>4. \A s \in SUBSET S : g[s] = h[s]
  BY <1>2 DEF T
<1> QED BY <1>3, <1>4

LEMMA SolutionExists ==
  ASSUME NEW S, IsFiniteSet(S), NEW f
  PROVE  \E h : SolvesSum(h, f, S)
<1> DEFINE T == {A \in SUBSET S : \E h : SolvesSum(h, f, A)}
           Value(s) == (CHOOSE h : SolvesSum(h, f, s))[s]
<1>1. ASSUME NEW A \in SUBSET S, \A x \in A : A \ {x} \in T PROVE A \in T
  <2>1. CASE A = {}
    <3>1. SolvesSum([s \in SUBSET A |-> 0], f, A)
      BY <2>1 DEF SolvesSum
    <3> QED BY <3>1
  <2>2. CASE A # {}
    <3>1. ASSUME NEW s \in SUBSET A, s # A PROVE \E h : SolvesSum(h, f, s)
      <4>1. PICK x \in A : x \notin s
        BY <3>1
      <4>2. PICK h : SolvesSum(h, f, A \ {x})
        BY <1>1
      <4>3. s \in SUBSET (A \ {x})
        BY <4>1
      <4> QED BY <4>2, <4>3, SolutionRestricts
    <3>2. ASSUME NEW s \in SUBSET A, s # A, s # {}
          PROVE  Value(s) = f[PickOf(s)] + Value(s \ {PickOf(s)})
      <4> DEFINE h == CHOOSE h : SolvesSum(h, f, s)
                 r == s \ {PickOf(s)}
                 g == CHOOSE g : SolvesSum(g, f, r)
      <4>1. SolvesSum(h, f, s)
        BY <3>1, <3>2
      <4>2. r \in SUBSET s /\ r \in SUBSET A /\ r # A
        BY <3>2
      <4>3. SolvesSum(g, f, r)
        BY <3>1, <4>2
      <4> HIDE DEF h, g, r
      <4>4. SolvesSum([t \in SUBSET r |-> h[t]], f, r)
        BY <4>1, <4>2, SolutionRestricts
      <4>5. IsFiniteSet(r)
        BY <4>2, FS_Subset
      <4>6. [t \in SUBSET r |-> h[t]] = g
        BY <4>3, <4>4, <4>5, SolutionsAgree
      <4>7. h[r] = g[r]
        BY <4>6
      <4>8. h[s] = f[PickOf(s)] + h[r]
        BY <4>1, <3>2, SolutionStep DEF r
      <4>9. h[s] = Value(s) /\ g[r] = Value(r)
        BY DEF h, g
      <4> QED BY <4>7, <4>8, <4>9 DEF r
    <3>3. Value({}) = 0
      <4>1. SolvesSum(CHOOSE h : SolvesSum(h, f, {}), f, {})
        BY <3>1, <2>2
      <4> QED BY <4>1, SolutionShape
    <3> DEFINE k == [s \in SUBSET A |->
                 IF s = A THEN f[PickOf(A)] + Value(A \ {PickOf(A)}) ELSE Value(s)]
    <3> HIDE DEF Value
    <3>4. ASSUME NEW s \in SUBSET A, s # {}
          PROVE  /\ s \ {PickOf(s)} \in SUBSET A
                 /\ s \ {PickOf(s)} # A
      BY <3>4, PickIn
    <3>5. ASSUME NEW s \in SUBSET A
          PROVE  k[s] = IF s = {} THEN 0 ELSE f[PickOf(s)] + k[s \ {PickOf(s)}]
      BY <3>2, <3>3, <3>4, <2>2
    <3>6. k = [s \in SUBSET A |-> k[s]]
      OBVIOUS
    <3> HIDE DEF k
    <3>7. k = [s \in SUBSET A |->
                 IF s = {} THEN 0 ELSE f[PickOf(s)] + k[s \ {PickOf(s)}]]
      BY <3>5, <3>6
    <3>8. SolvesSum(k, f, A)
      BY <3>7 DEF SolvesSum
    <3> QED BY <3>8
  <2> QED BY <2>1, <2>2
<1> HIDE DEF T
<1>2. \A A \in SUBSET S : A \in T
  BY <1>1, SubsetInduction
<1> QED BY <1>2 DEF T

-----------------------------------------------------------------------------
(* The sum over a nonempty set is that of its pick and of the rest. *)
LEMMA SumStep ==
  ASSUME NEW S, IsFiniteSet(S), NEW f
  PROVE  /\ S = {} => SumFunctionOnSet(f, S) = 0
         /\ S # {} => SumFunctionOnSet(f, S)
                        = f[PickOf(S)] + SumFunctionOnSet(f, S \ {PickOf(S)})
<1> DEFINE h == CHOOSE h : SolvesSum(h, f, S)
           r == S \ {PickOf(S)}
           g == CHOOSE g : SolvesSum(g, f, r)
<1>1. SolvesSum(h, f, S) /\ SumFunctionOnSet(f, S) = h[S]
  BY SolutionExists, SumUnfolded
<1>2. IsFiniteSet(r) /\ r \in SUBSET S
  BY FS_Subset
<1>3. SolvesSum(g, f, r) /\ SumFunctionOnSet(f, r) = g[r]
  BY <1>2, SolutionExists, SumUnfolded
<1> HIDE DEF h, g, r
<1>4. CASE S = {}
  BY <1>1, <1>4, SolutionShape
<1>5. CASE S # {}
  <2>1. h[S] = f[PickOf(S)] + h[r]
    BY <1>1, <1>5, SolutionStep DEF r
  <2>2. SolvesSum([t \in SUBSET r |-> h[t]], f, r)
    BY <1>1, <1>2, SolutionRestricts
  <2>3. [t \in SUBSET r |-> h[t]] = g
    BY <1>2, <1>3, <2>2, SolutionsAgree
  <2>4. h[r] = g[r]
    BY <2>3
  <2> QED BY <1>1, <1>3, <1>5, <2>1, <2>4 DEF r
<1> QED BY <1>4, <1>5

(* A sum of naturals is a natural. *)
LEMMA SumNat ==
  ASSUME NEW S, IsFiniteSet(S), NEW f, \A x \in S : f[x] \in Nat
  PROVE  SumFunctionOnSet(f, S) \in Nat
<1> DEFINE T == {A \in SUBSET S : SumFunctionOnSet(f, A) \in Nat}
<1>1. ASSUME NEW A \in SUBSET S, \A x \in A : A \ {x} \in T PROVE A \in T
  <2>1. IsFiniteSet(A)
    BY FS_Subset
  <2>2. CASE A = {}
    <3>1. SumFunctionOnSet(f, A) = 0
      BY <2>1, <2>2, SumStep
    <3> QED BY <3>1
  <2>3. CASE A # {}
    <3>1. PickOf(A) \in A /\ f[PickOf(A)] \in Nat
      BY <2>3, PickIn
    <3>2. SumFunctionOnSet(f, A \ {PickOf(A)}) \in Nat
      BY <3>1, <1>1
    <3>3. SumFunctionOnSet(f, A)
            = f[PickOf(A)] + SumFunctionOnSet(f, A \ {PickOf(A)})
      BY <2>1, <2>3, SumStep
    <3> QED BY <3>1, <3>2, <3>3
  <2> QED BY <2>2, <2>3
<1> HIDE DEF T
<1>2. \A A \in SUBSET S : A \in T
  BY <1>1, SubsetInduction
<1> QED BY <1>2 DEF T

(* The order is immaterial: any element can be taken out first. *)
LEMMA SumSplit ==
  ASSUME NEW S, IsFiniteSet(S), NEW f, \A x \in S : f[x] \in Nat,
         NEW y \in S
  PROVE  SumFunctionOnSet(f, S) = f[y] + SumFunctionOnSet(f, S \ {y})
<1> DEFINE Sum(A) == SumFunctionOnSet(f, A)
           T == {A \in SUBSET S : \A x \in A : Sum(A) = f[x] + Sum(A \ {x})}
<1> HIDE DEF Sum
<1>0. \A A \in SUBSET S : IsFiniteSet(A) /\ Sum(A) \in Nat
  <2>1. \A A \in SUBSET S : IsFiniteSet(A)
    BY FS_Subset
  <2>2. ASSUME NEW A \in SUBSET S PROVE Sum(A) \in Nat
    BY <2>1, SumNat DEF Sum
  <2> QED BY <2>1, <2>2
<1>1. ASSUME NEW A \in SUBSET S, \A x \in A : A \ {x} \in T PROVE A \in T
  <2>1. SUFFICES ASSUME NEW x \in A PROVE Sum(A) = f[x] + Sum(A \ {x})
    OBVIOUS
  <2> DEFINE p == PickOf(A)
  <2>2. p \in A
    BY PickIn
  <2>3. Sum(A) = f[p] + Sum(A \ {p})
    BY <1>0, SumStep DEF Sum
  <2> HIDE DEF p
  <2>4. CASE x = p
    BY <2>3, <2>4
  <2>5. CASE x # p
    <3>1. Sum(A \ {p}) = f[x] + Sum((A \ {p}) \ {x})
      BY <1>1, <2>2, <2>5
    <3>2. Sum(A \ {x}) = f[p] + Sum((A \ {x}) \ {p})
      BY <1>1, <2>2, <2>5
    <3>3. (A \ {p}) \ {x} = (A \ {x}) \ {p}
      OBVIOUS
    <3>4. f[x] \in Nat /\ f[p] \in Nat /\ Sum((A \ {x}) \ {p}) \in Nat
      BY <1>0, <2>2
    <3> QED BY <2>3, <3>1, <3>2, <3>3, <3>4
  <2> QED BY <2>4, <2>5
<1> HIDE DEF T
<1>2. \A A \in SUBSET S : A \in T
  BY <1>1, SubsetInduction
<1> QED BY <1>2 DEF T, Sum

(* The sum depends on the values at the summed elements only. *)
LEMMA SumSame ==
  ASSUME NEW S, IsFiniteSet(S), NEW f, NEW g, \A x \in S : f[x] = g[x]
  PROVE  SumFunctionOnSet(f, S) = SumFunctionOnSet(g, S)
<1> DEFINE T == {A \in SUBSET S :
                   SumFunctionOnSet(f, A) = SumFunctionOnSet(g, A)}
<1>1. ASSUME NEW A \in SUBSET S, \A x \in A : A \ {x} \in T PROVE A \in T
  <2>1. IsFiniteSet(A)
    BY FS_Subset
  <2>2. CASE A = {}
    BY <2>1, <2>2, SumStep
  <2>3. CASE A # {}
    <3>1. PickOf(A) \in A /\ f[PickOf(A)] = g[PickOf(A)]
      BY <2>3, PickIn
    <3>2. SumFunctionOnSet(f, A \ {PickOf(A)}) = SumFunctionOnSet(g, A \ {PickOf(A)})
      BY <3>1, <1>1
    <3>3. /\ SumFunctionOnSet(f, A)
               = f[PickOf(A)] + SumFunctionOnSet(f, A \ {PickOf(A)})
          /\ SumFunctionOnSet(g, A)
               = g[PickOf(A)] + SumFunctionOnSet(g, A \ {PickOf(A)})
      BY <2>1, <2>3, SumStep
    <3> QED BY <3>1, <3>2, <3>3
  <2> QED BY <2>2, <2>3
<1> HIDE DEF T
<1>2. \A A \in SUBSET S : A \in T
  BY <1>1, SubsetInduction
<1> QED BY <1>2 DEF T

(* How a sum changes when one element enters, leaves or changes its value. *)
LEMMA SumOneChange ==
  ASSUME NEW S, IsFiniteSet(S), NEW f, \A x \in S : f[x] \in Nat,
         NEW S2, IsFiniteSet(S2), NEW f2, \A x \in S2 : f2[x] \in Nat,
         NEW y, S \ {y} = S2 \ {y}, \A x \in S \ {y} : f[x] = f2[x]
  PROVE  SumFunctionOnSet(f2, S2) + (IF y \in S THEN f[y] ELSE 0)
           = SumFunctionOnSet(f, S) + (IF y \in S2 THEN f2[y] ELSE 0)
<1> DEFINE rest == SumFunctionOnSet(f, S \ {y})
<1>1. IsFiniteSet(S \ {y})
  BY FS_Subset
<1>2. rest \in Nat
  BY <1>1, SumNat
<1>3. SumFunctionOnSet(f2, S2 \ {y}) = rest
  BY <1>1, SumSame
<1>4. SumFunctionOnSet(f, S) = (IF y \in S THEN f[y] ELSE 0) + rest
  <2>1. CASE y \in S
    BY <2>1, SumSplit
  <2>2. CASE y \notin S
    <3>1. S \ {y} = S
      BY <2>2
    <3>2. SumFunctionOnSet(f, S) = rest
      BY <3>1
    <3> HIDE DEF rest
    <3> QED BY <3>2, <2>2, <1>2
  <2> QED BY <2>1, <2>2
<1>5. SumFunctionOnSet(f2, S2) = (IF y \in S2 THEN f2[y] ELSE 0) + rest
  <2>1. CASE y \in S2
    BY <2>1, <1>3, SumSplit
  <2>2. CASE y \notin S2
    <3>1. S2 \ {y} = S2
      BY <2>2
    <3>2. SumFunctionOnSet(f2, S2) = rest
      BY <3>1, <1>3
    <3> HIDE DEF rest
    <3> QED BY <3>2, <2>2, <1>2
  <2> QED BY <2>1, <2>2
<1>6. (IF y \in S THEN f[y] ELSE 0) \in Nat /\ (IF y \in S2 THEN f2[y] ELSE 0) \in Nat
  OBVIOUS
<1> HIDE DEF rest
<1> QED BY <1>2, <1>4, <1>5, <1>6

(* No element exceeds the sum. *)
LEMMA SumBounds ==
  ASSUME NEW S, IsFiniteSet(S), NEW f, \A x \in S : f[x] \in Nat, NEW y \in S
  PROVE  f[y] <= SumFunctionOnSet(f, S)
<1>1. IsFiniteSet(S \ {y})
  BY FS_Subset
<1>2. SumFunctionOnSet(f, S \ {y}) \in Nat
  BY <1>1, SumNat
<1>3. SumFunctionOnSet(f, S) = f[y] + SumFunctionOnSet(f, S \ {y})
  BY SumSplit
<1> QED BY <1>2, <1>3

(* Larger terms have a larger sum. *)
LEMMA SumMonotone ==
  ASSUME NEW S, IsFiniteSet(S), NEW f, NEW g,
         \A x \in S : f[x] \in Nat /\ g[x] \in Nat /\ f[x] <= g[x]
  PROVE  SumFunctionOnSet(f, S) <= SumFunctionOnSet(g, S)
<1> DEFINE Sum(h, A) == SumFunctionOnSet(h, A)
           T == {A \in SUBSET S : Sum(f, A) <= Sum(g, A)}
<1> HIDE DEF Sum
<1>1. ASSUME NEW A \in SUBSET S, \A x \in A : A \ {x} \in T PROVE A \in T
  <2>1. IsFiniteSet(A)
    BY FS_Subset
  <2>2. CASE A = {}
    <3>1. Sum(f, A) = 0 /\ Sum(g, A) = 0
      BY <2>1, <2>2, SumStep DEF Sum
    <3> QED BY <3>1
  <2>3. CASE A # {}
    <3> DEFINE p == PickOf(A)
               B == A \ {p}
    <3>1. p \in A /\ f[p] \in Nat /\ g[p] \in Nat /\ f[p] <= g[p]
      BY <2>3, PickIn
    <3>2. Sum(f, B) <= Sum(g, B)
      BY <3>1, <1>1
    <3>3. Sum(f, B) \in Nat /\ Sum(g, B) \in Nat
      <4>1. IsFiniteSet(B) /\ B \subseteq S
        BY <2>1, FS_Subset
      <4> HIDE DEF B
      <4> QED BY <4>1, SumNat DEF Sum
    <3>4. Sum(f, A) = f[p] + Sum(f, B) /\ Sum(g, A) = g[p] + Sum(g, B)
      BY <2>1, <2>3, SumStep DEF Sum
    <3> HIDE DEF B, p
    <3> QED BY <3>1, <3>2, <3>3, <3>4
  <2> QED BY <2>2, <2>3
<1> HIDE DEF T
<1>2. \A A \in SUBSET S : A \in T
  BY <1>1, SubsetInduction
<1> QED BY <1>2 DEF T, Sum

(* Sums add pointwise. *)
LEMMA SumAdds ==
  ASSUME NEW S, IsFiniteSet(S), NEW f, NEW g, NEW h,
         \A x \in S : g[x] \in Nat /\ h[x] \in Nat /\ f[x] = g[x] + h[x]
  PROVE  SumFunctionOnSet(f, S) = SumFunctionOnSet(g, S) + SumFunctionOnSet(h, S)
<1> DEFINE Sum(k, A) == SumFunctionOnSet(k, A)
           T == {A \in SUBSET S : Sum(f, A) = Sum(g, A) + Sum(h, A)}
<1> HIDE DEF Sum
<1>1. ASSUME NEW A \in SUBSET S, \A x \in A : A \ {x} \in T PROVE A \in T
  <2>1. IsFiniteSet(A)
    BY FS_Subset
  <2>2. CASE A = {}
    <3>1. Sum(f, A) = 0 /\ Sum(g, A) = 0 /\ Sum(h, A) = 0
      BY <2>1, <2>2, SumStep DEF Sum
    <3> QED BY <3>1
  <2>3. CASE A # {}
    <3> DEFINE p == PickOf(A)
               B == A \ {p}
    <3>1. p \in A /\ g[p] \in Nat /\ h[p] \in Nat /\ f[p] = g[p] + h[p]
      BY <2>3, PickIn
    <3>2. Sum(f, B) = Sum(g, B) + Sum(h, B)
      BY <3>1, <1>1
    <3>3. Sum(g, B) \in Nat /\ Sum(h, B) \in Nat
      <4>1. IsFiniteSet(B) /\ B \subseteq S
        BY <2>1, FS_Subset
      <4> HIDE DEF B
      <4> QED BY <4>1, SumNat DEF Sum
    <3>4. /\ Sum(f, A) = f[p] + Sum(f, B) /\ Sum(g, A) = g[p] + Sum(g, B)
          /\ Sum(h, A) = h[p] + Sum(h, B)
      BY <2>1, <2>3, SumStep DEF Sum
    <3> HIDE DEF B, p
    <3> QED BY <3>1, <3>2, <3>3, <3>4
  <2> QED BY <2>2, <2>3
<1> HIDE DEF T
<1>2. \A A \in SUBSET S : A \in T
  BY <1>1, SubsetInduction
<1> QED BY <1>2 DEF T, Sum

(* Zeros may be left out of a sum. *)
LEMMA SumWithoutZeros ==
  ASSUME NEW S, IsFiniteSet(S), NEW f, \A x \in S : f[x] \in Nat,
         NEW A \in SUBSET S, \A x \in S \ A : f[x] = 0
  PROVE  SumFunctionOnSet(f, S) = SumFunctionOnSet(f, A)
<1> DEFINE Sum(B) == SumFunctionOnSet(f, B)
           T == {Z \in SUBSET (S \ A) : Sum(A \cup Z) = Sum(A)}
<1> HIDE DEF Sum
<1>1. ASSUME NEW Z \in SUBSET (S \ A), \A x \in Z : Z \ {x} \in T PROVE Z \in T
  <2>1. CASE Z = {}
    <3>1. A \cup Z = A
      BY <2>1
    <3> HIDE DEF Sum
    <3> QED BY <3>1
  <2>2. ASSUME NEW x \in Z PROVE Sum(A \cup Z) = Sum(A)
    <3>1. IsFiniteSet(A \cup Z) /\ A \cup Z \subseteq S
      BY FS_Subset
    <3>2. (A \cup Z) \ {x} = A \cup (Z \ {x}) /\ x \in A \cup Z /\ f[x] = 0
      OBVIOUS
    <3>3. Sum(A \cup Z) = f[x] + Sum((A \cup Z) \ {x})
      <4> DEFINE U == A \cup Z
      <4>1. IsFiniteSet(U) /\ \A y \in U : f[y] \in Nat
        BY <3>1
      <4>2. x \in U
        OBVIOUS
      <4> HIDE DEF U
      <4>3. Sum(U) = f[x] + Sum(U \ {x})
        BY <4>1, <4>2, SumSplit DEF Sum
      <4> QED BY <4>3 DEF U
    <3>4. Sum(A \cup (Z \ {x})) = Sum(A)
      BY <1>1, <2>2
    <3>5. Sum(A) \in Nat
      <4>1. IsFiniteSet(A)
        BY FS_Subset
      <4> QED BY <4>1, SumNat DEF Sum
    <3> QED BY <3>2, <3>3, <3>4, <3>5
  <2> QED BY <2>1, <2>2
<1>2. IsFiniteSet(S \ A)
  BY FS_Subset
<1> HIDE DEF T
<1>3. \A Z \in SUBSET (S \ A) : Z \in T
  BY <1>1, <1>2, SubsetInduction
<1>4. Sum(A \cup (S \ A)) = Sum(A)
  BY <1>3 DEF T
<1>5. A \cup (S \ A) = S
  OBVIOUS
<1> QED BY <1>4, <1>5 DEF Sum

(* A table's sum is the sum without a row and the sum of that row. *)
LEMMA SumRow ==
  ASSUME NEW S, IsFiniteSet(S), NEW I, IsFiniteSet(I), NEW f,
         \A p \in S \X I : f[p] \in Nat,
         NEW A \in SUBSET S, NEW s \in A
  PROVE  SumFunctionOnSet(f, A \X I)
           = SumFunctionOnSet(f, (A \ {s}) \X I)
               + SumFunctionOnSet([i \in I |-> f[<<s, i>>]], I)
<1> DEFINE Sum(h, Q) == SumFunctionOnSet(h, Q)
           row == [i \in I |-> f[<<s, i>>]]
           R == (A \ {s}) \X I
           U(B) == R \cup ({s} \X B)
           T == {B \in SUBSET I : Sum(f, U(B)) = Sum(f, R) + Sum(row, B)}
<1>1. /\ \A p \in R : f[p] \in Nat
      /\ \A i \in I : <<s, i>> \notin R /\ row[i] = f[<<s, i>>] /\ row[i] \in Nat
  OBVIOUS
<1>2. IsFiniteSet(R)
  <2> DEFINE D == A \ {s}
  <2>1. IsFiniteSet(D)
    BY FS_Subset
  <2> HIDE DEF D
  <2>2. IsFiniteSet(D \X I)
    BY <2>1, FS_Product
  <2> QED BY <2>2 DEF D
<1>3. A \X I = R \cup ({s} \X I)
  OBVIOUS
<1> HIDE DEF Sum, row, R
<1>4. Sum(f, R) \in Nat
  BY <1>1, <1>2, SumNat DEF Sum
<1>5. ASSUME NEW B \in SUBSET I, \A i \in B : B \ {i} \in T PROVE B \in T
  <2>1. IsFiniteSet(B)
    BY FS_Subset
  <2>2. CASE B = {}
    <3>1. U(B) = R
      BY <2>2
    <3>2. Sum(row, B) = 0
      BY <1>1, <2>1, <2>2, SumStep DEF Sum
    <3> HIDE DEF U
    <3> QED BY <1>4, <3>1, <3>2
  <2>3. ASSUME NEW i \in B PROVE Sum(f, U(B)) = Sum(f, R) + Sum(row, B)
    <3> DEFINE y == <<s, i>>
    <3>1. IsFiniteSet(U(B)) /\ (\A p \in U(B) : f[p] \in Nat) /\ y \in U(B)
      <4>1. IsFiniteSet({s} \X B)
        BY <2>1, FS_Singleton, FS_Product
      <4>2. IsFiniteSet(R \cup ({s} \X B))
        BY <1>2, <4>1, FS_Union
      <4>3. \A p \in {s} \X B : f[p] \in Nat
        <5> TAKE p \in {s} \X B
        <5>1. PICK k \in B : p = <<s, k>>
          OBVIOUS
        <5> QED BY <1>1, <5>1
      <4>4. y \in {s} \X B
        OBVIOUS
      <4> QED BY <1>1, <4>2, <4>3, <4>4
    <3>2. U(B) \ {y} = U(B \ {i})
      BY <1>1
    <3>3. f[y] = row[i] /\ row[i] \in Nat
      BY <1>1
    <3>4. Sum(f, U(B \ {i})) = Sum(f, R) + Sum(row, B \ {i})
      BY <1>5
    <3> HIDE DEF U, y
    <3>5. Sum(f, U(B)) = f[y] + Sum(f, U(B) \ {y})
      BY <3>1, SumSplit DEF Sum
    <3>6. Sum(row, B) = row[i] + Sum(row, B \ {i})
      BY <1>1, <2>1, SumSplit DEF Sum
    <3>7. Sum(row, B \ {i}) \in Nat
      <4>1. IsFiniteSet(B \ {i}) /\ \A k \in B \ {i} : row[k] \in Nat
        BY <1>1, <2>1, FS_Subset
      <4> QED BY <4>1, SumNat DEF Sum
    <3>8. Sum(f, U(B)) = row[i] + (Sum(f, R) + Sum(row, B \ {i}))
      BY <3>2, <3>3, <3>4, <3>5
    <3> DEFINE a == Sum(f, R)
               b == Sum(row, B \ {i})
               r == row[i]
    <3>9. a \in Nat /\ b \in Nat /\ r \in Nat
      BY <1>4, <3>3, <3>7
    <3>10. Sum(f, U(B)) = r + (a + b) /\ Sum(row, B) = r + b
      BY <3>6, <3>8
    <3> HIDE DEF a, b, r, T
    <3>11. Sum(f, U(B)) = a + Sum(row, B)
      BY <3>9, <3>10
    <3> QED BY <3>11 DEF a
  <2> QED BY <2>2, <2>3
<1> HIDE DEF T
<1>6. \A B \in SUBSET I : B \in T
  BY <1>5, SubsetInduction
<1> QED BY <1>3, <1>6 DEF T, Sum, R, row

(* A sum of rows is the sum over the whole table. *)
RowSum(f, s, I) == SumFunctionOnSet([i \in I |-> f[<<s, i>>]], I)

LEMMA SumOfRows ==
  ASSUME NEW S, IsFiniteSet(S), NEW I, IsFiniteSet(I), NEW f,
         \A p \in S \X I : f[p] \in Nat,
         NEW g, \A s \in S : g[s] = RowSum(f, s, I)
  PROVE  SumFunctionOnSet(f, S \X I) = SumFunctionOnSet(g, S)
<1> DEFINE Sum(h, A) == SumFunctionOnSet(h, A)
           row(s) == [i \in I |-> f[<<s, i>>]]
           T == {A \in SUBSET S : Sum(f, A \X I) = Sum(g, A)}
<1>0. \A s \in S : g[s] = Sum(row(s), I)
  BY DEF RowSum
<1>1. \A s \in S : \A i \in I : row(s)[i] = f[<<s, i>>] /\ row(s)[i] \in Nat
  OBVIOUS
<1> HIDE DEF Sum, row
<1>2. ASSUME NEW A \in SUBSET S, \A s \in A : A \ {s} \in T PROVE A \in T
  <2>1. IsFiniteSet(A)
    BY FS_Subset
  <2>2. CASE A = {}
    <3>1. A \X I = {} /\ IsFiniteSet({})
      BY <2>2, FS_EmptySet
    <3>2. Sum(g, {}) = 0 /\ Sum(f, {}) = 0
      BY <3>1, SumStep DEF Sum
    <3> QED BY <2>2, <3>1, <3>2
  <2>3. ASSUME A # {} PROVE Sum(f, A \X I) = Sum(g, A)
    <3> DEFINE s == PickOf(A)
               B == A \ {s}
               a == Sum(f, B \X I)
               b == Sum(row(s), I)
    <3>1. s \in A /\ s \in S
      BY <2>3, PickIn
    <3>2. a = Sum(g, B)
      BY <1>2, <3>1
    <3>3. Sum(g, A) = b + Sum(g, B)
      BY <1>0, <2>1, <2>3, <3>1, SumStep DEF Sum
    <3>4. Sum(f, A \X I) = a + b
      <4> HIDE DEF s
      <4> QED BY <3>1, SumRow DEF Sum, row
    <3>5. a \in Nat /\ b \in Nat
      <4>1. IsFiniteSet(B) /\ \A p \in B \X I : f[p] \in Nat
        BY <2>1, FS_Subset
      <4>2. \A i \in I : row(s)[i] \in Nat
        BY <1>1, <3>1
      <4> HIDE DEF B, s
      <4>3. IsFiniteSet(B \X I)
        BY <4>1, FS_Product
      <4> QED BY <4>1, <4>2, <4>3, SumNat DEF Sum
    <3> HIDE DEF a, b, B
    <3> QED BY <3>2, <3>3, <3>4, <3>5
  <2> QED BY <2>2, <2>3
<1> HIDE DEF T
<1>3. \A A \in SUBSET S : A \in T
  BY <1>2, SubsetInduction
<1> QED BY <1>3 DEF T, Sum

(* The sum of a whole function, as the specifications write it. *)
LEMMA SumOfFunction ==
  ASSUME NEW f
  PROVE  FoldFunction(+, 0, f) = SumFunctionOnSet(f, DOMAIN f)
BY DEF FoldFunction, SumFunctionOnSet

(* The values of a function on a finite set are finitely many. *)
LEMMA FiniteImage ==
  ASSUME NEW S, IsFiniteSet(S), NEW f
  PROVE  IsFiniteSet({f[x] : x \in S})
<1> DEFINE g == [x \in S |-> f[x]]
           T == {f[x] : x \in S}
<1>1. g \in Surjection(S, T)
  BY DEF Surjection, Range
<1> HIDE DEF g, T
<1>2. IsFiniteSet(T)
  BY <1>1, FS_Surjection
<1> QED BY <1>2 DEF T
=============================================================================
