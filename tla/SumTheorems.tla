----------------------------- MODULE SumTheorems ----------------------------
(***************************************************************************)
(* What the proofs need of arithmetic beyond single steps: induction over  *)
(* the natural numbers and over finite sets, drawn from the principle of   *)
(* the least element (no operator is a parameter, as the induction         *)
(* theorems of the library require); sums over finite sets, which the fold *)
(* of Functions defines by recursion; and products and quotients by a      *)
(* positive number.                                                        *)
(***************************************************************************)
EXTENDS Functions, FiniteSets, FiniteSetTheorems, WellFoundedInduction, TLAPS

(* Induction over the natural numbers, for a set T of them.                *)
LEMMA SetInduction ==
  ASSUME NEW T, T \subseteq Nat, 0 \in T, \A n \in T : n + 1 \in T
  PROVE  T = Nat
<1> DEFINE bad == Nat \ T
           less == {p \in Nat \X Nat : p[1] < p[2]}
<1>1. SUFFICES ASSUME bad # {} PROVE FALSE
  OBVIOUS
<1>2. IsWellFoundedOn(less, Nat)
  BY NatLessThanWellFounded, Zenon DEF OpToRel
<1>3. \E n \in bad : \A m \in bad : <<m, n>> \notin less
  <2> HIDE DEF less
  <2> QED
    BY <1>1, <1>2, WFMin
<1>4. PICK n \in bad : \A m \in bad : ~(m < n)
  BY <1>3
<1>5. n - 1 \in T
  BY <1>4
<1> QED
  BY <1>4, <1>5

(* A set of natural numbers has a least one.                               *)
LEMMA LeastExists ==
  ASSUME NEW T, T \subseteq Nat, T # {}
  PROVE  \E n \in T : \A m \in T : n <= m
<1> DEFINE less == {p \in Nat \X Nat : p[1] < p[2]}
<1>1. IsWellFoundedOn(less, Nat)
  BY NatLessThanWellFounded, Zenon DEF OpToRel
<1>2. \E n \in T : \A m \in T : <<m, n>> \notin less
  <2> HIDE DEF less
  <2> QED
    BY <1>1, WFMin
<1>3. PICK n \in T : \A m \in T : ~(m < n)
  BY <1>2
<1> QED
  BY <1>3

First(s) == CHOOSE x \in s : TRUE

(* The equation that defines the recursive function of MapThenFoldSet.     *)
Sums(g, f, D) ==
  g = [s \in D |-> IF s = {} THEN 0 ELSE f[First(s)] + g[s \ {First(s)}]]

Small(S, n) == {s \in SUBSET S : Cardinality(s) <= n}

(* The element a fold takes first is one of the set.                       *)
LEMMA FirstIsIn == ASSUME NEW s, s # {} PROVE First(s) \in s
BY DEF First

(* Without an element, a set is smaller by one.                            *)
LEMMA Smaller ==
  ASSUME NEW S, IsFiniteSet(S), NEW n \in Nat, NEW s \in Small(S, n + 1), NEW x \in s
  PROVE  s \ {x} \in Small(S, n)
<1>1. IsFiniteSet(s) /\ s \in SUBSET S
  BY FS_Subset DEF Small
<1>2. Cardinality(s \ {x}) = Cardinality(s) - 1 /\ Cardinality(s) \in Nat
  BY <1>1, FS_RemoveElement, FS_CardinalityType
<1> QED
  BY <1>1, <1>2 DEF Small

(* The equation of the fold has a solution: by induction over the size of  *)
(* the sets.                                                               *)
LEMMA SumsExist ==
  ASSUME NEW f, NEW S, IsFiniteSet(S)
  PROVE  \E g : Sums(g, f, SUBSET S)
<1> DEFINE T == {n \in Nat : \E g : Sums(g, f, Small(S, n))}
<1>1. 0 \in T
  <2> DEFINE g == [s \in Small(S, 0) |-> 0]
  <2>1. \A s \in Small(S, 0) : s = {}
    BY FS_Subset, FS_EmptySet, FS_CardinalityType DEF Small
  <2>2. Sums(g, f, Small(S, 0))
    BY <2>1 DEF Sums
  <2> QED
    BY <2>2
<1>2. ASSUME NEW n \in T PROVE n + 1 \in T
  <2>1. PICK g : Sums(g, f, Small(S, n))
    OBVIOUS
  <2> DEFINE h == [s \in Small(S, n + 1) |->
                     IF s = {} THEN 0 ELSE f[First(s)] + g[s \ {First(s)}]]
  <2>2. \A s \in Small(S, n) : s \in Small(S, n + 1)
    BY FS_Subset, FS_CardinalityType DEF Small
  <2>3. \A s \in Small(S, n) : h[s] = g[s]
    BY <2>1, <2>2 DEF Sums
  <2>4. \A s \in Small(S, n + 1) : s # {} => s \ {First(s)} \in Small(S, n)
    BY FirstIsIn, Smaller
  <2>5. h = [s \in Small(S, n + 1) |->
               IF s = {} THEN 0 ELSE f[First(s)] + h[s \ {First(s)}]]
    BY <2>3, <2>4
  <2>6. Sums(h, f, Small(S, n + 1))
    BY <2>5 DEF Sums
  <2> QED
    BY <2>6
<1>3. T = Nat
  <2> HIDE DEF T
  <2>1. T \subseteq Nat
    BY DEF T
  <2> QED
    BY <1>1, <1>2, <2>1, SetInduction
<1>4. Cardinality(S) \in Nat /\ Small(S, Cardinality(S)) = SUBSET S
  BY FS_Subset, FS_CardinalityType DEF Small
<1>5. Cardinality(S) \in T
  BY <1>3, <1>4
<1> QED
  BY <1>4, <1>5

(* Induction over the subsets of a finite set, for a set T of them.        *)
LEMMA SubsetInduction ==
  ASSUME NEW S, IsFiniteSet(S), NEW T, T \subseteq SUBSET S,
         \A s \in SUBSET S : (\A x \in s : s \ {x} \in T) => s \in T
  PROVE  T = SUBSET S
<1> DEFINE N == {n \in Nat : Small(S, n) \subseteq T}
<1>1. 0 \in N
  <2>1. \A s \in Small(S, 0) : s = {}
    BY FS_Subset, FS_EmptySet, FS_CardinalityType DEF Small
  <2> QED
    BY <2>1
<1>2. ASSUME NEW n \in N PROVE n + 1 \in N
  <2>1. ASSUME NEW s \in Small(S, n + 1) PROVE s \in T
    <3>1. \A x \in s : s \ {x} \in Small(S, n)
      BY Smaller
    <3> QED
      BY <3>1 DEF Small
  <2>2. \A s \in Small(S, n + 1) : s \in T
    BY <2>1
  <2> QED
    BY <2>2
<1>3. N = Nat
  <2> HIDE DEF N
  <2>1. N \subseteq Nat
    BY DEF N
  <2> QED
    BY <1>1, <1>2, <2>1, SetInduction
<1>4. Cardinality(S) \in N /\ Small(S, Cardinality(S)) = SUBSET S
  BY <1>3, FS_Subset, FS_CardinalityType DEF Small
<1> QED
  BY <1>4

(* Two such functions agree where their domains and summands do.           *)
LEMMA SumsAgree ==
  ASSUME NEW S, IsFiniteSet(S), NEW R \in SUBSET S, NEW f, NEW e, NEW g, NEW h,
         Sums(g, f, SUBSET S), Sums(h, e, SUBSET R), \A x \in R : f[x] = e[x]
  PROVE  g[R] = h[R]
<1> DEFINE T == {s \in SUBSET R : g[s] = h[s]}
<1>1. ASSUME NEW s \in SUBSET R, \A x \in s : s \ {x} \in T PROVE s \in T
  <2>1. CASE s = {}
    BY <2>1 DEF Sums
  <2>2. CASE s # {}
    <3>1. g[s] = f[First(s)] + g[s \ {First(s)}]
      BY <2>2 DEF Sums
    <3>2. h[s] = e[First(s)] + h[s \ {First(s)}]
      BY <2>2 DEF Sums
    <3>3. First(s) \in s
      BY <2>2, FirstIsIn
    <3> QED
      BY <1>1, <3>1, <3>2, <3>3
  <2> QED
    BY <2>1, <2>2
<1>2. IsFiniteSet(R)
  BY FS_Subset
<1>3. T = SUBSET R
  <2> HIDE DEF T
  <2>1. T \subseteq SUBSET R
    BY DEF T
  <2> QED
    BY <1>1, <1>2, <2>1, SubsetInduction
<1> QED
  BY <1>3

Iteration(f, S) == CHOOSE g : Sums(g, f, SUBSET S)

(* So the sum over a finite set satisfies it.                              *)
LEMMA SumIsIterated ==
  ASSUME NEW f, NEW S, IsFiniteSet(S)
  PROVE  /\ Sums(Iteration(f, S), f, SUBSET S)
         /\ SumFunctionOnSet(f, S) = Iteration(f, S)[S]
<1>1. Sums(Iteration(f, S), f, SUBSET S)
  BY SumsExist DEF Iteration
<1>2. SumFunctionOnSet(f, S) = Iteration(f, S)[S]
  BY Zenon DEF SumFunctionOnSet, FoldFunctionOnSet, MapThenFoldSet, Sums, First, Iteration
<1> QED
  BY <1>1, <1>2

(* The sum over no elements.                                               *)
LEMMA SumEmpty == ASSUME NEW f PROVE SumFunctionOnSet(f, {}) = 0
<1>1. IsFiniteSet({})
  BY FS_EmptySet
<1>2. Sums(Iteration(f, {}), f, SUBSET {}) /\ SumFunctionOnSet(f, {}) = Iteration(f, {})[{}]
  BY <1>1, SumIsIterated, Zenon
<1> QED
  BY <1>2 DEF Sums

(* Equal summands give equal sums.                                         *)
LEMMA SumCongruent ==
  ASSUME NEW S, IsFiniteSet(S), NEW f, NEW e, \A x \in S : f[x] = e[x]
  PROVE  SumFunctionOnSet(f, S) = SumFunctionOnSet(e, S)
<1>1. Sums(Iteration(f, S), f, SUBSET S) /\ Sums(Iteration(e, S), e, SUBSET S)
  BY SumIsIterated
<1>2. Iteration(f, S)[S] = Iteration(e, S)[S]
  <2> DEFINE g == Iteration(f, S)
             h == Iteration(e, S)
  <2>1. S \in SUBSET S /\ Sums(g, f, SUBSET S) /\ Sums(h, e, SUBSET S)
    BY <1>1
  <2> HIDE DEF g, h
  <2>2. g[S] = h[S]
    BY <2>1, SumsAgree
  <2> QED
    BY <2>2 DEF g, h
<1>3. SumFunctionOnSet(f, S) = Iteration(f, S)[S]
  BY SumIsIterated
<1>4. SumFunctionOnSet(e, S) = Iteration(e, S)[S]
  BY SumIsIterated
<1> QED
  BY <1>2, <1>3, <1>4, Zenon

(* The sum is the first summand and the sum of the rest.                   *)
LEMMA SumFirst ==
  ASSUME NEW S, IsFiniteSet(S), S # {}, NEW f
  PROVE  SumFunctionOnSet(f, S) = f[First(S)] + SumFunctionOnSet(f, S \ {First(S)})
<1> DEFINE R == S \ {First(S)}
<1>1. IsFiniteSet(R)
  BY FS_Subset
<1>2. Iteration(f, S)[S] = f[First(S)] + Iteration(f, S)[R]
  BY SumIsIterated DEF Sums
<1>3. Iteration(f, S)[R] = Iteration(f, R)[R]
  <2>1. Sums(Iteration(f, S), f, SUBSET S) /\ Sums(Iteration(f, R), f, SUBSET R)
    BY <1>1, SumIsIterated
  <2> HIDE DEF R
  <2>2. R \in SUBSET S
    BY DEF R
  <2> QED
    BY <2>1, <2>2, SumsAgree
<1> QED
  BY <1>1, <1>2, <1>3, SumIsIterated

(* A sum of integers is an integer.                                        *)
LEMMA SumInt ==
  ASSUME NEW S, IsFiniteSet(S), NEW f, \A x \in S : f[x] \in Int
  PROVE  SumFunctionOnSet(f, S) \in Int
<1> DEFINE T == {s \in SUBSET S : SumFunctionOnSet(f, s) \in Int}
<1>1. ASSUME NEW s \in SUBSET S, \A x \in s : s \ {x} \in T PROVE s \in T
  <2>1. CASE s = {}
    BY <2>1, SumEmpty
  <2>2. CASE s # {}
    <3>1. IsFiniteSet(s) /\ First(s) \in s
      BY <2>2, FS_Subset, FirstIsIn
    <3>2. SumFunctionOnSet(f, s) = f[First(s)] + SumFunctionOnSet(f, s \ {First(s)})
      BY <2>2, <3>1, SumFirst
    <3> QED
      BY <1>1, <3>1, <3>2
  <2> QED
    BY <2>1, <2>2
<1>2. T = SUBSET S
  <2> HIDE DEF T
  <2>1. T \subseteq SUBSET S
    BY DEF T
  <2> QED
    BY <1>1, <2>1, SubsetInduction
<1> QED
  BY <1>2

(* A sum of zeros.                                                         *)
LEMMA SumZero ==
  ASSUME NEW S, IsFiniteSet(S), NEW f, \A x \in S : f[x] = 0
  PROVE  SumFunctionOnSet(f, S) = 0
<1> DEFINE T == {s \in SUBSET S : SumFunctionOnSet(f, s) = 0}
<1>1. ASSUME NEW s \in SUBSET S, \A x \in s : s \ {x} \in T PROVE s \in T
  <2>1. CASE s = {}
    BY <2>1, SumEmpty
  <2>2. CASE s # {}
    <3>1. IsFiniteSet(s) /\ First(s) \in s
      BY <2>2, FS_Subset, FirstIsIn
    <3>2. SumFunctionOnSet(f, s) = f[First(s)] + SumFunctionOnSet(f, s \ {First(s)})
      BY <2>2, <3>1, SumFirst
    <3> QED
      BY <1>1, <3>1, <3>2
  <2> QED
    BY <2>1, <2>2
<1>2. T = SUBSET S
  <2> HIDE DEF T
  <2>1. T \subseteq SUBSET S
    BY DEF T
  <2> QED
    BY <1>1, <2>1, SubsetInduction
<1> QED
  BY <1>2

(* Any element may be taken out of a sum first.                            *)
THEOREM SumRemove ==
  ASSUME NEW S, IsFiniteSet(S), NEW f, \A x \in S : f[x] \in Int, NEW x \in S
  PROVE  SumFunctionOnSet(f, S) = f[x] + SumFunctionOnSet(f, S \ {x})
<1> DEFINE Sum(s) == SumFunctionOnSet(f, s)
           T == {s \in SUBSET S : \A y \in s : Sum(s) = f[y] + Sum(s \ {y})}
<1>1. \A s \in SUBSET S : IsFiniteSet(s) /\ Sum(s) \in Int
  <2> TAKE s \in SUBSET S
  <2>1. IsFiniteSet(s) /\ \A y \in s : f[y] \in Int
    BY FS_Subset
  <2> QED
    BY <2>1, SumInt
<1>2. ASSUME NEW s \in SUBSET S, \A y \in s : s \ {y} \in T, NEW y \in s
      PROVE  Sum(s) = f[y] + Sum(s \ {y})
  <2> DEFINE z == First(s)
             r == (s \ {y}) \ {z}
  <2>1. z \in s /\ Sum(s) = f[z] + Sum(s \ {z})
    BY <1>1, FirstIsIn, SumFirst
  <2>2. CASE y = z
    BY <2>1, <2>2
  <2>3. CASE y # z
    <3>1. (s \ {z}) \ {y} = r
      OBVIOUS
    <3>2. Sum(s \ {z}) = f[y] + Sum(r)
      BY <1>2, <2>1, <2>3, <3>1
    <3>3. Sum(s \ {y}) = f[z] + Sum(r)
      BY <1>2, <2>1, <2>3
    <3>4. f[y] \in Int /\ f[z] \in Int /\ Sum(r) \in Int
      BY <1>1, <2>1
    <3> HIDE DEF Sum, z, r
    <3> QED
      BY <2>1, <3>2, <3>3, <3>4
  <2> QED
    BY <2>2, <2>3
<1>3. \A s \in SUBSET S : (\A y \in s : s \ {y} \in T) => s \in T
  <2> HIDE DEF Sum
  <2> QED
    BY <1>2
<1>4. T = SUBSET S
  <2> HIDE DEF T
  <2>1. T \subseteq SUBSET S
    BY DEF T
  <2> QED
    BY <1>3, <2>1, SubsetInduction
<1> QED
  BY <1>4

(* A sum grows with its summands.                                          *)
THEOREM SumMonotone ==
  ASSUME NEW S, IsFiniteSet(S), NEW f, NEW e,
         \A x \in S : f[x] \in Int /\ e[x] \in Int /\ f[x] <= e[x]
  PROVE  SumFunctionOnSet(f, S) <= SumFunctionOnSet(e, S)
<1> DEFINE T == {s \in SUBSET S : SumFunctionOnSet(f, s) <= SumFunctionOnSet(e, s)}
<1>1. ASSUME NEW s \in SUBSET S, \A x \in s : s \ {x} \in T PROVE s \in T
  <2>1. CASE s = {}
    <3>1. SumFunctionOnSet(f, s) = 0 /\ SumFunctionOnSet(e, s) = 0
      BY <2>1, SumEmpty
    <3> QED
      BY <3>1
  <2>2. CASE s # {}
    <3> DEFINE z == First(s)
               r == s \ {z}
    <3>1. z \in s /\ IsFiniteSet(s) /\ IsFiniteSet(r)
      BY <2>2, FirstIsIn, FS_Subset
    <3>2. /\ SumFunctionOnSet(f, s) = f[z] + SumFunctionOnSet(f, r)
          /\ SumFunctionOnSet(e, s) = e[z] + SumFunctionOnSet(e, r)
      BY <2>2, <3>1, SumFirst
    <3>3. SumFunctionOnSet(f, r) \in Int /\ SumFunctionOnSet(e, r) \in Int
      <4>1. \A x \in r : f[x] \in Int /\ e[x] \in Int
        OBVIOUS
      <4> HIDE DEF r
      <4> QED
        BY <3>1, <4>1, SumInt
    <3>4. SumFunctionOnSet(f, r) <= SumFunctionOnSet(e, r)
      BY <1>1, <3>1
    <3>5. f[z] \in Int /\ e[z] \in Int /\ f[z] <= e[z]
      BY <3>1
    <3> HIDE DEF z, r
    <3> QED
      BY <3>2, <3>3, <3>4, <3>5
  <2> QED
    BY <2>1, <2>2
<1>2. T = SUBSET S
  <2> HIDE DEF T
  <2>1. T \subseteq SUBSET S
    BY DEF T
  <2> QED
    BY <1>1, <2>1, SubsetInduction
<1> QED
  BY <1>2

(* It grows strictly if one of them does.                                  *)
THEOREM SumStrict ==
  ASSUME NEW S, IsFiniteSet(S), NEW f, NEW e,
         \A x \in S : f[x] \in Int /\ e[x] \in Int /\ f[x] <= e[x],
         NEW x \in S, f[x] < e[x]
  PROVE  SumFunctionOnSet(f, S) < SumFunctionOnSet(e, S)
<1> DEFINE r == S \ {x}
<1>1. IsFiniteSet(r) /\ \A y \in r : f[y] \in Int /\ e[y] \in Int /\ f[y] <= e[y]
  BY FS_Subset
<1>2. /\ SumFunctionOnSet(f, S) = f[x] + SumFunctionOnSet(f, r)
      /\ SumFunctionOnSet(e, S) = e[x] + SumFunctionOnSet(e, r)
  BY SumRemove
<1> HIDE DEF r
<1>3. SumFunctionOnSet(f, r) <= SumFunctionOnSet(e, r)
  BY <1>1, SumMonotone
<1>4. SumFunctionOnSet(f, r) \in Int /\ SumFunctionOnSet(e, r) \in Int
  BY <1>1, SumInt
<1> QED
  BY <1>2, <1>3, <1>4

(* If one summand grows by d and the others stay, so does the sum.         *)
THEOREM SumChange ==
  ASSUME NEW S, IsFiniteSet(S), NEW f, \A y \in S : f[y] \in Int, NEW e, NEW d \in Int,
         NEW x \in S, e[x] = f[x] + d, \A y \in S \ {x} : e[y] = f[y]
  PROVE  SumFunctionOnSet(e, S) = SumFunctionOnSet(f, S) + d
<1> DEFINE r == S \ {x}
<1>1. IsFiniteSet(r) /\ \A y \in r : f[y] \in Int /\ e[y] = f[y]
  BY FS_Subset
<1>2. /\ SumFunctionOnSet(f, S) = f[x] + SumFunctionOnSet(f, r)
      /\ SumFunctionOnSet(e, S) = e[x] + SumFunctionOnSet(e, r)
  <2>1. \A y \in S : e[y] \in Int
    OBVIOUS
  <2> QED
    BY <2>1, SumRemove
<1> HIDE DEF r
<1>3. SumFunctionOnSet(f, r) = SumFunctionOnSet(e, r)
  BY <1>1, SumCongruent
<1>4. SumFunctionOnSet(f, r) \in Int
  BY <1>1, SumInt
<1> QED
  BY <1>2, <1>3, <1>4

(* One more of the same.                                                   *)
LEMMA OneMore ==
  ASSUME NEW n \in Nat, NEW c \in Int
  PROVE  (n + 1) * c = c + n * c
OBVIOUS

(* A sum of one value a for the elements of A and another, b, for the rest. *)
TwoValues(S, A, a, b) == Cardinality(S \cap A) * a + Cardinality(S \ A) * b

(* Such a sum is as many a as there are elements of A and as many b as     *)
(* there are others: what a run of weights adds up to, without unfolding   *)
(* the fold.                                                               *)
THEOREM SumOfTwo ==
  ASSUME NEW S, IsFiniteSet(S), NEW A, NEW a \in Int, NEW b \in Int, NEW f,
         \A x \in S : f[x] = IF x \in A THEN a ELSE b
  PROVE  SumFunctionOnSet(f, S) = TwoValues(S, A, a, b)
<1> DEFINE T == {s \in SUBSET S : SumFunctionOnSet(f, s)
                             = Cardinality(s \cap A) * a + Cardinality(s \ A) * b}
<1>1. ASSUME NEW s \in SUBSET S, \A x \in s : s \ {x} \in T PROVE s \in T
  <2>1. CASE s = {}
    <3>1. SumFunctionOnSet(f, s) = 0
      BY <2>1, SumEmpty
    <3>2. Cardinality(s \cap A) = 0 /\ Cardinality(s \ A) = 0
      BY <2>1, FS_EmptySet
    <3> QED
      BY <3>1, <3>2
  <2>2. CASE s # {}
    <3> DEFINE z == First(s)
               r == s \ {z}
               inside(u) == Cardinality(u \cap A)
               outside(u) == Cardinality(u \ A)
    <3>1. z \in s /\ IsFiniteSet(s) /\ IsFiniteSet(r)
      BY <2>2, FirstIsIn, FS_Subset
    <3>2. SumFunctionOnSet(f, s) = f[z] + SumFunctionOnSet(f, r)
      BY <2>2, <3>1, SumFirst
    <3>3. SumFunctionOnSet(f, r) = inside(r) * a + outside(r) * b
      BY <1>1, <3>1
    <3>4. /\ IsFiniteSet(s \cap A) /\ IsFiniteSet(s \ A)
          /\ IsFiniteSet(r \cap A) /\ IsFiniteSet(r \ A)
      BY <3>1, FS_Intersection, FS_Difference
    <3>5. inside(r) \in Nat /\ outside(r) \in Nat
      BY <3>4, FS_CardinalityType
    <3>6. CASE z \in A
      <4>1. s \cap A = (r \cap A) \cup {z} /\ z \notin r \cap A /\ s \ A = r \ A
        BY <3>1, <3>6
      <4>2. inside(s) = inside(r) + 1 /\ outside(s) = outside(r)
        BY <3>4, <4>1, FS_AddElement
      <4>3. f[z] = a
        BY <3>1, <3>6
      <4>4. (inside(r) + 1) * a = a + inside(r) * a
        BY <3>5, OneMore
      <4>5. inside(r) * a \in Int /\ outside(r) * b \in Int
        BY <3>5
      <4> HIDE DEF z, r, inside, outside
      <4>6. SumFunctionOnSet(f, s) = inside(s) * a + outside(s) * b
        BY <3>2, <3>3, <4>2, <4>3, <4>4, <4>5
      <4> QED
        BY <4>6 DEF inside, outside
    <3>7. CASE z \notin A
      <4>1. s \ A = (r \ A) \cup {z} /\ z \notin r \ A /\ s \cap A = r \cap A
        BY <3>1, <3>7
      <4>2. inside(s) = inside(r) /\ outside(s) = outside(r) + 1
        BY <3>4, <4>1, FS_AddElement
      <4>3. f[z] = b
        BY <3>1, <3>7
      <4>4. (outside(r) + 1) * b = b + outside(r) * b
        BY <3>5, OneMore
      <4>5. inside(r) * a \in Int /\ outside(r) * b \in Int
        BY <3>5
      <4> HIDE DEF z, r, inside, outside
      <4>6. SumFunctionOnSet(f, s) = inside(s) * a + outside(s) * b
        BY <3>2, <3>3, <4>2, <4>3, <4>4, <4>5
      <4> QED
        BY <4>6 DEF inside, outside
    <3> QED
      BY <3>6, <3>7
  <2> QED
    BY <2>1, <2>2
<1>2. T = SUBSET S
  <2> HIDE DEF T
  <2>1. T \subseteq SUBSET S
    BY DEF T
  <2> QED
    BY <1>1, <2>1, SubsetInduction
<1> QED
  BY <1>2 DEF TwoValues

-----------------------------------------------------------------------------
(* Products and quotients by a positive number *)

(* A product grows with its second factor.                                 *)
LEMMA Product ==
  ASSUME NEW a \in Nat, NEW b \in Int, NEW c \in Int, b <= c
  PROVE  a * b <= a * c
OBVIOUS

(* The quotient is the largest number that is not too large.               *)
LEMMA Quotient ==
  ASSUME NEW n \in Int, NEW d \in Nat \ {0}, NEW q \in Int
  PROVE  /\ n \div d \in Int
         /\ d * (n \div d) <= n /\ n < d * (n \div d) + d
         /\ d * q <= n => q <= n \div d
         /\ n <= d * q => n \div d <= q
<1> DEFINE r == n \div d
<1>1. r \in Int /\ d * r <= n /\ n < d * r + d
  OBVIOUS
<1> HIDE DEF r
<1>2. ASSUME d * q <= n, r + 1 <= q PROVE FALSE
  <2>1. d * (r + 1) <= d * q
    BY <1>1, <1>2, Product
  <2> QED
    BY <1>1, <1>2, <2>1
<1>3. ASSUME n <= d * q, q + 1 <= r PROVE FALSE
  <2>1. d * (q + 1) <= d * r
    BY <1>1, <1>3, Product
  <2> QED
    BY <1>1, <1>3, <2>1
<1>4. (d * q <= n => q <= r) /\ (n <= d * q => r <= q)
  BY <1>1, <1>2, <1>3
<1> QED
  BY <1>1, <1>4 DEF r

(* What is divided is the quotient and the remainder.                      *)
LEMMA Remainder ==
  ASSUME NEW n \in Int, NEW d \in Nat \ {0}
  PROVE  /\ n % d \in Nat /\ n % d < d
         /\ n = d * (n \div d) + (n % d)
OBVIOUS

(* A quotient grows with what is divided.                                  *)
LEMMA QuotientMonotone ==
  ASSUME NEW m \in Int, NEW n \in Int, m <= n, NEW d \in Nat \ {0}
  PROVE  m \div d <= n \div d
<1> DEFINE q == m \div d
<1>1. q \in Int /\ d * q <= m
  BY Quotient
<1>2. d * q \in Int
  BY <1>1
<1> HIDE DEF q
<1>3. d * q <= n
  BY <1>1, <1>2
<1>4. q <= n \div d
  BY <1>1, <1>3, Quotient
<1> QED
  BY <1>4 DEF q

(* The quotient and the remainder of a number that is given by them.       *)
LEMMA Quotients ==
  ASSUME NEW d \in Nat \ {0}, NEW q \in Int, NEW r \in 0..(d - 1)
  PROVE  (d * q + r) \div d = q /\ (d * q + r) % d = r
<1> DEFINE n == d * q + r
           s == n \div d
<1>1. d * q \in Int /\ n \in Int
  OBVIOUS
<1>2. d * q <= n /\ n <= d * q + d
  BY <1>1
<1>3. q <= s /\ s \in Int /\ d * s <= n
  BY <1>1, <1>2, Quotient
<1>4. ~(q + 1 <= s)
  <2>1. d * (q + 1) = d * q + d
    OBVIOUS
  <2> SUFFICES ASSUME q + 1 <= s PROVE FALSE
    OBVIOUS
  <2> HIDE DEF s
  <2>2. d * (q + 1) <= d * s
    BY <1>3, Product
  <2>3. d * s \in Int
    BY <1>3
  <2> QED
    BY <1>1, <1>3, <2>1, <2>2, <2>3 DEF n
<1>5. s = q
  BY <1>3, <1>4
<1>6. n = d * s + (n % d) /\ n % d \in Nat
  BY <1>1, Remainder
<1> QED
  BY <1>1, <1>5, <1>6

=============================================================================
