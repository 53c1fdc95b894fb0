------------------------- MODULE CountingTheorems --------------------------
(***************************************************************************)
(* Induction over sets, what a cap on a finite set allows, and the laws of *)
(* the sum of a function over a finite set: what the proofs about the caps *)
(* of the maps and the byte budget of CSLSMapData rest on.                 *)
(*                                                                         *)
(* An induction principle that takes a predicate is beyond the provers, so *)
(* both principles here speak of the set of those for which a claim holds. *)
(***************************************************************************)
EXTENDS Integers, FiniteSets, Functions, FiniteSetTheorems, TLAPS

(* A set of natural numbers that holds 0 and every successor of its        *)
(* members is Nat: below a missing n, i |-> i + 1 would map a finite set   *)
(* into a smaller one.                                                     *)
LEMMA NatSetInduction ==
  ASSUME NEW T \in SUBSET Nat, 0 \in T, \A n \in T : n + 1 \in T
  PROVE  T = Nat
<1> SUFFICES ASSUME NEW n \in Nat, n \notin T PROVE FALSE
  OBVIOUS
<1> DEFINE A == {i \in T : i <= n}
           B == A \ {0}
           f == [i \in A |-> i + 1]
<1>1. IsFiniteSet(A) /\ IsFiniteSet(B) /\ Cardinality(A) \in Nat
  BY FS_BoundedSetOfNaturals, FS_Subset, FS_CardinalityType
<1>2. f \in Injection(A, B)
  <2>1. \A i \in A : f[i] \in B
    OBVIOUS
  <2>2. f \in [A -> B]
    BY <2>1
  <2>3. \A i, j \in A : f[i] = f[j] => i = j
    OBVIOUS
  <2> QED BY <2>2, <2>3 DEF Injection, IsInjective
<1>3. Cardinality(A) <= Cardinality(B)
  BY <1>1, <1>2, FS_Injection
<1>4. Cardinality(B) = Cardinality(A) - 1
  BY <1>1, FS_RemoveElement
<1> QED BY <1>1, <1>3, <1>4
(* The subsets of S of at most n elements. *)
Small(S, n) == {s \in SUBSET S : Cardinality(s) <= n}

(* What is left of a set is smaller once an element is taken out. *)
LEMMA Smaller ==
  ASSUME NEW S, IsFiniteSet(S), NEW n \in Nat, NEW s \in Small(S, n + 1),
         NEW x \in s
  PROVE  s \ {x} \in Small(S, n)
<1>1. IsFiniteSet(s) /\ Cardinality(s) \in Nat /\ s \subseteq S
  BY FS_Subset, FS_CardinalityType DEF Small
<1>2. Cardinality(s \ {x}) = Cardinality(s) - 1
  BY <1>1, FS_RemoveElement
<1>3. s \ {x} \subseteq S
  BY <1>1
<1>4. Cardinality(s \ {x}) <= n
  BY <1>1, <1>2 DEF Small
<1> QED BY <1>3, <1>4 DEF Small

(* Induction over the subsets of a finite set, stated for a set of them.  *)
LEMMA SubsetInduction ==
  ASSUME NEW S, IsFiniteSet(S), NEW P \in SUBSET (SUBSET S), {} \in P,
         \A s \in SUBSET S : s # {} /\ (\A x \in s : s \ {x} \in P) => s \in P
  PROVE  P = SUBSET S
<1> DEFINE T == {n \in Nat : Small(S, n) \subseteq P}
<1>1. 0 \in T
  <2>1. Small(S, 0) \subseteq {{}}
    BY FS_EmptySet, FS_Subset, FS_CardinalityType DEF Small
  <2> QED BY <2>1
<1>2. ASSUME NEW n \in T
      PROVE  n + 1 \in T
  <2>1. ASSUME NEW s \in Small(S, n + 1)
        PROVE  s \in P
    <3>1. n \in Nat /\ Small(S, n) \subseteq P
      OBVIOUS
    <3>2. \A x \in s : s \ {x} \in P
      BY <3>1, Smaller
    <3>3. s \in SUBSET S
      BY DEF Small
    <3> QED BY <3>2, <3>3
  <2> QED BY <2>1
<1>3. T = Nat
  <2> HIDE DEF T
  <2>1. T \in SUBSET Nat
    BY DEF T
  <2> QED BY <1>1, <1>2, <2>1, NatSetInduction
<1>4. Cardinality(S) \in Nat
  BY FS_CardinalityType
<1>5. SUBSET S \subseteq Small(S, Cardinality(S))
  BY FS_Subset DEF Small
<1>6. Small(S, Cardinality(S)) \subseteq P
  <2>1. Cardinality(S) \in T
    BY <1>3, <1>4
  <2> QED BY <2>1
<1> QED BY <1>5, <1>6

-----------------------------------------------------------------------------
(* A set of natural numbers that is not empty has a least member. *)
LEMMA NatMin ==
  ASSUME NEW A \in SUBSET Nat, A # {}
  PROVE  \E a \in A : \A b \in A : a <= b
<1> SUFFICES ASSUME \A a \in A : \E b \in A : b < a PROVE FALSE
  OBVIOUS
<1> DEFINE T == {n \in Nat : \A i \in A : i > n}
<1>1. 0 \in T
  OBVIOUS
<1>2. ASSUME NEW n \in T PROVE n + 1 \in T
  <2>1. \A i \in A : i >= n + 1
    OBVIOUS
  <2>2. n + 1 \notin A
    BY <2>1
  <2> QED BY <2>1, <2>2
<1>3. T = Nat
  <2> HIDE DEF T
  <2>1. T \in SUBSET Nat
    BY DEF T
  <2> QED BY <1>1, <1>2, <2>1, NatSetInduction
<1>4. PICK a : a \in A
  OBVIOUS
<1>5. a \in T
  <2>1. a \in Nat
    BY <1>4
  <2> HIDE DEF T
  <2> QED BY <1>3, <2>1
<1> QED BY <1>4, <1>5

(* Where something is to be evicted there is an entry closest to expiring. *)
LEMMA LeastExists ==
  ASSUME NEW S, S # {}, NEW f, NEW low \in Int,
         \A x \in S : f[x] \in Int /\ low <= f[x]
  PROVE  \E v \in S : \A w \in S : f[v] <= f[w]
<1> DEFINE A == {f[x] - low : x \in S}
<1>1. A \in SUBSET Nat /\ A # {}
  OBVIOUS
<1>2. PICK a \in A : \A b \in A : a <= b
  BY <1>1, NatMin
<1>3. PICK v \in S : a = f[v] - low
  OBVIOUS
<1>4. ASSUME NEW w \in S PROVE f[v] <= f[w]
  <2>1. f[w] - low \in A
    OBVIOUS
  <2>2. f[v] - low <= f[w] - low
    BY <1>2, <1>3, <2>1
  <2>3. f[v] \in Int /\ f[w] \in Int
    OBVIOUS
  <2> HIDE DEF A
  <2> QED BY <2>2, <2>3
<1> QED BY <1>4

(* The set fits a cap. *)
Within(S, cap) == IsFiniteSet(S) /\ Cardinality(S) <= cap

(* A part of what fits the cap fits it. *)
LEMMA WithinSubset ==
  ASSUME NEW cap \in Nat, NEW S, NEW R, R \subseteq S, Within(S, cap)
  PROVE  Within(R, cap)
<1>1. IsFiniteSet(R) /\ Cardinality(R) <= Cardinality(S)
  BY FS_Subset DEF Within
<1>2. Cardinality(R) \in Nat /\ Cardinality(S) \in Nat
  BY <1>1, FS_CardinalityType DEF Within
<1> QED BY <1>1, <1>2 DEF Within

(* Where the size test has passed there is room for one more. *)
LEMMA WithinAdd ==
  ASSUME NEW cap \in Nat, NEW S, NEW x, NEW R, IsFiniteSet(S),
         x \in S \/ Cardinality(S) < cap, Cardinality(S) <= cap,
         R \subseteq S \cup {x}
  PROVE  Within(R, cap)
<1>1. Cardinality(S) \in Nat
  BY FS_CardinalityType
<1>2. Within(S \cup {x}, cap)
  <2>1. CASE x \in S
    <3>1. S \cup {x} = S
      BY <2>1
    <3> QED BY <3>1 DEF Within
  <2>2. CASE x \notin S
    <3>1. IsFiniteSet(S \cup {x}) /\ Cardinality(S \cup {x}) = Cardinality(S) + 1
      BY <2>2, FS_AddElement
    <3> QED BY <1>1, <2>2, <3>1 DEF Within
  <2> QED BY <2>1, <2>2
<1> QED BY <1>2, WithinSubset

(* A full set takes one in for the one it gives up. *)
LEMMA WithinReplace ==
  ASSUME NEW cap \in Nat, NEW S, NEW x, NEW v \in S, NEW R, Within(S, cap),
         R \subseteq (S \ {v}) \cup {x}
  PROVE  Within(R, cap)
<1>1. Cardinality(S) \in Nat /\ IsFiniteSet(S \ {v})
  BY FS_CardinalityType, FS_Subset DEF Within
<1>2. Cardinality(S \ {v}) = Cardinality(S) - 1
  BY FS_RemoveElement DEF Within
<1>3. Cardinality(S \ {v}) < cap /\ Cardinality(S \ {v}) <= cap
  BY <1>1, <1>2 DEF Within
<1> QED BY <1>1, <1>3, WithinAdd

(* Nothing fits every cap. *)
LEMMA WithinEmpty ==
  ASSUME NEW cap \in Nat
  PROVE  Within({}, cap)
  BY FS_EmptySet DEF Within

-----------------------------------------------------------------------------
(* The element the fold of the library takes out of s next. *)
Picked(s) == CHOOSE x \in s : TRUE

(* One unfolding of the sum of f over s, where g sums the smaller sets. *)
SumStep(g, f, s) == IF s = {} THEN 0 ELSE f[Picked(s)] + g[s \ {Picked(s)}]

(* g sums f over every member of D. *)
SumsTo(g, f, D) == g = [s \in D |-> SumStep(g, f, s)]

(* A function that sums f over the subsets of S exists: the one for the    *)
(* subsets of n elements yields the one for n + 1.                         *)
LEMMA SumExists ==
  ASSUME NEW S, IsFiniteSet(S), NEW f
  PROVE  \E g : SumsTo(g, f, SUBSET S)
<1> DEFINE T == {n \in Nat : \E g : SumsTo(g, f, Small(S, n))}
<1>1. 0 \in T
  <2>1. Small(S, 0) = {{}}
    BY FS_EmptySet, FS_Subset, FS_CardinalityType DEF Small
  <2>2. SumsTo([s \in {{}} |-> 0], f, {{}})
    BY DEF SumsTo, SumStep
  <2> QED BY <2>1, <2>2
<1>2. ASSUME NEW n \in T
      PROVE  n + 1 \in T
  <2>1. n \in Nat /\ \E g : SumsTo(g, f, Small(S, n))
    OBVIOUS
  <2>2. PICK g : SumsTo(g, f, Small(S, n))
    BY <2>1
  <2> DEFINE h == [s \in Small(S, n + 1) |-> SumStep(g, f, s)]
  <2>3. ASSUME NEW s \in Small(S, n)
        PROVE  h[s] = g[s]
    <3>1. s \in Small(S, n + 1)
      <4>1. Cardinality(s) \in Nat
        BY FS_Subset, FS_CardinalityType DEF Small
      <4> QED BY <2>1, <4>1 DEF Small
    <3>2. g[s] = SumStep(g, f, s)
      BY <2>2 DEF SumsTo
    <3> QED BY <3>1, <3>2
  <2>4. ASSUME NEW s \in Small(S, n + 1)
        PROVE  SumStep(g, f, s) = SumStep(h, f, s)
    <3>1. CASE s = {}
      BY <3>1 DEF SumStep
    <3>2. CASE s # {}
      <4>1. Picked(s) \in s
        BY <3>2 DEF Picked
      <4>2. h[s \ {Picked(s)}] = g[s \ {Picked(s)}]
        BY <4>1, <2>1, <2>3, Smaller
      <4> HIDE DEF h
      <4> QED BY <4>2 DEF SumStep
    <3> QED BY <3>1, <3>2
  <2>5. h = [s \in Small(S, n + 1) |-> SumStep(h, f, s)]
    BY <2>4
  <2>6. SumsTo(h, f, Small(S, n + 1))
    BY <2>5 DEF SumsTo
  <2>7. n + 1 \in Nat
    BY <2>1
  <2> HIDE DEF h
  <2> QED BY <2>6, <2>7
<1>3. T = Nat
  <2> HIDE DEF T
  <2>1. T \in SUBSET Nat
    BY DEF T
  <2> QED BY <1>1, <1>2, <2>1, NatSetInduction
<1>4. Cardinality(S) \in Nat /\ Small(S, Cardinality(S)) = SUBSET S
  BY FS_CardinalityType, FS_Subset DEF Small
<1>5. Cardinality(S) \in T
  BY <1>3, <1>4
<1>6. PICK g : SumsTo(g, f, Small(S, Cardinality(S)))
  BY <1>5
<1> QED BY <1>4, <1>6

(* The sum of the library is the value of such a function. *)
LEMMA SumChosen ==
  ASSUME NEW S, IsFiniteSet(S), NEW f
  PROVE  \E g : SumsTo(g, f, SUBSET S) /\ SumFunctionOnSet(f, S) = g[S]
<1> DEFINE IsSum(g) == g = [s \in SUBSET S |-> IF s = {} THEN 0
                ELSE LET x == CHOOSE x \in s : TRUE IN f[x] + g[s \ {x}]]
<1>1. SumFunctionOnSet(f, S) = (CHOOSE g : IsSum(g))[S]
  BY DEF SumFunctionOnSet, FoldFunctionOnSet, MapThenFoldSet
<1>2. ASSUME NEW g PROVE SumsTo(g, f, SUBSET S) <=> IsSum(g)
  BY DEF SumsTo, SumStep, Picked
<1> HIDE DEF IsSum
<1>3. \E g : IsSum(g)
  BY <1>2, SumExists
<1>4. IsSum(CHOOSE g : IsSum(g))
  BY <1>3
<1> QED BY <1>1, <1>2, <1>4

(* Two functions that sum f agree wherever both sum it. *)
LEMMA SumUnique ==
  ASSUME NEW S, IsFiniteSet(S), NEW f, NEW g, NEW h, NEW A, NEW B,
         S \subseteq A, S \subseteq B,
         SumsTo(g, f, SUBSET A), SumsTo(h, f, SUBSET B)
  PROVE  g[S] = h[S]
<1> DEFINE P == {s \in SUBSET S : g[s] = h[s]}
<1>0. ASSUME NEW s \in SUBSET S
      PROVE  g[s] = SumStep(g, f, s) /\ h[s] = SumStep(h, f, s)
  <2>1. s \in SUBSET A /\ s \in SUBSET B
    OBVIOUS
  <2> QED BY <2>1 DEF SumsTo
<1>1. {} \in P
  BY <1>0 DEF SumStep
<1>2. ASSUME NEW s \in SUBSET S, s # {}, \A x \in s : s \ {x} \in P
      PROVE  s \in P
  <2>1. Picked(s) \in s
    BY <1>2 DEF Picked
  <2>2. g[s \ {Picked(s)}] = h[s \ {Picked(s)}]
    BY <2>1, <1>2
  <2> QED BY <1>0, <2>2 DEF SumStep
<1>3. P = SUBSET S
  <2> HIDE DEF P
  <2>1. P \in SUBSET (SUBSET S)
    BY DEF P
  <2> QED BY <1>1, <1>2, <2>1, SubsetInduction
<1> QED BY <1>3

(* The sum of nothing, and the recursion of the fold. *)
LEMMA SumUnfold ==
  ASSUME NEW S, IsFiniteSet(S), NEW f
  PROVE  SumFunctionOnSet(f, S)
           = IF S = {} THEN 0
             ELSE f[Picked(S)] + SumFunctionOnSet(f, S \ {Picked(S)})
<1>1. PICK g : SumsTo(g, f, SUBSET S) /\ SumFunctionOnSet(f, S) = g[S]
  BY SumChosen
<1>2. g[S] = SumStep(g, f, S)
  BY <1>1 DEF SumsTo
<1> DEFINE R == S \ {Picked(S)}
<1>3. IsFiniteSet(R)
  BY FS_Subset
<1>4. PICK h : SumsTo(h, f, SUBSET R) /\ SumFunctionOnSet(f, R) = h[R]
  BY <1>3, SumChosen
<1>5. g[R] = h[R]
  <2>1. R \subseteq S
    OBVIOUS
  <2> HIDE DEF R
  <2> QED BY <1>1, <1>3, <1>4, <2>1, SumUnique
<1> QED BY <1>1, <1>2, <1>4, <1>5 DEF SumStep

(* The sum of integers is an integer. *)
LEMMA SumType ==
  ASSUME NEW S, IsFiniteSet(S), NEW f, \A x \in S : f[x] \in Int
  PROVE  SumFunctionOnSet(f, S) \in Int
<1> DEFINE P == {s \in SUBSET S : SumFunctionOnSet(f, s) \in Int}
<1>1. {} \in P
  BY SumUnfold, FS_EmptySet
<1>2. ASSUME NEW s \in SUBSET S, s # {}, \A x \in s : s \ {x} \in P
      PROVE  s \in P
  <2>1. Picked(s) \in s
    BY <1>2 DEF Picked
  <2>2. IsFiniteSet(s)
    BY FS_Subset
  <2>3. SumFunctionOnSet(f, s)
          = f[Picked(s)] + SumFunctionOnSet(f, s \ {Picked(s)})
    BY <2>2, <1>2, SumUnfold
  <2>4. SumFunctionOnSet(f, s \ {Picked(s)}) \in Int /\ f[Picked(s)] \in Int
    BY <2>1, <1>2
  <2> QED BY <2>3, <2>4
<1>3. P = SUBSET S
  <2> HIDE DEF P
  <2>1. P \in SUBSET (SUBSET S)
    BY DEF P
  <2> QED BY <1>1, <1>2, <2>1, SubsetInduction
<1> QED BY <1>3

(* Any element can be taken out of a sum, not only the one the fold takes. *)
LEMMA SumRemove ==
  ASSUME NEW S, IsFiniteSet(S), NEW f, \A x \in S : f[x] \in Int
  PROVE  \A x \in S : SumFunctionOnSet(f, S)
                        = f[x] + SumFunctionOnSet(f, S \ {x})
<1> DEFINE Any(s) == \A x \in s : SumFunctionOnSet(f, s)
                                  = f[x] + SumFunctionOnSet(f, s \ {x})
           P == {s \in SUBSET S : Any(s)}
<1>1. {} \in P
  OBVIOUS
<1>2. ASSUME NEW s \in SUBSET S, s # {}, \A x \in s : s \ {x} \in P
      PROVE  s \in P
  <2> DEFINE p == Picked(s)
  <2>1. p \in s
    BY <1>2 DEF Picked
  <2>2. IsFiniteSet(s)
    BY FS_Subset
  <2>3. SumFunctionOnSet(f, s) = f[p] + SumFunctionOnSet(f, s \ {p})
    BY <2>2, <1>2, SumUnfold
  <2> HIDE DEF p
  <2>4. ASSUME NEW x \in s, x # p
        PROVE  SumFunctionOnSet(f, s) = f[x] + SumFunctionOnSet(f, s \ {x})
    <3> DEFINE r == s \ {x, p}
    <3>1. (s \ {x}) \ {p} = r /\ (s \ {p}) \ {x} = r
      OBVIOUS
    <3>2. Any(s \ {x}) /\ Any(s \ {p})
      BY <1>2, <2>1
    <3>3. p \in s \ {x} /\ x \in s \ {p}
      BY <2>1, <2>4
    <3>4. /\ SumFunctionOnSet(f, s \ {x}) = f[p] + SumFunctionOnSet(f, r)
          /\ SumFunctionOnSet(f, s \ {p}) = f[x] + SumFunctionOnSet(f, r)
      BY <3>1, <3>2, <3>3
    <3>5. SumFunctionOnSet(f, r) \in Int
      <4>1. IsFiniteSet(r) /\ \A y \in r : f[y] \in Int
        BY <2>2, FS_Subset
      <4> QED BY <4>1, SumType
    <3>6. f[p] \in Int /\ f[x] \in Int
      BY <2>1
    <3> HIDE DEF r
    <3> QED BY <2>3, <3>4, <3>5, <3>6
  <2>5. Any(s)
    BY <2>3, <2>4
  <2> QED BY <2>5
<1>3. P = SUBSET S
  <2> HIDE DEF P
  <2>1. P \in SUBSET (SUBSET S)
    BY DEF P
  <2> QED BY <1>1, <1>2, <2>1, SubsetInduction
<1>4. S \in P
  BY <1>3
<1> QED BY <1>4

(* Functions that agree on a set have the same sum over it. *)
LEMMA SumSame ==
  ASSUME NEW S, IsFiniteSet(S), NEW f, NEW g, \A x \in S : f[x] = g[x]
  PROVE  SumFunctionOnSet(f, S) = SumFunctionOnSet(g, S)
<1> DEFINE P == {s \in SUBSET S :
                  SumFunctionOnSet(f, s) = SumFunctionOnSet(g, s)}
<1>1. {} \in P
  BY SumUnfold, FS_EmptySet
<1>2. ASSUME NEW s \in SUBSET S, s # {}, \A x \in s : s \ {x} \in P
      PROVE  s \in P
  <2>1. Picked(s) \in s
    BY <1>2 DEF Picked
  <2>2. IsFiniteSet(s)
    BY FS_Subset
  <2>3. /\ SumFunctionOnSet(f, s)
             = f[Picked(s)] + SumFunctionOnSet(f, s \ {Picked(s)})
        /\ SumFunctionOnSet(g, s)
             = g[Picked(s)] + SumFunctionOnSet(g, s \ {Picked(s)})
    BY <2>2, <1>2, SumUnfold
  <2>4. SumFunctionOnSet(f, s \ {Picked(s)})
          = SumFunctionOnSet(g, s \ {Picked(s)})
    BY <2>1, <1>2
  <2> QED BY <2>1, <2>3, <2>4
<1>3. P = SUBSET S
  <2> HIDE DEF P
  <2>1. P \in SUBSET (SUBSET S)
    BY DEF P
  <2> QED BY <1>1, <1>2, <2>1, SubsetInduction
<1> QED BY <1>3

(* A sum of zeros is zero. *)
LEMMA SumZero ==
  ASSUME NEW S, IsFiniteSet(S), NEW f, \A x \in S : f[x] = 0
  PROVE  SumFunctionOnSet(f, S) = 0
<1> DEFINE P == {s \in SUBSET S : SumFunctionOnSet(f, s) = 0}
<1>1. {} \in P
  BY SumUnfold, FS_EmptySet
<1>2. ASSUME NEW s \in SUBSET S, s # {}, \A x \in s : s \ {x} \in P
      PROVE  s \in P
  <2>1. Picked(s) \in s
    BY <1>2 DEF Picked
  <2>2. IsFiniteSet(s)
    BY FS_Subset
  <2>3. SumFunctionOnSet(f, s)
          = f[Picked(s)] + SumFunctionOnSet(f, s \ {Picked(s)})
    BY <2>2, <1>2, SumUnfold
  <2>4. SumFunctionOnSet(f, s \ {Picked(s)}) = 0 /\ f[Picked(s)] = 0
    BY <2>1, <1>2
  <2> QED BY <2>3, <2>4
<1>3. P = SUBSET S
  <2> HIDE DEF P
  <2>1. P \in SUBSET (SUBSET S)
    BY DEF P
  <2> QED BY <1>1, <1>2, <2>1, SubsetInduction
<1> QED BY <1>3

(* A sum after one of its terms changed. *)
LEMMA SumExcept ==
  ASSUME NEW S, IsFiniteSet(S), NEW f \in [S -> Int], NEW x \in S,
         NEW v \in Int
  PROVE  SumFunction([f EXCEPT ![x] = v]) = SumFunction(f) - f[x] + v
<1> DEFINE g == [f EXCEPT ![x] = v]
           R == S \ {x}
<1>1. IsFiniteSet(R)
  BY FS_Subset
<1>2. g \in [S -> Int] /\ g[x] = v /\ \A y \in R : g[y] = f[y]
  OBVIOUS
<1> HIDE DEF g
<1>3. /\ SumFunctionOnSet(f, S) = f[x] + SumFunctionOnSet(f, R)
      /\ SumFunctionOnSet(g, S) = g[x] + SumFunctionOnSet(g, R)
  BY <1>2, SumRemove
<1>4. SumFunctionOnSet(f, R) = SumFunctionOnSet(g, R)
  BY <1>1, <1>2, SumSame
<1>5. SumFunctionOnSet(f, R) \in Int
  BY <1>1, SumType
<1>6. SumFunction(f) = SumFunctionOnSet(f, S)
        /\ SumFunction(g) = SumFunctionOnSet(g, S)
  BY <1>2 DEF SumFunction
<1>7. SumFunctionOnSet(g, S) = SumFunctionOnSet(f, S) - f[x] + v
  <2>1. f[x] \in Int
    OBVIOUS
  <2> HIDE DEF R
  <2> QED BY <1>2, <1>3, <1>4, <1>5, <2>1
<1> QED BY <1>6, <1>7 DEF g

(* A sum of terms that are not negative is at least the sum of some of     *)
(* them.                                                                   *)
LEMMA SumMonotone ==
  ASSUME NEW S, IsFiniteSet(S), NEW f, \A x \in S : f[x] \in Nat, NEW R \in SUBSET S
  PROVE  SumFunctionOnSet(f, R) <= SumFunctionOnSet(f, S)
<1> DEFINE P == {s \in SUBSET S :
                  SumFunctionOnSet(f, s \cap R) <= SumFunctionOnSet(f, s)}
<1>0. \A s \in SUBSET S : /\ IsFiniteSet(s) /\ IsFiniteSet(s \cap R)
                          /\ \A x \in s : f[x] \in Int
  BY FS_Subset
<1>1. {} \in P
  <2>1. SumFunctionOnSet(f, {}) = 0
    BY FS_EmptySet, SumZero
  <2>2. {} \cap R = {}
    OBVIOUS
  <2> QED BY <2>1, <2>2
<1>2. ASSUME NEW s \in SUBSET S, s # {}, \A x \in s : s \ {x} \in P
      PROVE  s \in P
  <2> PICK p \in s : TRUE
    BY <1>2
  <2>1. SumFunctionOnSet(f, s) = f[p] + SumFunctionOnSet(f, s \ {p})
    BY <1>0, SumRemove
  <2>2. SumFunctionOnSet(f, (s \ {p}) \cap R) <= SumFunctionOnSet(f, s \ {p})
    BY <1>2
  <2>3. /\ SumFunctionOnSet(f, s \ {p}) \in Int
        /\ SumFunctionOnSet(f, (s \ {p}) \cap R) \in Int
    <3>1. s \ {p} \in SUBSET S /\ (s \ {p}) \cap R \in SUBSET S
      OBVIOUS
    <3> QED BY <1>0, <3>1, SumType
  <2>4. f[p] \in Nat
    OBVIOUS
  <2>5. CASE p \in R
    <3>1. p \in s \cap R /\ (s \cap R) \ {p} = (s \ {p}) \cap R
      BY <2>5
    <3>2. SumFunctionOnSet(f, s \cap R) = f[p] + SumFunctionOnSet(f, (s \cap R) \ {p})
      <4>1. \A x \in s \cap R : f[x] \in Int
        BY <1>0
      <4> QED BY <1>0, <3>1, <4>1, SumRemove
    <3>3. SumFunctionOnSet(f, s \cap R) <= SumFunctionOnSet(f, s)
      <4> HIDE DEF P
      <4>1. SumFunctionOnSet(f, s \cap R) = f[p] + SumFunctionOnSet(f, (s \ {p}) \cap R)
        BY <3>1, <3>2, Zenon
      <4> QED BY <2>1, <2>2, <2>3, <2>4, <4>1
    <3> QED BY <3>3
  <2>6. CASE p \notin R
    <3>1. s \cap R = (s \ {p}) \cap R
      BY <2>6
    <3>2. SumFunctionOnSet(f, s \cap R) <= SumFunctionOnSet(f, s)
      BY <2>1, <2>2, <2>3, <2>4, <3>1
    <3> QED BY <3>2
  <2> QED BY <2>5, <2>6
<1>3. P = SUBSET S
  <2> HIDE DEF P
  <2>1. P \in SUBSET (SUBSET S)
    BY DEF P
  <2> QED BY <1>1, <1>2, <2>1, SubsetInduction
<1>4. S \cap R = R /\ S \in P
  BY <1>3
<1> QED BY <1>4

-----------------------------------------------------------------------------
(* A loop of n rounds: f[i] is what the loop holds after round i.          *)
IsLoop(f, base, step, n) == f = [i \in 0..n |-> IF i = 0 THEN base ELSE step[i][f[i - 1]]]

(* A loop whose rounds stay within A can be run to its end, within A.      *)
LEMMA LoopExists ==
  ASSUME NEW A, NEW base \in A, NEW n \in Nat, NEW step \in [1..n -> [A -> A]]
  PROVE  \E f \in [0..n -> A] : IsLoop(f, base, step, n)
<1> DEFINE T == {k \in Nat : k <= n => \E f \in [0..k -> A] : IsLoop(f, base, step, k)}
<1>1. 0 \in T
  <2> DEFINE f == [i \in 0..0 |-> base]
  <2>1. f \in [0..0 -> A]
    OBVIOUS
  <2>2. f = [i \in 0..0 |-> IF i = 0 THEN base ELSE step[i][f[i - 1]]]
    OBVIOUS
  <2> HIDE DEF f
  <2>3. IsLoop(f, base, step, 0)
    BY <2>2 DEF IsLoop
  <2> QED BY <2>1, <2>3
<1>2. ASSUME NEW k \in T
      PROVE  k + 1 \in T
  <2>1. k \in Nat
    OBVIOUS
  <2>2. SUFFICES ASSUME k + 1 <= n
                 PROVE  \E f \in [0..(k + 1) -> A] : IsLoop(f, base, step, k + 1)
    BY <2>1
  <2>3. PICK f \in [0..k -> A] : IsLoop(f, base, step, k)
    BY <2>1, <2>2
  <2> DEFINE last == step[k + 1][f[k]]
             g == [i \in 0..(k + 1) |-> IF i <= k THEN f[i] ELSE last]
  <2>4. f[k] \in A /\ k + 1 \in 1..n
    BY <2>1, <2>2
  <2>5. last \in A
    BY <2>4
  <2>6. g \in [0..(k + 1) -> A]
    <3> HIDE DEF last
    <3> QED BY <2>1, <2>5
  <2>7. \A i \in 0..k : f[i] = IF i = 0 THEN base ELSE step[i][f[i - 1]]
    <3> DEFINE h == [i \in 0..k |-> IF i = 0 THEN base ELSE step[i][f[i - 1]]]
    <3>1. f = h
      BY <2>3 DEF IsLoop
    <3>2. \A i \in 0..k : h[i] = IF i = 0 THEN base ELSE step[i][f[i - 1]]
      OBVIOUS
    <3> HIDE DEF h
    <3> QED BY <3>1, <3>2
  <2>8. ASSUME NEW i \in 0..(k + 1)
        PROVE  g[i] = IF i = 0 THEN base ELSE step[i][g[i - 1]]
    <3>1. CASE i = 0
      BY <2>1, <2>7, <3>1
    <3>2. CASE i # 0 /\ i <= k
      <4>1. i \in 0..k /\ i - 1 \in 0..(k + 1) /\ i - 1 <= k
        BY <2>1, <3>2
      <4>2. g[i] = f[i] /\ g[i - 1] = f[i - 1]
        BY <3>2, <4>1
      <4> HIDE DEF g
      <4> QED BY <2>7, <3>2, <4>1, <4>2
    <3>3. CASE i = k + 1
      <4>1. k \in 0..(k + 1) /\ k + 1 # 0 /\ i - 1 = k /\ ~(i <= k) /\ k <= k
        BY <2>1, <3>3
      <4>2. g[i] = last /\ g[k] = f[k]
        BY <4>1
      <4> HIDE DEF g
      <4> QED BY <3>3, <4>1, <4>2
    <3> QED BY <2>1, <3>1, <3>2, <3>3
  <2>9. IsLoop(g, base, step, k + 1)
    <3>1. g = [i \in 0..(k + 1) |-> g[i]]
      OBVIOUS
    <3> HIDE DEF g
    <3> QED BY <2>8, <3>1 DEF IsLoop
  <2> HIDE DEF g
  <2> QED BY <2>6, <2>9
<1>3. n \in T
  <2> HIDE DEF T
  <2>1. T \in SUBSET Nat
    BY DEF T
  <2> QED BY <1>1, <1>2, <2>1, NatSetInduction
<1> QED BY <1>3

(* What holds at the start and is kept by every round holds throughout.    *)
LEMMA LoopInduction ==
  ASSUME NEW n \in Nat, NEW P \in SUBSET (0..n), 0 \in P,
         \A i \in 1..n : i - 1 \in P => i \in P
  PROVE  P = 0..n
<1> DEFINE T == {k \in Nat : k <= n => k \in P}
<1>1. 0 \in T
  OBVIOUS
<1>2. ASSUME NEW k \in T
      PROVE  k + 1 \in T
  <2>1. k \in Nat /\ (k <= n => k \in P)
    OBVIOUS
  <2>2. ASSUME k + 1 <= n
        PROVE  k + 1 \in P
    <3>1. k + 1 \in 1..n /\ (k + 1) - 1 = k /\ k <= n
      BY <2>1, <2>2
    <3> QED BY <2>1, <3>1
  <2> QED BY <2>1, <2>2
<1>3. T = Nat
  <2> HIDE DEF T
  <2>1. T \in SUBSET Nat
    BY DEF T
  <2> QED BY <1>1, <1>2, <2>1, NatSetInduction
<1>4. \A k \in 0..n : k \in P
  BY <1>3
<1> HIDE DEF T
<1> QED BY <1>4
=============================================================================
