-------------------------- MODULE InductionLemmas --------------------------
(***************************************************************************)
(* Induction over numbers and finite sets, and what it gives for sums:     *)
(* the facts about SumFunctionOnSet (Functions) the proofs about bytes     *)
(* need.  The library's induction theorems take an operator, which none of *)
(* the provers instantiates; here the property is a set, which comes from  *)
(* a minimal counterexample.                                               *)
(***************************************************************************)
EXTENDS Integers, FiniteSets, Functions, FiniteSetTheorems, TLAPS

\* A nonempty set of numbers has a least one.
LEMMA NatMin ==
    ASSUME NEW T \in SUBSET Nat, T # {}
    PROVE  \E n \in T : \A k \in T : n <= k
<1>1. PICK n \in T : \A k \in T : <<k, n>> \notin OpToRel(<, Nat)
  BY NatLessThanWellFounded, WFMin
<1>2. \A k \in T : ~(k < n)
  BY <1>1 DEF OpToRel
<1> QED BY <1>2

\* Among some subsets of a finite set there is one with no smaller one.
LEMMA SubsetMin ==
    ASSUME NEW S, IsFiniteSet(S), NEW X \in SUBSET (SUBSET S), X # {}
    PROVE  \E T \in X : \A U \in X : U \subseteq T => U = T
<1> DEFINE N == {n \in Nat : \E T \in X : Cardinality(T) = n}
<1>1. \A T \in X : IsFiniteSet(T) /\ Cardinality(T) \in Nat
  BY FS_Subset, FS_CardinalityType
<1>2. PICK n \in N : \A k \in N : n <= k
  <2>1. N \in SUBSET Nat /\ N # {}
    BY <1>1
  <2> HIDE DEF N
  <2> QED BY <2>1, NatMin
<1>3. PICK T \in X : Cardinality(T) = n
  BY <1>2
<1>4. ASSUME NEW U \in X, U \subseteq T
      PROVE  U = T
  <2>1. n <= Cardinality(U)
    BY <1>1, <1>2
  <2>2. Cardinality(U) <= n /\ (Cardinality(T) = Cardinality(U) => T = U)
    BY <1>1, <1>3, <1>4, FS_Subset
  <2>3. Cardinality(U) = n
    BY <1>1, <1>2, <2>1, <2>2
  <2> QED BY <1>3, <2>2, <2>3
<1> QED BY <1>3, <1>4

\* Induction on naturals: X is what holds of.
LEMMA NatInduct ==
    ASSUME NEW X, 0 \in X, \A n \in Nat : n \in X => n + 1 \in X
    PROVE  \A n \in Nat : n \in X
<1> DEFINE Bad == Nat \ X
<1>1. ASSUME Bad # {} PROVE FALSE
  <2>1. PICK n \in Bad : \A k \in Bad : n <= k
    <3> HIDE DEF Bad
    <3>1. Bad \in SUBSET Nat
      BY DEF Bad
    <3> QED BY <1>1, <3>1, NatMin
  <2>2. n \in Nat /\ n # 0
    BY <2>1
  <2>3. n - 1 \in Nat /\ ~(n <= n - 1) /\ (n - 1) + 1 = n
    BY <2>2
  <2>4. n - 1 \in X
    BY <2>1, <2>3
  <2>5. (n - 1) + 1 \in X
    BY <2>3, <2>4
  <2> QED BY <2>1, <2>3, <2>5
<1> QED BY <1>1

\* Induction on the subsets of a finite set.
LEMMA SetInduct ==
    ASSUME NEW S, IsFiniteSet(S), NEW X, {} \in X,
           \A T \in SUBSET S : \A x \in S \ T : T \in X => T \cup {x} \in X
    PROVE  S \in X
<1> DEFINE Bad == (SUBSET S) \ X
<1>1. ASSUME Bad # {} PROVE FALSE
  <2>1. PICK T \in Bad : \A U \in Bad : U \subseteq T => U = T
    <3> HIDE DEF Bad
    <3>1. Bad \in SUBSET (SUBSET S)
      BY DEF Bad
    <3> QED BY <1>1, <3>1, SubsetMin
  <2>2. PICK x \in T : TRUE
    BY <2>1
  <2>3. /\ T \ {x} \in SUBSET S /\ x \in S \ (T \ {x})
        /\ T \ {x} \subseteq T /\ T \ {x} # T /\ (T \ {x}) \cup {x} = T
    BY <2>1, <2>2
  <2>4. T \ {x} \in X
    BY <2>1, <2>3
  <2>5. (T \ {x}) \cup {x} \in X
    BY <2>3, <2>4
  <2> QED BY <2>1, <2>3, <2>5
<1> QED BY <1>1

-----------------------------------------------------------------------------
(* The recursive function in the definition of the sum.                    *)

OneOf(s) == CHOOSE x \in s : TRUE

IsSumOn(g, f, D) ==
    g = [s \in D |-> IF s = {} THEN 0 ELSE f[OneOf(s)] + g[s \ {OneOf(s)}]]

LEMMA OneOfSet ==
    ASSUME NEW s, s # {}
    PROVE  OneOf(s) \in s
BY DEF OneOf

\* The sum is a value of the chosen function.
LEMMA SumChosen ==
    ASSUME NEW f, NEW S
    PROVE  SumFunctionOnSet(f, S) = (CHOOSE g : IsSumOn(g, f, SUBSET S))[S]
BY DEF SumFunctionOnSet, FoldFunctionOnSet, MapThenFoldSet, IsSumOn, OneOf

\* There is such a function.
LEMMA SumExists ==
    ASSUME NEW f, NEW S, IsFiniteSet(S)
    PROVE  \E g : IsSumOn(g, f, SUBSET S)
<1> DEFINE D(n) == {s \in SUBSET S : Cardinality(s) <= n}
           P(n) == \E g : IsSumOn(g, f, D(n))
<1>1. \A s \in SUBSET S : IsFiniteSet(s) /\ Cardinality(s) \in Nat /\ Cardinality(s) <= Cardinality(S)
  BY FS_Subset, FS_CardinalityType
<1>2. P(0)
  <2>1. \A s \in D(0) : s = {}
    BY <1>1, FS_EmptySet
  <2> DEFINE g == [s \in D(0) |-> 0]
  <2>2. g = [s \in D(0) |-> IF s = {} THEN 0 ELSE f[OneOf(s)] + g[s \ {OneOf(s)}]]
    BY <2>1
  <2> QED BY <2>2 DEF IsSumOn
<1>3. ASSUME NEW n \in Nat, P(n)
      PROVE  P(n + 1)
  <2>1. PICK g : IsSumOn(g, f, D(n))
    BY <1>3
  <2> DEFINE h == [s \in D(n + 1) |-> IF s = {} THEN 0 ELSE f[OneOf(s)] + g[s \ {OneOf(s)}]]
  <2>2. ASSUME NEW s \in D(n + 1), s # {}
        PROVE  /\ s \ {OneOf(s)} \in D(n)
               /\ s \ {OneOf(s)} \in D(n + 1)
    <3>1. Cardinality(s \ {OneOf(s)}) = Cardinality(s) - 1
      BY <1>1, <2>2, OneOfSet, FS_RemoveElement
    <3> QED BY <1>1, <3>1
  <2>3. ASSUME NEW s \in D(n)
        PROVE  s \in D(n + 1) /\ h[s] = g[s]
    <3>1. s \in D(n + 1)
      BY <1>1
    <3> HIDE DEF D
    <3>2. g[s] = IF s = {} THEN 0 ELSE f[OneOf(s)] + g[s \ {OneOf(s)}]
      BY <2>1 DEF IsSumOn
    <3> QED BY <3>1, <3>2
  <2>4. \A s \in D(n + 1) : s # {} => h[s \ {OneOf(s)}] = g[s \ {OneOf(s)}]
    BY <2>2, <2>3
  <2>5. h = [s \in D(n + 1) |-> IF s = {} THEN 0 ELSE f[OneOf(s)] + h[s \ {OneOf(s)}]]
    <3> HIDE DEF D
    <3> QED BY <2>4
  <2> QED BY <2>5 DEF IsSumOn
<1>4. \A n \in Nat : P(n)
  <2> HIDE DEF P
  <2> DEFINE X == {n \in Nat : P(n)}
  <2>1. 0 \in X /\ \A n \in Nat : n \in X => n + 1 \in X
    BY <1>2, <1>3
  <2> HIDE DEF X
  <2>2. \A n \in Nat : n \in X
    BY <2>1, NatInduct
  <2> QED BY <2>2 DEF X
<1>5. D(Cardinality(S)) = SUBSET S
  BY <1>1
<1>6. Cardinality(S) \in Nat
  BY FS_CardinalityType
<1>7. P(Cardinality(S))
  <2> HIDE DEF P
  <2> QED BY <1>4, <1>6
<1> QED BY <1>5, <1>7

\* Two such functions agree where both are defined.
LEMMA SumUnique ==
    \A f, S, T, g, h :
        /\ IsFiniteSet(S) /\ T \subseteq S
        /\ IsSumOn(g, f, SUBSET S) /\ IsSumOn(h, f, SUBSET T)
        => g[T] = h[T]
<1> SUFFICES ASSUME NEW f, NEW S, NEW T, NEW g, NEW h,
                    IsFiniteSet(S), T \subseteq S,
                    IsSumOn(g, f, SUBSET S), IsSumOn(h, f, SUBSET T)
             PROVE  g[T] = h[T]
  OBVIOUS
<1> DEFINE X == {U \in SUBSET T : g[U] # h[U]}
<1> SUFFICES ASSUME X # {} PROVE FALSE
  OBVIOUS
<1>1. PICK U \in X : \A V \in X : V \subseteq U => V = U
  <2>1. IsFiniteSet(T)
    BY FS_Subset
  <2>2. X \in SUBSET (SUBSET T)
    OBVIOUS
  <2> HIDE DEF X
  <2> QED BY <2>1, <2>2, SubsetMin
<1>2. U \in SUBSET T /\ U \in SUBSET S /\ g[U] # h[U]
  BY <1>1
<1>3. g[U] = IF U = {} THEN 0 ELSE f[OneOf(U)] + g[U \ {OneOf(U)}]
  BY <1>2 DEF IsSumOn
<1>4. h[U] = IF U = {} THEN 0 ELSE f[OneOf(U)] + h[U \ {OneOf(U)}]
  BY <1>2 DEF IsSumOn
<1>5. U # {}
  BY <1>2, <1>3, <1>4
<1>6. U \ {OneOf(U)} # U /\ U \ {OneOf(U)} \subseteq U /\ U \ {OneOf(U)} \in SUBSET T
  BY <1>2, <1>5, OneOfSet
<1>7. g[U \ {OneOf(U)}] = h[U \ {OneOf(U)}]
  BY <1>1, <1>6
<1> QED BY <1>2, <1>3, <1>4, <1>5, <1>7

\* The sum over the empty set, and the sum less the element chosen first.
LEMMA SumUnfold ==
    ASSUME NEW f, NEW S, IsFiniteSet(S)
    PROVE  SumFunctionOnSet(f, S) =
              IF S = {} THEN 0 ELSE f[OneOf(S)] + SumFunctionOnSet(f, S \ {OneOf(S)})
<1> DEFINE R == S \ {OneOf(S)}
           g == CHOOSE g : IsSumOn(g, f, SUBSET S)
           h == CHOOSE h : IsSumOn(h, f, SUBSET R)
<1>1. IsFiniteSet(R) /\ R \in SUBSET S
  BY FS_Subset
<1>2. IsSumOn(g, f, SUBSET S) /\ IsSumOn(h, f, SUBSET R)
  BY <1>1, SumExists
<1>3. SumFunctionOnSet(f, S) = g[S] /\ SumFunctionOnSet(f, R) = h[R]
  BY SumChosen
<1>4. g[S] = IF S = {} THEN 0 ELSE f[OneOf(S)] + g[R]
  <2> HIDE DEF g
  <2> QED BY <1>2 DEF IsSumOn
<1>5. g[R] = h[R]
  <2> HIDE DEF g, h, R
  <2> QED BY <1>1, <1>2, SumUnique
<1> QED BY <1>3, <1>4, <1>5

-----------------------------------------------------------------------------
(* What a sum is, whatever the order of its elements.                      *)

\* Nothing adds up to 0.
LEMMA SumEmpty ==
    ASSUME NEW f
    PROVE  SumFunctionOnSet(f, {}) = 0
BY SumUnfold, FS_EmptySet

\* A sum of integers is an integer, one of naturals a natural.
LEMMA SumType ==
    ASSUME NEW f, NEW S, IsFiniteSet(S), \A x \in S : f[x] \in Int
    PROVE  /\ SumFunctionOnSet(f, S) \in Int
           /\ (\A x \in S : f[x] \in Nat) => SumFunctionOnSet(f, S) \in Nat
<1> DEFINE Good(T) == /\ SumFunctionOnSet(f, T) \in Int
                      /\ (\A x \in S : f[x] \in Nat) => SumFunctionOnSet(f, T) \in Nat
           X == {T \in SUBSET S : ~Good(T)}
<1> SUFFICES ASSUME X # {} PROVE FALSE
  OBVIOUS
<1>1. PICK T \in X : \A U \in X : U \subseteq T => U = T
  <2>1. X \in SUBSET (SUBSET S)
    OBVIOUS
  <2> HIDE DEF X
  <2> QED BY <2>1, SubsetMin
<1>2. T \in SUBSET S /\ ~Good(T) /\ IsFiniteSet(T)
  BY <1>1, FS_Subset
<1>3. T # {}
  BY <1>2, SumEmpty
<1> DEFINE p == OneOf(T)
<1>4. p \in T /\ p \in S
  BY <1>2, <1>3, OneOfSet
<1>5. Good(T \ {p})
  <2>1. T \ {p} \subseteq T /\ T \ {p} # T /\ T \ {p} \in SUBSET S
    BY <1>2, <1>4
  <2>2. T \ {p} \notin X
    BY <1>1, <2>1
  <2> HIDE DEF Good, p
  <2> QED BY <2>1, <2>2
<1>6. SumFunctionOnSet(f, T) = f[p] + SumFunctionOnSet(f, T \ {p})
  BY <1>2, <1>3, SumUnfold
<1> QED BY <1>2, <1>4, <1>5, <1>6

\* Any element may be added last.
LEMMA SumRemove ==
    ASSUME NEW f, NEW S, IsFiniteSet(S), \A x \in S : f[x] \in Int,
           NEW e \in S
    PROVE  SumFunctionOnSet(f, S) = f[e] + SumFunctionOnSet(f, S \ {e})
<1> DEFINE Sum(T) == SumFunctionOnSet(f, T)
           Good(T) == \A x \in T : Sum(T) = f[x] + Sum(T \ {x})
           X == {T \in SUBSET S : ~Good(T)}
<1>1. ASSUME X # {} PROVE FALSE
  <2>1. PICK T \in X : \A U \in X : U \subseteq T => U = T
    <3>1. X \in SUBSET (SUBSET S) /\ X # {}
      BY <1>1
    <3> HIDE DEF X
    <3> QED BY <3>1, SubsetMin
  <2>2. PICK x \in T : Sum(T) # f[x] + Sum(T \ {x})
    BY <2>1
  <2> DEFINE p == OneOf(T)
  <2>3. T \in SUBSET S /\ p \in T /\ x \in S /\ p \in S
    BY <2>1, <2>2, OneOfSet
  <2>4. \A U \in SUBSET T : IsFiniteSet(U) /\ Sum(U) \in Int
    <3>1. \A U \in SUBSET T : IsFiniteSet(U) /\ \A y \in U : f[y] \in Int
      BY <2>3, FS_Subset
    <3> QED BY <3>1, SumType
  <2>5. Sum(T) = f[p] + Sum(T \ {p})
    BY <2>3, <2>4, SumUnfold
  <2>6. p # x
    BY <2>2, <2>5
  <2>7. ASSUME NEW y \in T
        PROVE  Good(T \ {y})
    <3>1. T \ {y} \in SUBSET S /\ T \ {y} \subseteq T /\ T \ {y} # T
      BY <2>3
    <3> HIDE DEF Good
    <3> QED BY <2>1, <3>1
  <2>8. Sum(T \ {p}) = f[x] + Sum((T \ {p}) \ {x})
    BY <2>2, <2>3, <2>6, <2>7
  <2>9. Sum(T \ {x}) = f[p] + Sum((T \ {x}) \ {p})
    BY <2>2, <2>3, <2>6, <2>7
  <2> DEFINE r == Sum((T \ {p}) \ {x})
  <2>10. (T \ {p}) \ {x} = (T \ {x}) \ {p} /\ (T \ {p}) \ {x} \in SUBSET T
    OBVIOUS
  <2>11. r \in Int /\ f[p] \in Int /\ f[x] \in Int
    BY <2>3, <2>4, <2>10
  <2>12. Sum(T \ {x}) = f[p] + r
    BY <2>9, <2>10
  <2> HIDE DEF p, Sum, r
  <2>13. Sum(T) = f[x] + Sum(T \ {x})
    BY <2>5, <2>8, <2>11, <2>12 DEF r
  <2> QED BY <2>2, <2>13
<1>2. Good(S)
  BY <1>1
<1> QED BY <1>2

\* One more element.
LEMMA SumAdd ==
    ASSUME NEW f, NEW S, IsFiniteSet(S), NEW e, e \notin S,
           \A x \in S \cup {e} : f[x] \in Int
    PROVE  SumFunctionOnSet(f, S \cup {e}) = f[e] + SumFunctionOnSet(f, S)
<1>1. IsFiniteSet(S \cup {e}) /\ e \in S \cup {e} /\ (S \cup {e}) \ {e} = S
  BY FS_AddElement
<1>2. SumFunctionOnSet(f, S \cup {e}) = f[e] + SumFunctionOnSet(f, (S \cup {e}) \ {e})
  BY <1>1, SumRemove
<1> QED BY <1>1, <1>2

\* The sum of f + g is the sum of f and that of g.
LEMMA SumPlus ==
    ASSUME NEW S, IsFiniteSet(S), NEW f, NEW g, NEW h,
           \A x \in S : f[x] \in Int /\ g[x] \in Int /\ h[x] = f[x] + g[x]
    PROVE  SumFunctionOnSet(h, S) = SumFunctionOnSet(f, S) + SumFunctionOnSet(g, S)
<1> DEFINE Good(T) == SumFunctionOnSet(h, T) = SumFunctionOnSet(f, T) + SumFunctionOnSet(g, T)
           X == {T \in SUBSET S : Good(T)}
<1>1. {} \in X
  BY SumEmpty
<1>2. ASSUME NEW T \in SUBSET S, NEW x \in S \ T, T \in X
      PROVE  T \cup {x} \in X
  <2>1. IsFiniteSet(T) /\ \A y \in T \cup {x} : f[y] \in Int /\ g[y] \in Int /\ h[y] \in Int
    BY FS_Subset
  <2>2. /\ SumFunctionOnSet(f, T \cup {x}) = f[x] + SumFunctionOnSet(f, T)
        /\ SumFunctionOnSet(g, T \cup {x}) = g[x] + SumFunctionOnSet(g, T)
        /\ SumFunctionOnSet(h, T \cup {x}) = h[x] + SumFunctionOnSet(h, T)
    BY <2>1, SumAdd
  <2>3. /\ SumFunctionOnSet(f, T) \in Int /\ SumFunctionOnSet(g, T) \in Int
        /\ h[x] = f[x] + g[x] /\ f[x] \in Int /\ g[x] \in Int
    BY <2>1, SumType
  <2> QED BY <1>2, <2>2, <2>3
<1>3. S \in X
  <2> HIDE DEF X
  <2> QED BY <1>1, <1>2, SetInduct
<1> QED BY <1>3

\* Sums of nothing but zeros.
LEMMA SumZero ==
    ASSUME NEW S, IsFiniteSet(S), NEW f, \A x \in S : f[x] = 0
    PROVE  SumFunctionOnSet(f, S) = 0
<1>1. SumFunctionOnSet(f, S) = SumFunctionOnSet(f, S) + SumFunctionOnSet(f, S)
  BY SumPlus
<1>2. SumFunctionOnSet(f, S) \in Int
  BY SumType
<1> QED BY <1>1, <1>2

\* Pointwise <= carries over to sums; so does equality.
LEMMA SumMonotone ==
    ASSUME NEW S, IsFiniteSet(S), NEW f, NEW g,
           \A x \in S : f[x] \in Int /\ g[x] \in Int /\ f[x] <= g[x]
    PROVE  SumFunctionOnSet(f, S) <= SumFunctionOnSet(g, S)
<1> DEFINE d == [x \in S |-> g[x] - f[x]]
<1>1. SumFunctionOnSet(g, S) = SumFunctionOnSet(f, S) + SumFunctionOnSet(d, S)
  BY SumPlus
<1>2. SumFunctionOnSet(d, S) \in Nat /\ SumFunctionOnSet(f, S) \in Int
  BY SumType
<1> HIDE DEF d
<1> QED BY <1>1, <1>2

\* Functions that agree on a set have one sum over it.
LEMMA SumSame ==
    ASSUME NEW S, IsFiniteSet(S), NEW f, NEW g,
           \A x \in S : f[x] \in Int /\ f[x] = g[x]
    PROVE  SumFunctionOnSet(f, S) = SumFunctionOnSet(g, S)
<1>1. SumFunctionOnSet(f, S) <= SumFunctionOnSet(g, S) /\ SumFunctionOnSet(g, S) <= SumFunctionOnSet(f, S)
  BY SumMonotone
<1>2. SumFunctionOnSet(f, S) \in Int /\ SumFunctionOnSet(g, S) \in Int
  BY SumType
<1> QED BY <1>1, <1>2

\* Disjoint sets.
LEMMA SumUnion ==
    ASSUME NEW S, IsFiniteSet(S), NEW T, IsFiniteSet(T), S \cap T = {},
           NEW f, \A x \in S \cup T : f[x] \in Int
    PROVE  SumFunctionOnSet(f, S \cup T) = SumFunctionOnSet(f, S) + SumFunctionOnSet(f, T)
<1> DEFINE Good(U) == SumFunctionOnSet(f, U \cup T) = SumFunctionOnSet(f, U) + SumFunctionOnSet(f, T)
           X == {U \in SUBSET S : Good(U)}
<1>1. SumFunctionOnSet(f, T) \in Int
  BY SumType
<1>2. {} \in X
  <2>1. {} \cup T = T
    OBVIOUS
  <2> QED BY <1>1, <2>1, SumEmpty
<1>3. ASSUME NEW U \in SUBSET S, NEW x \in S \ U, U \in X
      PROVE  U \cup {x} \in X
  <2>1. IsFiniteSet(U) /\ IsFiniteSet(U \cup T) /\ x \notin U /\ x \notin U \cup T
    BY FS_Subset, FS_Union
  <2>2. \A y \in (U \cup T) \cup {x} : f[y] \in Int
    OBVIOUS
  <2>3. /\ SumFunctionOnSet(f, U \cup {x}) = f[x] + SumFunctionOnSet(f, U)
        /\ SumFunctionOnSet(f, (U \cup T) \cup {x}) = f[x] + SumFunctionOnSet(f, U \cup T)
    BY <2>1, <2>2, SumAdd
  <2>4. (U \cup {x}) \cup T = (U \cup T) \cup {x}
    OBVIOUS
  <2>5. f[x] \in Int /\ SumFunctionOnSet(f, U) \in Int
    BY <2>1, SumType
  <2>6. SumFunctionOnSet(f, (U \cup {x}) \cup T) = f[x] + SumFunctionOnSet(f, U \cup T)
    BY <2>3, <2>4
  <2>7. SumFunctionOnSet(f, U \cup T) = SumFunctionOnSet(f, U) + SumFunctionOnSet(f, T)
    BY <1>3
  <2>8. Good(U \cup {x})
    BY <1>1, <2>3, <2>5, <2>6, <2>7
  <2> QED BY <2>8
<1>4. S \in X
  <2> HIDE DEF X
  <2> QED BY <1>2, <1>3, SetInduct
<1> QED BY <1>4

\* A part of naturals adds up to no more than all of them.
LEMMA SumSubset ==
    ASSUME NEW S, IsFiniteSet(S), NEW T, T \subseteq S, NEW f, \A x \in S : f[x] \in Nat
    PROVE  SumFunctionOnSet(f, T) <= SumFunctionOnSet(f, S)
<1>1. IsFiniteSet(T) /\ IsFiniteSet(S \ T) /\ T \cap (S \ T) = {} /\ T \cup (S \ T) = S
  BY FS_Subset, FS_Difference
<1>2. SumFunctionOnSet(f, T \cup (S \ T)) = SumFunctionOnSet(f, T) + SumFunctionOnSet(f, S \ T)
  BY <1>1, SumUnion
<1>3. SumFunctionOnSet(f, T) \in Nat /\ SumFunctionOnSet(f, S \ T) \in Nat
  BY <1>1, SumType
<1>4. SumFunctionOnSet(f, S) = SumFunctionOnSet(f, T) + SumFunctionOnSet(f, S \ T)
  BY <1>1, <1>2
<1> QED BY <1>3, <1>4

\* One value changes.
LEMMA SumUpdate ==
    ASSUME NEW S, IsFiniteSet(S), NEW e \in S, NEW f, NEW g,
           \A x \in S : f[x] \in Int /\ g[x] \in Int /\ (x # e => g[x] = f[x])
    PROVE  SumFunctionOnSet(g, S) = SumFunctionOnSet(f, S) - f[e] + g[e]
<1>1. /\ SumFunctionOnSet(f, S) = f[e] + SumFunctionOnSet(f, S \ {e})
      /\ SumFunctionOnSet(g, S) = g[e] + SumFunctionOnSet(g, S \ {e})
  BY SumRemove
<1>2. IsFiniteSet(S \ {e})
  BY FS_RemoveElement
<1>3. SumFunctionOnSet(f, S \ {e}) = SumFunctionOnSet(g, S \ {e})
  BY <1>2, SumSame
<1>4. SumFunctionOnSet(f, S \ {e}) \in Int
  BY <1>2, SumType
<1> QED BY <1>1, <1>3, <1>4

\* Zeros may be left out.
LEMMA SumPositive ==
    ASSUME NEW S, IsFiniteSet(S), NEW f, \A x \in S : f[x] \in Nat
    PROVE  SumFunctionOnSet(f, {x \in S : f[x] > 0}) = SumFunctionOnSet(f, S)
<1> DEFINE P == {x \in S : f[x] > 0}
           Z == {x \in S : f[x] = 0}
<1>1. IsFiniteSet(P) /\ IsFiniteSet(Z)
  BY FS_Subset
<1>2. P \cap Z = {} /\ P \cup Z = S
  OBVIOUS
<1>3. SumFunctionOnSet(f, P \cup Z) = SumFunctionOnSet(f, P) + SumFunctionOnSet(f, Z)
  BY <1>1, <1>2, SumUnion
<1>4. SumFunctionOnSet(f, Z) = 0
  BY <1>1, SumZero
<1>5. SumFunctionOnSet(f, P) \in Int
  BY <1>1, SumType
<1>6. SumFunctionOnSet(f, S) = SumFunctionOnSet(f, P) + SumFunctionOnSet(f, Z)
  BY <1>2, <1>3
<1> QED BY <1>4, <1>5, <1>6

-----------------------------------------------------------------------------
(* Sums over intervals.                                                    *)

\* The last of the first n + 1 elements from c.
LEMMA SumLast ==
    ASSUME NEW c \in Int, NEW n \in Nat, NEW f, \A i \in c..(c + n) : f[i] \in Int
    PROVE  SumFunctionOnSet(f, c..(c + n)) = SumFunctionOnSet(f, c..(c + n - 1)) + f[c + n]
<1>1. c..(c + n) = (c..(c + n - 1)) \cup {c + n} /\ c + n \notin c..(c + n - 1)
  OBVIOUS
<1>2. IsFiniteSet(c..(c + n - 1))
  BY FS_Interval
<1>3. SumFunctionOnSet(f, (c..(c + n - 1)) \cup {c + n}) = f[c + n] + SumFunctionOnSet(f, c..(c + n - 1))
  BY <1>1, <1>2, SumAdd
<1>4. SumFunctionOnSet(f, c..(c + n - 1)) \in Int /\ f[c + n] \in Int
  BY <1>1, <1>2, SumType
<1>5. SumFunctionOnSet(f, c..(c + n)) = f[c + n] + SumFunctionOnSet(f, c..(c + n - 1))
  BY <1>1, <1>3
<1> QED BY <1>4, <1>5

\* The same n values from c and from d.
LEMMA SumShift ==
    ASSUME NEW c \in Int, NEW d \in Int, NEW n \in Nat, NEW f,
           \A i \in 0..(n - 1) : f[c + i] \in Int /\ f[d + i] = f[c + i]
    PROVE  SumFunctionOnSet(f, c..(c + n - 1)) = SumFunctionOnSet(f, d..(d + n - 1))
<1> DEFINE Good(k) == k <= n => SumFunctionOnSet(f, c..(c + k - 1)) = SumFunctionOnSet(f, d..(d + k - 1))
           X == {k \in Nat : Good(k)}
<1>1. 0 \in X
  <2>1. c..(c + 0 - 1) = {} /\ d..(d + 0 - 1) = {}
    OBVIOUS
  <2> QED BY <2>1
<1>2. ASSUME NEW k \in Nat, k \in X
      PROVE  k + 1 \in X
  <2> SUFFICES ASSUME k + 1 <= n
               PROVE  SumFunctionOnSet(f, c..(c + (k + 1) - 1)) = SumFunctionOnSet(f, d..(d + (k + 1) - 1))
    OBVIOUS
  <2>1. c + (k + 1) - 1 = c + k /\ d + (k + 1) - 1 = d + k /\ k \in 0..(n - 1)
    OBVIOUS
  <2>2. \A i \in c..(c + k) : f[i] \in Int
    <3> SUFFICES ASSUME NEW i \in c..(c + k) PROVE f[i] \in Int
      OBVIOUS
    <3>1. i - c \in 0..(n - 1) /\ c + (i - c) = i
      OBVIOUS
    <3> QED BY <3>1
  <2>3. \A i \in d..(d + k) : f[i] \in Int
    <3> SUFFICES ASSUME NEW i \in d..(d + k) PROVE f[i] \in Int
      OBVIOUS
    <3>1. i - d \in 0..(n - 1) /\ d + (i - d) = i
      OBVIOUS
    <3> QED BY <3>1
  <2>4. SumFunctionOnSet(f, c..(c + k)) = SumFunctionOnSet(f, c..(c + k - 1)) + f[c + k]
    BY <2>2, SumLast
  <2>5. SumFunctionOnSet(f, d..(d + k)) = SumFunctionOnSet(f, d..(d + k - 1)) + f[d + k]
    BY <2>3, SumLast
  <2>6. SumFunctionOnSet(f, c..(c + k - 1)) = SumFunctionOnSet(f, d..(d + k - 1))
    BY <1>2, <2>1
  <2>7. f[d + k] = f[c + k]
    BY <2>1
  <2> QED BY <2>1, <2>4, <2>5, <2>6, <2>7
<1>3. \A k \in Nat : k \in X
  <2> HIDE DEF X
  <2> QED BY <1>1, <1>2, NatInduct
<1>4. Good(n)
  BY <1>3
<1> QED BY <1>4
=============================================================================
