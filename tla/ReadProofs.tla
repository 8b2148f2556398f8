----------------------------- MODULE ReadProofs -----------------------------
(***************************************************************************)
(* Theorems about ReadApi, for any rows, filters, page size and latencies: *)
(* lists that are paged through while rows are inserted and delivered, the *)
(* dashboard's numbers, and the percentile estimated from a histogram.     *)
(***************************************************************************)
EXTENDS ReadApi, FiniteSetTheorems, TLAPS

-----------------------------------------------------------------------------
(* Sums over a finite set.  An induction over sets is a least subset that   *)
(* would be an exception.                                                   *)

One(S) == CHOOSE x \in S : TRUE

\* g holds the sums over the subsets of S, as MapThenFoldSet computes them.
Sums(f, S, g) ==
    g = [T \in SUBSET S |-> IF T = {} THEN 0 ELSE f[One(T)] + g[T \ {One(T)}]]

\* A set of subsets of a finite set has a least one.
LEMMA LeastSubset ==
  ASSUME NEW S, IsFiniteSet(S), NEW Q \in SUBSET SUBSET S, Q # {}
  PROVE  \E T \in Q : \A U \in SUBSET T : U # T => U \notin Q
<1>1. IsWellFoundedOn(StrictSubsetOrdering(S), SUBSET S)
  BY FS_FiniteSubsetsOfFinite, FS_StrictSubsetOrderingWellFounded, Zenon
<1>2. \E T \in Q : \A U \in Q : ~ (<<U, T>> \in StrictSubsetOrdering(S))
  BY <1>1, WFMin, Zenon
<1> QED
  BY <1>2 DEF StrictSubsetOrdering

LEMMA OneOf == \A S : S # {} => One(S) \in S
BY DEF One

LEMMA TotalUnfolds ==
  ASSUME NEW f, NEW S
  PROVE  Total(f, S) = (CHOOSE g : Sums(f, S, g))[S]
BY DEF Total, MapThenSumSet, MapThenFoldSet, Sums, One

LEMMA SumsUnique ==
  ASSUME NEW f, NEW S, IsFiniteSet(S), NEW R \in SUBSET S, NEW g, NEW h,
         Sums(f, S, g), Sums(f, R, h)
  PROVE  \A T \in SUBSET R : g[T] = h[T]
<1> DEFINE Q == {T \in SUBSET R : g[T] # h[T]}
<1>1. SUFFICES ASSUME Q # {} PROVE FALSE
  OBVIOUS
<1>2. PICK T \in Q : \A U \in SUBSET T : U # T => U \notin Q
  <2>1. Q \in SUBSET SUBSET S
    OBVIOUS
  <2> HIDE DEF Q
  <2> QED
    BY <1>1, <2>1, LeastSubset
<1>3. T # {} => g[T \ {One(T)}] = h[T \ {One(T)}]
  BY <1>2, OneOf
<1> QED
  BY <1>2, <1>3 DEF Sums

LEMMA SumsExist ==
  ASSUME NEW f, NEW S, IsFiniteSet(S)
  PROVE  \E g : Sums(f, S, g)
<1> DEFINE Q    == {T \in SUBSET S : ~\E g : Sums(f, T, g)}
           G(T) == CHOOSE g : Sums(f, T, g)
<1>1. SUFFICES ASSUME Q # {} PROVE FALSE
  BY DEF Q
<1>2. PICK T \in Q : \A U \in SUBSET T : U # T => U \notin Q
  <2>1. Q \in SUBSET SUBSET S
    OBVIOUS
  <2> HIDE DEF Q
  <2> QED
    BY <1>1, <2>1, LeastSubset
<1>3. \A U \in SUBSET T : U # T => Sums(f, U, G(U))
  BY <1>2
<1> DEFINE h == [U \in SUBSET T |->
                   IF U = {} THEN 0 ELSE f[One(U)] + G(U \ {One(U)})[U \ {One(U)}]]
<1>4. ASSUME NEW U \in SUBSET T, U # T
      PROVE  h[U] = G(U)[U]
  <2>1. CASE U = {}
    <3>1. Sums(f, U, G(U)) /\ h[U] = 0
      <4> HIDE DEF G
      <4> QED
        BY <1>3, <1>4, <2>1
    <3> HIDE DEF G, h
    <3> QED
      BY <2>1, <3>1 DEF Sums
  <2>2. CASE U # {}
    <3> DEFINE V == U \ {One(U)}
    <3>1. V \in SUBSET U /\ V # T /\ V \in SUBSET T
      BY <1>4
    <3>2. Sums(f, U, G(U)) /\ Sums(f, V, G(V)) /\ IsFiniteSet(U)
      <4>1. IsFiniteSet(U)
        BY FS_Subset
      <4> HIDE DEF G, V
      <4> QED
        BY <1>3, <1>4, <3>1, <4>1
    <3>3. G(U)[V] = G(V)[V]
      <4> HIDE DEF G, V
      <4> QED
        BY <3>1, <3>2, SumsUnique
    <3>4. G(U)[U] = f[One(U)] + G(U)[V]
      <4> HIDE DEF G
      <4> QED
        BY <2>2, <3>2 DEF Sums
    <3>5. h[U] = f[One(U)] + G(V)[V]
      <4> HIDE DEF G
      <4> QED
        BY <2>2
    <3> QED
      BY <3>3, <3>4, <3>5
  <2> QED
    BY <2>1, <2>2
<1>5. h = [U \in SUBSET T |-> IF U = {} THEN 0 ELSE f[One(U)] + h[U \ {One(U)}]]
  <2>1. ASSUME NEW U \in SUBSET T, U # {}
        PROVE  G(U \ {One(U)})[U \ {One(U)}] = h[U \ {One(U)}]
    <3>1. U \ {One(U)} \in SUBSET T /\ U \ {One(U)} # T
      BY <2>1, OneOf
    <3> HIDE DEF G, h
    <3> QED
      BY <1>4, <3>1
  <2> DEFINE k == [U \in SUBSET T |-> IF U = {} THEN 0 ELSE f[One(U)] + h[U \ {One(U)}]]
  <2>2. \A U \in SUBSET T : h[U] = k[U]
    <3> HIDE DEF G
    <3>1. \A U \in SUBSET T : U = {} \/ G(U \ {One(U)})[U \ {One(U)}] = h[U \ {One(U)}]
      BY <2>1
    <3> DEFINE hh == h
    <3>2. \A U \in SUBSET T :
            hh[U] = IF U = {} THEN 0 ELSE f[One(U)] + G(U \ {One(U)})[U \ {One(U)}]
      OBVIOUS
    <3>3. \A U \in SUBSET T : k[U] = IF U = {} THEN 0 ELSE f[One(U)] + hh[U \ {One(U)}]
      OBVIOUS
    <3> HIDE DEF h
    <3> QED
      BY <3>1, <3>2, <3>3
  <2>3. h = [U \in SUBSET T |-> h[U]] /\ k = [U \in SUBSET T |-> k[U]]
    OBVIOUS
  <2> HIDE DEF h, k
  <2>4. h = k
    BY <2>2, <2>3
  <2> QED
    BY <2>4 DEF k
<1>6. Sums(f, T, h)
  <2> HIDE DEF h
  <2> QED
    BY <1>5 DEF Sums
<1> QED
  BY <1>2, <1>6

LEMMA TotalOf ==
  ASSUME NEW f, NEW S, IsFiniteSet(S)
  PROVE  Total(f, S) = IF S = {} THEN 0 ELSE f[One(S)] + Total(f, S \ {One(S)})
<1> DEFINE G(T) == CHOOSE g : Sums(f, T, g)
           R == S \ {One(S)}
<1>1. IsFiniteSet(R) /\ R \in SUBSET S
  BY FS_Subset
<1>2. Sums(f, S, G(S)) /\ Sums(f, R, G(R))
  BY <1>1, SumsExist
<1>3. Total(f, S) = G(S)[S] /\ Total(f, R) = G(R)[R]
  BY TotalUnfolds
<1> HIDE DEF G, R
<1>4. G(S)[R] = G(R)[R]
  BY <1>1, <1>2, SumsUnique
<1>5. G(S)[S] = IF S = {} THEN 0 ELSE f[One(S)] + G(S)[R]
  BY <1>2 DEF Sums, R
<1> QED
  BY <1>3, <1>4, <1>5 DEF R

LEMMA TotalNat ==
  ASSUME NEW f, NEW S, IsFiniteSet(S), \A x \in S : f[x] \in Nat
  PROVE  Total(f, S) \in Nat
<1> DEFINE Q == {T \in SUBSET S : Total(f, T) \notin Nat}
<1>1. SUFFICES ASSUME Q # {} PROVE FALSE
  OBVIOUS
<1>2. PICK T \in Q : \A U \in SUBSET T : U # T => U \notin Q
  <2>1. Q \in SUBSET SUBSET S
    OBVIOUS
  <2> HIDE DEF Q
  <2> QED
    BY <1>1, <2>1, LeastSubset
<1>3. IsFiniteSet(T)
  BY FS_Subset
<1>4. Total(f, T) = IF T = {} THEN 0 ELSE f[One(T)] + Total(f, T \ {One(T)})
  BY <1>3, TotalOf
<1>5. T # {} => One(T) \in T /\ Total(f, T \ {One(T)}) \in Nat
  BY <1>2, OneOf
<1> QED
  BY <1>2, <1>4, <1>5

\* Whichever element is taken out first.
LEMMA TotalRemove ==
  ASSUME NEW f, NEW S, IsFiniteSet(S), \A x \in S : f[x] \in Nat, NEW y \in S
  PROVE  Total(f, S) = f[y] + Total(f, S \ {y})
<1> DEFINE Q == {T \in SUBSET S : \E x \in T : Total(f, T) # f[x] + Total(f, T \ {x})}
<1>1. SUFFICES ASSUME Q # {} PROVE FALSE
  OBVIOUS
<1>2. PICK T \in Q : \A U \in SUBSET T : U # T => U \notin Q
  <2>1. Q \in SUBSET SUBSET S
    OBVIOUS
  <2> HIDE DEF Q
  <2> QED
    BY <1>1, <2>1, LeastSubset
<1>3. PICK x \in T : Total(f, T) # f[x] + Total(f, T \ {x})
  BY <1>2
<1> DEFINE c == One(T)
<1>4. c \in T
  BY OneOf
<1>5. \A U \in SUBSET T : IsFiniteSet(U) /\ Total(f, U) \in Nat
  <2> SUFFICES ASSUME NEW U \in SUBSET T PROVE IsFiniteSet(U) /\ Total(f, U) \in Nat
    OBVIOUS
  <2>1. IsFiniteSet(U) /\ \A z \in U : f[z] \in Nat
    BY FS_Subset
  <2> QED
    BY <2>1, TotalNat
<1>6. Total(f, T) = f[c] + Total(f, T \ {c})
  BY <1>4, <1>5, TotalOf
<1>7. CASE x # c
  <2>1. T \ {c} \notin Q /\ T \ {x} \notin Q
    BY <1>2, <1>4
  <2>2. Total(f, T \ {c}) = f[x] + Total(f, (T \ {c}) \ {x})
    BY <1>7, <2>1
  <2>3. Total(f, T \ {x}) = f[c] + Total(f, (T \ {x}) \ {c})
    BY <1>4, <1>7, <2>1
  <2>4. (T \ {c}) \ {x} = (T \ {x}) \ {c} /\ (T \ {c}) \ {x} \in SUBSET T
    OBVIOUS
  <2>5. f[x] \in Nat /\ f[c] \in Nat /\ Total(f, (T \ {c}) \ {x}) \in Nat
    BY <1>4, <1>5, <2>4
  <2> HIDE DEF Q, c
  <2> QED
    BY <1>3, <1>6, <2>2, <2>3, <2>4, <2>5
<1> QED
  BY <1>3, <1>6, <1>7

LEMMA TotalEmpty == \A f : Total(f, {}) = 0
BY TotalOf, FS_EmptySet

LEMMA TotalMonotone ==
  ASSUME NEW f, NEW g, NEW S, IsFiniteSet(S),
         \A x \in S : f[x] \in Nat /\ g[x] \in Nat /\ f[x] <= g[x]
  PROVE  Total(f, S) <= Total(g, S)
<1> DEFINE Q == {T \in SUBSET S : ~(Total(f, T) <= Total(g, T))}
<1>1. SUFFICES ASSUME Q # {} PROVE FALSE
  OBVIOUS
<1>2. PICK T \in Q : \A U \in SUBSET T : U # T => U \notin Q
  <2>1. Q \in SUBSET SUBSET S
    OBVIOUS
  <2> HIDE DEF Q
  <2> QED
    BY <1>1, <2>1, LeastSubset
<1>3. T # {}
  <2>1. Total(f, {}) <= Total(g, {})
    BY TotalEmpty
  <2>2. ~(Total(f, T) <= Total(g, T))
    BY <1>2
  <2> HIDE DEF Q
  <2> QED
    BY <2>1, <2>2
<1> DEFINE c == One(T)
           U == T \ {c}
<1>4. /\ c \in T /\ U \in SUBSET T /\ U # T
      /\ IsFiniteSet(T) /\ IsFiniteSet(U)
  BY <1>3, OneOf, FS_Subset
<1>5. Total(f, U) <= Total(g, U)
  BY <1>2, <1>4
<1>6. Total(f, U) \in Nat /\ Total(g, U) \in Nat
  BY <1>4, TotalNat
<1>7. Total(f, T) = f[c] + Total(f, U) /\ Total(g, T) = g[c] + Total(g, U)
  BY <1>3, <1>4, TotalOf
<1>8. f[c] \in Nat /\ g[c] \in Nat /\ f[c] <= g[c]
  BY <1>4
<1> HIDE DEF c, U
<1>9. Total(f, T) <= Total(g, T)
  BY <1>5, <1>6, <1>7, <1>8
<1> QED
  BY <1>2, <1>9

LEMMA TotalSame ==
  ASSUME NEW f, NEW g, NEW S, IsFiniteSet(S), \A x \in S : f[x] \in Nat /\ g[x] = f[x]
  PROVE  Total(g, S) = Total(f, S)
<1>1. Total(f, S) <= Total(g, S) /\ Total(g, S) <= Total(f, S)
  BY TotalMonotone
<1>2. Total(f, S) \in Nat /\ Total(g, S) \in Nat
  BY TotalNat
<1> QED
  BY <1>1, <1>2

LEMMA TotalZero ==
  ASSUME NEW f, NEW S, IsFiniteSet(S), \A x \in S : f[x] = 0
  PROVE  Total(f, S) = 0
<1> DEFINE Q == {T \in SUBSET S : Total(f, T) # 0}
<1>1. SUFFICES ASSUME Q # {} PROVE FALSE
  OBVIOUS
<1>2. PICK T \in Q : \A U \in SUBSET T : U # T => U \notin Q
  <2>1. Q \in SUBSET SUBSET S
    OBVIOUS
  <2> HIDE DEF Q
  <2> QED
    BY <1>1, <2>1, LeastSubset
<1>3. IsFiniteSet(T)
  BY FS_Subset
<1>4. Total(f, T) = IF T = {} THEN 0 ELSE f[One(T)] + Total(f, T \ {One(T)})
  BY <1>3, TotalOf
<1>5. T # {} => One(T) \in T /\ Total(f, T \ {One(T)}) = 0
  BY <1>2, OneOf
<1> QED
  BY <1>2, <1>4, <1>5

LEMMA TotalSubset ==
  ASSUME NEW f, NEW S, IsFiniteSet(S), \A x \in S : f[x] \in Nat, NEW R \in SUBSET S
  PROVE  Total(f, R) <= Total(f, S)
<1> DEFINE Q == {T \in SUBSET S : R \subseteq T /\ ~(Total(f, R) <= Total(f, T))}
<1>1. SUFFICES ASSUME Q # {} PROVE FALSE
  OBVIOUS
<1>2. PICK T \in Q : \A U \in SUBSET T : U # T => U \notin Q
  <2>1. Q \in SUBSET SUBSET S
    OBVIOUS
  <2> HIDE DEF Q
  <2> QED
    BY <1>1, <2>1, LeastSubset
<1>3. \A U \in SUBSET S : IsFiniteSet(U) /\ Total(f, U) \in Nat
  <2> SUFFICES ASSUME NEW U \in SUBSET S PROVE IsFiniteSet(U) /\ Total(f, U) \in Nat
    OBVIOUS
  <2>1. IsFiniteSet(U) /\ \A z \in U : f[z] \in Nat
    BY FS_Subset
  <2> QED
    BY <2>1, TotalNat
<1>4. T # R
  BY <1>2, <1>3
<1>5. PICK x \in T : x \notin R
  BY <1>2, <1>4
<1>6. T \ {x} \in SUBSET S /\ R \subseteq T \ {x} /\ T \ {x} \notin Q
  BY <1>2, <1>5
<1>7. Total(f, R) <= Total(f, T \ {x})
  BY <1>6
<1>8. Total(f, T) = f[x] + Total(f, T \ {x})
  BY <1>3, <1>5, TotalRemove
<1>9. f[x] \in Nat /\ Total(f, T \ {x}) \in Nat /\ Total(f, R) \in Nat
  BY <1>3, <1>6
<1>10. Total(f, R) <= Total(f, T)
  BY <1>7, <1>8, <1>9
<1> QED
  BY <1>2, <1>10

LEMMA TotalIncrement ==
  ASSUME NEW f, NEW g, NEW S, IsFiniteSet(S), \A x \in S : f[x] \in Nat,
         NEW y \in S, g[y] = f[y] + 1, \A x \in S \ {y} : g[x] = f[x]
  PROVE  Total(g, S) = Total(f, S) + 1
<1>1. IsFiniteSet(S \ {y}) /\ \A x \in S : g[x] \in Nat
  <2>1. \A x \in S : x = y \/ x \in S \ {y}
    OBVIOUS
  <2> QED
    BY <2>1, FS_Subset
<1>2. Total(g, S \ {y}) = Total(f, S \ {y})
  BY <1>1, TotalSame
<1>3. Total(f, S) = f[y] + Total(f, S \ {y}) /\ Total(g, S) = g[y] + Total(g, S \ {y})
  BY <1>1, TotalRemove
<1>4. Total(f, S \ {y}) \in Nat /\ f[y] \in Nat
  BY <1>1, TotalNat
<1> QED
  BY <1>2, <1>3, <1>4

LEMMA KindsFinite ==
  ASSUME NEW S, IsFiniteSet(S), NEW kind
  PROVE  IsFiniteSet({kind[n] : n \in S})
<1> DEFINE K == {kind[n] : n \in S}
           f == [n \in S |-> kind[n]]
<1>1. f \in [S -> K] /\ \A k \in K : \E n \in S : f[n] = k
  OBVIOUS
<1> HIDE DEF f, K
<1>2. f \in Surjection(S, K)
  BY <1>1 DEF Surjection
<1>3. IsFiniteSet(K)
  BY <1>2, FS_Surjection
<1> QED
  BY <1>3 DEF K

\* Numbers that count the elements of every kind count all elements.
LEMMA CountedByKind ==
  ASSUME NEW S, IsFiniteSet(S), NEW K, IsFiniteSet(K), NEW kind, \A n \in S : kind[n] \in K,
         NEW c, \A k \in K : c[k] \in Nat /\ Cardinality({n \in S : kind[n] = k}) <= c[k]
  PROVE  Cardinality(S) <= Total(c, K)
<1> DEFINE In(T) == {n \in S : kind[n] \in T}
           Q     == {T \in SUBSET K : ~(Cardinality(In(T)) <= Total(c, T))}
<1>1. ASSUME Q # {} PROVE FALSE
  <2>1. PICK T \in Q : \A U \in SUBSET T : U # T => U \notin Q
    <3>1. Q \in SUBSET SUBSET K
      OBVIOUS
    <3> HIDE DEF Q
    <3> QED
      BY <1>1, <3>1, LeastSubset
  <2>2. T # {}
    <3>1. In({}) = {}
      OBVIOUS
    <3>2. Cardinality({}) = 0 /\ Total(c, {}) = 0
      BY FS_EmptySet, TotalEmpty
    <3>3. Cardinality(In({})) <= Total(c, {})
      <4> HIDE DEF In
      <4> QED
        BY <3>1, <3>2
    <3>4. ~(Cardinality(In(T)) <= Total(c, T))
      BY <2>1
    <3> HIDE DEF In, Q
    <3> QED
      BY <3>3, <3>4
  <2> DEFINE k == One(T)
             U == T \ {k}
             A == {n \in S : kind[n] = k}
  <2>3. k \in T /\ k \in K /\ U \in SUBSET T /\ U # T /\ IsFiniteSet(T) /\ IsFiniteSet(U)
    BY <2>2, OneOf, FS_Subset
  <2>4. /\ IsFiniteSet(In(T)) /\ IsFiniteSet(In(U)) /\ IsFiniteSet(A)
        /\ In(T) = In(U) \cup A /\ In(U) \cap A = {}
    <3>1. In(T) \subseteq S /\ In(U) \subseteq S /\ A \subseteq S
      OBVIOUS
    <3>2. In(T) = In(U) \cup A /\ In(U) \cap A = {}
      BY <2>3
    <3> HIDE DEF In, A
    <3> QED
      BY <3>1, <3>2, FS_Subset
  <2>5. Cardinality(In(U)) <= Total(c, U)
    BY <2>1, <2>3
  <2>6. Total(c, T) = c[k] + Total(c, U)
    BY <2>2, <2>3, TotalOf
  <2>7. c[k] \in Nat /\ Cardinality(A) <= c[k] /\ Total(c, U) \in Nat
    <3>1. \A x \in U : c[x] \in Nat
      OBVIOUS
    <3> QED
      BY <2>3, <3>1, TotalNat
  <2> HIDE DEF In, A, k, U
  <2>8. Cardinality(In(T)) = Cardinality(In(U)) + Cardinality(A) - 0
    BY <2>4, FS_Union, FS_EmptySet
  <2>9. Cardinality(In(U)) \in Nat /\ Cardinality(A) \in Nat
    BY <2>4, FS_CardinalityType
  <2>10. Cardinality(In(T)) <= Total(c, T)
    BY <2>5, <2>6, <2>7, <2>8, <2>9
  <2> QED
    BY <2>1, <2>10
<1>2. Cardinality(In(K)) <= Total(c, K)
  BY <1>1
<1>3. In(K) = S
  OBVIOUS
<1> HIDE DEF In
<1> QED
  BY <1>2, <1>3

-----------------------------------------------------------------------------
(* Places in a list.                                                       *)

Newer(S, n) == {m \in S : m > n}
Rank(S, n)  == Cardinality(Newer(S, n))

LEMMA RowsFinite ==
  ASSUME NEW S \in SUBSET Rows
  PROVE  /\ IsFiniteSet(S) /\ Cardinality(S) \in 0..Cardinality(Rows)
         /\ \A T \in SUBSET S : Cardinality(T) <= Cardinality(S)
<1>1. IsFiniteSet(Rows)
  BY ReadAssumption
<1>2. IsFiniteSet(S) /\ Cardinality(S) <= Cardinality(Rows)
  BY <1>1, FS_Subset
<1>3. Cardinality(S) \in Nat /\ Cardinality(Rows) \in Nat
  BY <1>1, <1>2, FS_CardinalityType
<1>4. \A T \in SUBSET S : Cardinality(T) <= Cardinality(S)
  BY <1>2, FS_Subset
<1> QED
  BY <1>2, <1>3, <1>4

\* Places are distinct, and run from 0.
LEMMA RanksDiffer ==
  ASSUME NEW S \in SUBSET Rows
  PROVE  /\ \A n \in S : Rank(S, n) \in Nat /\ Rank(S, n) < Cardinality(S)
         /\ \A m, n \in S : Rank(S, m) = Rank(S, n) => m = n
<1>1. S \subseteq Nat
  BY ReadAssumption
<1>2. ASSUME NEW n \in S PROVE Rank(S, n) \in Nat /\ Rank(S, n) < Cardinality(S)
  <2>1. IsFiniteSet(S) /\ Cardinality(S) \in Nat
    BY RowsFinite, FS_CardinalityType
  <2>2. Newer(S, n) \subseteq S \ {n}
    BY <1>1 DEF Newer
  <2>3. IsFiniteSet(S \ {n}) /\ Cardinality(S \ {n}) = Cardinality(S) - 1
    BY <2>1, FS_RemoveElement
  <2>4. IsFiniteSet(Newer(S, n)) /\ Cardinality(Newer(S, n)) <= Cardinality(S \ {n})
    BY <2>2, <2>3, FS_Subset
  <2>5. Cardinality(Newer(S, n)) \in Nat
    BY <2>4, FS_CardinalityType
  <2> QED
    BY <2>1, <2>3, <2>4, <2>5 DEF Rank
<1>3. ASSUME NEW m \in S, NEW n \in S, m < n PROVE Rank(S, n) < Rank(S, m)
  <2>1. Newer(S, n) \in SUBSET Rows /\ Newer(S, m) \in SUBSET Rows
    BY DEF Newer
  <2>2. Newer(S, n) \cup {n} \subseteq Newer(S, m) /\ n \notin Newer(S, n)
    <3>1. m \in Nat /\ n \in Nat /\ \A k \in S : k \in Nat
      BY <1>1
    <3>2. \A k \in S : k > n => k > m
      BY <1>3, <3>1
    <3>3. n > m /\ ~(n > n)
      BY <1>3, <3>1
    <3> QED
      BY <3>2, <3>3 DEF Newer
  <2>3. IsFiniteSet(Newer(S, n)) /\ IsFiniteSet(Newer(S, m))
    BY <2>1, RowsFinite
  <2>4. Cardinality(Newer(S, n) \cup {n}) = Cardinality(Newer(S, n)) + 1
    BY <2>2, <2>3, FS_AddElement
  <2>5. Cardinality(Newer(S, n) \cup {n}) <= Cardinality(Newer(S, m))
    BY <2>2, <2>3, FS_Subset
  <2>6. Rank(S, n) \in Nat /\ Rank(S, m) \in Nat
    BY <1>2
  <2> QED
    BY <2>4, <2>5, <2>6 DEF Rank
<1>4. ASSUME NEW m \in S, NEW n \in S, Rank(S, m) = Rank(S, n) PROVE m = n
  <2>1. m \in Nat /\ n \in Nat /\ Rank(S, n) \in Nat
    BY <1>1, <1>2
  <2>2. ~(m < n) /\ ~(n < m)
    BY <1>3, <1>4, <2>1
  <2> QED
    BY <2>1, <2>2
<1> QED
  BY <1>2, <1>4

\* As many rows as places.
LEMMA RankedWithin ==
  ASSUME NEW S \in SUBSET Rows, NEW a \in Int, NEW b \in Int
  PROVE  Cardinality({n \in S : Rank(S, n) \in a..b}) <= IF a > b THEN 0 ELSE b - a + 1
<1> DEFINE T == {n \in S : Rank(S, n) \in a..b}
           rank == [n \in T |-> Rank(S, n)]
<1>1. rank \in [T -> a..b]
  OBVIOUS
<1>2. \A m, n \in T : rank[m] = rank[n] => m = n
  BY RanksDiffer
<1>3. rank \in Injection(T, a..b)
  BY <1>1, <1>2 DEF Injection, IsInjective
<1>4. IsFiniteSet(a..b) /\ Cardinality(a..b) = IF a > b THEN 0 ELSE b - a + 1
  BY FS_Interval
<1> HIDE DEF T, rank
<1>5. Cardinality(T) <= Cardinality(a..b)
  BY <1>3, <1>4, FS_Injection
<1> QED
  BY <1>4, <1>5 DEF T

\* Rows that are inserted push the others down, never up.
LEMMA RankGrows ==
  ASSUME NEW S \in SUBSET Rows, NEW T \in SUBSET S, NEW n
  PROVE  Rank(T, n) <= Rank(S, n)
<1>1. Newer(S, n) \in SUBSET Rows /\ Newer(T, n) \in SUBSET Newer(S, n)
  BY DEF Newer
<1> QED
  BY <1>1, RowsFinite DEF Rank
-----------------------------------------------------------------------------
(* Paging.                                                                 *)

\* A page is full unless the list ends on it: of the rows in front of it and
\* behind it there are no more than places.
LEMMA NewestFillsPage ==
  ASSUME NEW S \in SUBSET Rows, NEW offset \in Nat
  PROVE  \/ Cardinality(Newest(S, offset)) >= Limit
         \/ Cardinality(Newest(S, offset)) >= Cardinality(S) - offset
<1> DEFINE N      == Cardinality(S)
           front  == {n \in S : Rank(S, n) \in 0..offset - 1}
           behind == {n \in S : Rank(S, n) \in offset + Limit..N - 1}
           page   == Newest(S, offset)
<1>1. N \in Nat /\ Limit \in Nat \ {0} /\ IsFiniteSet(S)
  BY RowsFinite, FS_CardinalityType, ReadAssumption
<1>2. S = front \cup (page \cup behind)
  <2>1. page = {n \in S : Rank(S, n) \in offset..offset + Limit - 1}
    BY DEF Newest, Rank, Newer
  <2>2. \A n \in S : Rank(S, n) \in Nat /\ Rank(S, n) < N
    BY RanksDiffer
  <2> HIDE DEF N, page
  <2>3. \A r \in Nat : r < N =>
          r \in 0..offset - 1 \/ r \in offset..offset + Limit - 1 \/ r \in offset + Limit..N - 1
    BY <1>1
  <2> QED
    BY <2>1, <2>2, <2>3
<1>3. IsFiniteSet(front) /\ IsFiniteSet(page) /\ IsFiniteSet(behind)
  <2>1. front \subseteq S /\ page \subseteq S /\ behind \subseteq S
    BY DEF Newest
  <2> QED
    BY <1>1, <2>1, FS_Subset
<1>4. Cardinality(front) <= offset
  <2>1. Cardinality(front) <= IF 0 > offset - 1 THEN 0 ELSE offset - 1 - 0 + 1
    <3>1. 0 \in Int /\ offset - 1 \in Int
      OBVIOUS
    <3> QED
      BY <3>1, RankedWithin
  <2> QED
    BY <2>1
<1>5. Cardinality(behind) <= IF offset + Limit > N - 1 THEN 0 ELSE N - 1 - (offset + Limit) + 1
  <2>1. offset + Limit \in Int /\ N - 1 \in Int
    BY <1>1
  <2> HIDE DEF N
  <2> QED
    BY <2>1, RankedWithin
<1> HIDE DEF front, behind, page, N
<1>6. /\ IsFiniteSet(page \cup behind)
      /\ Cardinality(page \cup behind) <= Cardinality(page) + Cardinality(behind)
      /\ Cardinality(front \cup (page \cup behind)) <= Cardinality(front) + Cardinality(page \cup behind)
  <2>1. \A A, B : IsFiniteSet(A) /\ IsFiniteSet(B) =>
          IsFiniteSet(A \cup B) /\ Cardinality(A \cup B) <= Cardinality(A) + Cardinality(B)
    <3> SUFFICES ASSUME NEW A, NEW B, IsFiniteSet(A), IsFiniteSet(B)
                 PROVE  IsFiniteSet(A \cup B) /\ Cardinality(A \cup B) <= Cardinality(A) + Cardinality(B)
      OBVIOUS
    <3>1. /\ IsFiniteSet(A \cup B)
          /\ Cardinality(A \cup B) = Cardinality(A) + Cardinality(B) - Cardinality(A \cap B)
      BY FS_Union
    <3>2. IsFiniteSet(A \cap B)
      BY FS_Intersection
    <3>3. Cardinality(A) \in Nat /\ Cardinality(B) \in Nat /\ Cardinality(A \cap B) \in Nat
      BY <3>2, FS_CardinalityType
    <3> QED
      BY <3>1, <3>3
  <2> QED
    BY <1>3, <2>1
<1>7. /\ Cardinality(front) \in Nat /\ Cardinality(page) \in Nat /\ Cardinality(behind) \in Nat
      /\ Cardinality(page \cup behind) \in Nat
  BY <1>3, <1>6, FS_CardinalityType
<1>8. N <= Cardinality(front) + Cardinality(page \cup behind)
  BY <1>2, <1>6 DEF N
<1>9. Cardinality(page) >= Limit \/ Cardinality(page) >= N - offset
  BY <1>1, <1>4, <1>5, <1>6, <1>7, <1>8
<1> QED
  BY <1>9 DEF page, N

\* No more rows lie beyond place c than there are after the first c.
LEMMA BeyondIsRest ==
  ASSUME NEW S \in SUBSET Rows, NEW c \in Nat, c <= Cardinality(S),
         NEW T \in SUBSET S, \A n \in T : Rank(S, n) >= c
  PROVE  Cardinality(T) <= Cardinality(S) - c
<1> DEFINE N    == Cardinality(S)
           rest == {n \in S : Rank(S, n) \in c..N - 1}
<1>1. N \in Nat
  BY RowsFinite, FS_CardinalityType
<1>2. T \subseteq rest
  <2>1. \A n \in T : Rank(S, n) \in Nat /\ Rank(S, n) < N
    BY RanksDiffer
  <2> HIDE DEF N
  <2> QED
    BY <1>1, <2>1
<1>3. Cardinality(rest) <= IF c > N - 1 THEN 0 ELSE N - 1 - c + 1
  <2>1. c \in Int /\ N - 1 \in Int
    BY <1>1
  <2> HIDE DEF N
  <2> QED
    BY <2>1, RankedWithin
<1>4. IsFiniteSet(rest) /\ IsFiniteSet(T)
  <2>1. rest \in SUBSET Rows /\ T \in SUBSET Rows
    OBVIOUS
  <2> HIDE DEF rest
  <2> QED
    BY <2>1, RowsFinite
<1> HIDE DEF rest
<1>5. Cardinality(T) <= Cardinality(rest)
  BY <1>2, <1>4, FS_Subset
<1>6. Cardinality(T) \in Nat /\ Cardinality(rest) \in Nat
  BY <1>4, FS_CardinalityType
<1>7. c <= N
  OBVIOUS
<1> HIDE DEF N
<1>8. Cardinality(T) <= N - c
  BY <1>1, <1>3, <1>5, <1>6, <1>7
<1> QED
  BY <1>8 DEF N
-----------------------------------------------------------------------------
(* The inductive invariant of a walk.                                      *)

Paging == reading \in {"count", "page", "listed"}

Listed == Matching(walk.filter)     \* what the list holds at the moment

\* Rows that match a lasting filter stay, so that those of the walk's start
\* that were not shown lie beyond the pages shown; what COUNT found is there
\* for the page.
WalkInv ==
    /\ reading \in {"page", "listed"} => walk.total = Cardinality(walk.counted)
    /\ Paging /\ walk.filter.status \in Lasting =>
          /\ walk.first \subseteq Listed
          /\ reading # "count" => walk.counted \subseteq Listed
          /\ \A n \in walk.first \ walk.shown :
                Rank(Listed, n) >= IF reading = "listed" THEN walk.offset + Limit
                                   ELSE walk.offset

Inv == TypeOK /\ WalkInv /\ PageIsFull /\ WalkMissesNothing

\* A step that leaves the walk alone and takes no row out of the list.
LEMMA WalkUndisturbed ==
  ASSUME Inv, TypeOK', UNCHANGED walk,
         \/ UNCHANGED reading
         \/ ~Paging /\ ~Paging',
         walk.filter.status \in Lasting => Listed \subseteq Listed'
  PROVE  Inv'
<1>1. CASE UNCHANGED reading
  <2>1. PageIsFull' /\ WalkMissesNothing'
    BY <1>1 DEF Inv, PageIsFull, WalkMissesNothing, LastPage
  <2>2. WalkInv'
    <3>1. reading' \in {"page", "listed"} => walk'.total = Cardinality(walk'.counted)
      BY <1>1 DEF Inv, WalkInv
    <3>2. ASSUME Paging', walk.filter.status \in Lasting
          PROVE  /\ walk.first \subseteq Listed'
                 /\ reading # "count" => walk.counted \subseteq Listed'
                 /\ \A n \in walk.first \ walk.shown :
                       Rank(Listed', n) >= IF reading = "listed" THEN walk.offset + Limit
                                           ELSE walk.offset
      <4>1. Paging /\ Listed \subseteq Listed'
        BY <1>1, <3>2 DEF Paging
      <4>2. /\ walk.first \subseteq Listed
            /\ reading # "count" => walk.counted \subseteq Listed
            /\ \A n \in walk.first \ walk.shown :
                  Rank(Listed, n) >= IF reading = "listed" THEN walk.offset + Limit
                                     ELSE walk.offset
        BY <3>2, <4>1 DEF Inv, WalkInv
      <4>3. ASSUME NEW n \in walk.first \ walk.shown
            PROVE  Rank(Listed', n) >= IF reading = "listed" THEN walk.offset + Limit
                                       ELSE walk.offset
        <5>1. Listed' \in SUBSET Rows /\ Listed \in SUBSET Rows
          BY DEF Listed, Matching, Inv, TypeOK, Queries
        <5>2. Rank(Listed, n) <= Rank(Listed', n)
          BY <4>1, <5>1, RankGrows
        <5>3. /\ Rank(Listed, n) \in Nat /\ Rank(Listed', n) \in Nat
              /\ walk.offset \in Nat /\ Limit \in Nat
          <6>1. n \in Listed /\ n \in Listed'
            BY <4>1, <4>2, <4>3
          <6> QED
            BY <5>1, <6>1, RanksDiffer, ReadAssumption DEF Inv, TypeOK
        <5> QED
          BY <4>2, <4>3, <5>2, <5>3
      <4> QED
        BY <4>1, <4>2, <4>3
    <3> QED
      BY <1>1, <3>1, <3>2 DEF WalkInv
  <2> QED
    BY <2>1, <2>2 DEF Inv
<1>2. CASE ~Paging /\ ~Paging'
  BY <1>2 DEF Inv, Paging, WalkInv, PageIsFull, WalkMissesNothing
<1> QED
  BY <1>1, <1>2

\* A delivery, or a row's insertion, takes nothing out of a lasting list.
LEMMA StaysListed ==
  ASSUME TypeOK, UNCHANGED walk, NEW n \in Rows, NEW s \in Inflight \cup Settled,
         status[n] \notin Settled,
         status' = [status EXCEPT ![n] = s],
         walk.filter.status \in Lasting
  PROVE  Listed \subseteq Listed'
<1> SUFFICES ASSUME NEW m \in Listed PROVE m \in Listed'
  OBVIOUS
<1>1. /\ m \in walk.filter.among /\ m \in Rows
      /\ status[m] # "absent" /\ walk.filter.status \in {Any, status[m]}
  BY DEF Listed, Matching, TypeOK, Queries
<1>2. CASE m = n
  <2>1. walk.filter.status = Any
    BY <1>1, <1>2 DEF Lasting
  <2>2. status'[m] = s /\ s # "absent"
    BY <1>2 DEF TypeOK, Inflight, Settled
  <2> QED
    BY <1>1, <2>1, <2>2 DEF Listed, Matching
<1>3. CASE m # n
  BY <1>1, <1>3 DEF TypeOK, Listed, Matching
<1> QED
  BY <1>2, <1>3

LEMMA RowKeepsInv ==
  ASSUME Inv, NEW n \in Rows, Insert(n) \/ Claim(n) \/ Deliver(n)
  PROVE  Inv'
<1>1. TypeOK
  BY DEF Inv
<1>2. CASE Insert(n) \/ Claim(n)
  <2>1. PICK s \in Inflight \cup Settled : status' = [status EXCEPT ![n] = s]
    BY <1>2 DEF Insert, Claim, Inflight
  <2>2. status[n] \notin Settled /\ UNCHANGED <<hour, counts, observed, reading, walk, summary>>
    BY <1>2 DEF Insert, Claim, Settled
  <2>3. TypeOK'
    BY <1>1, <2>1, <2>2 DEF TypeOK
  <2>4. walk.filter.status \in Lasting => Listed \subseteq Listed'
    BY <1>1, <2>1, <2>2, StaysListed
  <2> QED
    BY <2>2, <2>3, <2>4, WalkUndisturbed
<1>3. CASE Deliver(n)
  <2>1. PICK s \in Inflight \cup Settled : status' = [status EXCEPT ![n] = s]
    BY <1>3 DEF Deliver, Inflight
  <2>2. status[n] \notin Settled /\ UNCHANGED <<hour, reading, walk, summary>>
    BY <1>3 DEF Deliver, Settled
  <2>3. PICK x \in Latencies : Observe(VendorOf[n], x)
    BY <1>3 DEF Deliver
  <2>4. counts' \in [Vendors -> [DOMAIN Buckets -> Nat]]
    <3> DEFINE v == VendorOf[n]
               b == [i \in DOMAIN Buckets |->
                       IF x <= Buckets[i] THEN counts[v][i] + 1 ELSE counts[v][i]]
    <3>1. v \in Vendors
      BY DEF Vendors
    <3>2. counts \in [Vendors -> [DOMAIN Buckets -> Nat]]
      BY <1>1 DEF TypeOK
    <3>3. b \in [DOMAIN Buckets -> Nat]
      <4>1. \A i \in DOMAIN Buckets : counts[v][i] \in Nat
        BY <3>1, <3>2
      <4> HIDE DEF v
      <4>2. \A i \in DOMAIN Buckets :
              (IF x <= Buckets[i] THEN counts[v][i] + 1 ELSE counts[v][i]) \in Nat
        BY <4>1
      <4> QED
        BY <4>2
    <3>4. counts' = [counts EXCEPT ![v] = b]
      BY <2>3 DEF Observe
    <3> HIDE DEF v, b
    <3> QED
      BY <3>1, <3>2, <3>3, <3>4
  <2>5. observed' \in [Latencies -> Nat]
    BY <1>1, <2>3 DEF Observe, TypeOK
  <2>6. TypeOK'
    BY <1>1, <2>1, <2>2, <2>4, <2>5 DEF TypeOK
  <2>7. walk.filter.status \in Lasting => Listed \subseteq Listed'
    BY <1>1, <2>1, <2>2, StaysListed
  <2> QED
    BY <2>2, <2>6, <2>7, WalkUndisturbed
<1> QED
  BY <1>2, <1>3

LEMMA CountTyped ==
  /\ \A S \in SUBSET Rows : \A states : Count(S, states) \in Numbers
  /\ Cardinality(Stored) \in Numbers /\ 0 \in Numbers
<1>1. \A S \in SUBSET Rows : Cardinality(S) \in Numbers
  BY RowsFinite DEF Numbers
<1>2. Cardinality({}) = 0
  BY FS_EmptySet
<1>3. {} \in SUBSET Rows /\ Stored \in SUBSET Rows
  BY DEF Stored
<1>4. \A S \in SUBSET Rows : \A states : With(S, states) \in SUBSET Rows
  BY DEF With
<1> QED
  BY <1>1, <1>2, <1>3, <1>4 DEF Count

\* The clock, and the dashboard's statements.
LEMMA SummaryKeepsInv ==
  ASSUME Inv,
         \/ HourPasses \/ StartSummary
         \/ SelectInflight \/ SelectDlqTotal \/ SelectRate \/ SelectTrend \/ SelectVendors
         \/ CloseSummary
  PROVE  Inv'
<1>1. TypeOK
  BY DEF Inv
<1>2. UNCHANGED <<status, counts, observed, walk>> /\ Listed' = Listed
  <2>1. UNCHANGED <<status, counts, observed, walk>>
    BY DEF HourPasses, StartSummary, SelectInflight, SelectDlqTotal, SelectRate, SelectTrend,
       SelectVendors, CloseSummary, Statement, world
  <2> QED
    BY <2>1 DEF Listed, Matching
<1>3. CASE HourPasses
  <2>1. hour' \in 0..LastHour /\ hour' > hour /\ UNCHANGED <<reading, summary>>
    BY <1>1, <1>3, ReadAssumption DEF HourPasses, TypeOK
  <2>2. \A h \in 0..hour : h \in 0..hour'
    BY <1>1, <2>1, ReadAssumption DEF TypeOK
  <2>3. TypeOK'
    BY <1>1, <1>2, <2>1, <2>2 DEF TypeOK
  <2> QED
    BY <1>2, <2>1, <2>3, WalkUndisturbed
<1>4. CASE ~HourPasses
  <2>1. /\ hour' = hour /\ ~Paging /\ ~Paging'
        /\ reading' \in {"idle", "inflight", "dlq", "rate", "trend", "vendors", "answered"}
    BY <1>4 DEF StartSummary, SelectInflight, SelectDlqTotal, SelectRate, SelectTrend,
       SelectVendors, CloseSummary, Statement, world, Paging
  <2> DEFINE Summaries == [hour : 0..hour, rows : Numbers, inflight : Numbers, dlqTotal : Numbers,
                           ok : Numbers, bad : Numbers, trend : Trends, byVendor : Shares]
  <2>2. summary \in Summaries
    BY <1>1 DEF TypeOK
  <2>3. summary' \in Summaries
    <3>1. CASE StartSummary \/ CloseSummary
      <4>1. hour \in 0..hour /\ 0 \in 0..hour
        BY <1>1, ReadAssumption DEF TypeOK
      <4>2. <<>> \in Trends /\ <<>> \in Shares
        BY DEF Trends, Shares
      <4>3. Cardinality(Stored) \in Numbers /\ 0 \in Numbers
        BY CountTyped
      <4>4. NoSummary \in Summaries
        BY <4>1, <4>2, <4>3 DEF NoSummary
      <4>5. \/ summary' = NoSummary
            \/ summary' = [NoSummary EXCEPT !.hour = hour, !.rows = Cardinality(Stored)]
        BY <3>1 DEF StartSummary, CloseSummary
      <4> QED
        BY <4>1, <4>3, <4>4, <4>5
    <3>2. CASE SelectInflight
      BY <2>2, <3>2, CountTyped DEF SelectInflight
    <3>3. CASE SelectDlqTotal
      BY <2>2, <3>3, CountTyped DEF SelectDlqTotal
    <3>4. CASE SelectRate
      <4>1. /\ Count(Recent(summary), {"SUCCEEDED"}) \in Numbers
            /\ Count(Recent(summary), {"DEAD_LETTER"}) \in Numbers
        BY CountTyped DEF Recent, Stored
      <4> QED
        BY <2>2, <3>4, <4>1 DEF SelectRate
    <3>5. CASE SelectTrend
      <4> DEFINE t == [h \in Since(summary)..summary.hour |-> Bucket(h)]
      <4>1. \A h : Bucket(h) \in [ok : Numbers, bad : Numbers, inflight : Numbers]
        BY CountTyped DEF Bucket, Recent, Stored
      <4>2. summary.hour \in 0..LastHour
        BY <1>1, ReadAssumption DEF TypeOK
      <4>3. t \in [summary.hour - TrendHours + 1..summary.hour ->
                      [ok : Numbers, bad : Numbers, inflight : Numbers]]
        BY <4>1 DEF Since
      <4>4. t \in Trends
        BY <4>2, <4>3 DEF Trends
      <4>5. summary' = [summary EXCEPT !.trend = t]
        BY <3>5 DEF SelectTrend
      <4> HIDE DEF t
      <4> QED
        BY <2>2, <4>4, <4>5
    <3>6. CASE SelectVendors
      <4> DEFINE V == {VendorOf[n] : n \in Stored}
                 b == [v \in V |->
                         LET S == {n \in Rows : VendorOf[n] = v}
                         IN  [succeeded |-> Count(S, {"SUCCEEDED"}),
                              dlq |-> Count(S, {"DEAD_LETTER"})]]
      <4>1. V \in SUBSET Vendors
        BY DEF Stored, Vendors
      <4>2. b \in [V -> [succeeded : Numbers, dlq : Numbers]]
        BY CountTyped
      <4>3. summary' = [summary EXCEPT !.byVendor = b]
        BY <3>6 DEF SelectVendors
      <4> HIDE DEF V, b
      <4>4. b \in Shares
        BY <4>1, <4>2 DEF Shares
      <4> QED
        BY <2>2, <4>3, <4>4
    <3> QED
      BY <1>4, <3>1, <3>2, <3>3, <3>4, <3>5, <3>6
  <2>4. TypeOK'
    BY <1>1, <1>2, <2>1, <2>3 DEF TypeOK
  <2> QED
    BY <1>2, <2>1, <2>4, WalkUndisturbed
<1> QED
  BY <1>3, <1>4

LEMMA StartWalkKeepsInv ==
  ASSUME Inv, \E f \in Filters : StartWalk(f)
  PROVE  Inv'
<1>1. PICK f \in Filters : StartWalk(f)
  OBVIOUS
<1>2. f \in Queries
  BY ReadAssumption
<1>3. Matching(f) \in SUBSET Rows
  BY <1>2 DEF Matching, Queries
<1>4. /\ walk' = [NoWalk EXCEPT !.filter = f, !.first = Matching(f)]
      /\ reading' = "count" /\ UNCHANGED <<world, summary>>
  BY <1>1 DEF StartWalk
<1>5. /\ walk' \in [filter : Queries, offset : Nat, total : Nat, late : Nat,
                    items : SUBSET Rows, shown : SUBSET Rows, first : SUBSET Rows,
                    counted : SUBSET Rows]
      /\ walk'.filter = f /\ walk'.first = Matching(f)
      /\ walk'.shown = {} /\ walk'.items = {} /\ walk'.offset = 0
  <2> HIDE DEF Matching
  <2> QED
    BY <1>2, <1>3, <1>4 DEF NoWalk
<1>6. TypeOK'
  BY <1>4, <1>5 DEF Inv, TypeOK, world
<1>7. Listed' = Matching(f)
  BY <1>4, <1>5 DEF Listed, Matching, world
<1>8. \A n \in Matching(f) : Rank(Matching(f), n) \in Nat
  BY <1>3, RanksDiffer
<1>9. WalkInv'
  BY <1>4, <1>5, <1>7, <1>8 DEF WalkInv
<1> QED
  BY <1>4, <1>6, <1>9 DEF Inv, PageIsFull, WalkMissesNothing

LEMMA CountKeepsInv ==
  ASSUME Inv, CountMatching
  PROVE  Inv'
<1>1. TypeOK /\ WalkInv
  BY DEF Inv
<1>2. Listed \in SUBSET Rows /\ Cardinality(Listed) \in Nat /\ Listed' = Listed
  <2>1. Listed \in SUBSET Rows
    BY <1>1 DEF Listed, Matching, TypeOK, Queries
  <2>2. IsFiniteSet(Listed)
    BY <2>1, RowsFinite
  <2>3. Listed' = Listed
    BY <1>1 DEF Listed, Matching, CountMatching, world, TypeOK
  <2> QED
    BY <2>1, <2>2, <2>3, FS_CardinalityType
<1>3. /\ walk' = [walk EXCEPT !.total = Cardinality(Listed), !.counted = Listed]
      /\ reading = "count" /\ reading' = "page" /\ UNCHANGED <<world, summary>>
  BY DEF CountMatching, Listed
<1>4. TypeOK'
  BY <1>1, <1>2, <1>3 DEF TypeOK, world
<1>5. /\ walk'.total = Cardinality(walk'.counted) /\ walk'.counted = Listed
      /\ walk'.filter = walk.filter /\ walk'.first = walk.first
      /\ walk'.shown = walk.shown /\ walk'.offset = walk.offset
  BY <1>1, <1>3 DEF TypeOK
<1>6. WalkInv'
  <2>1. Paging /\ reading # "listed"
    BY <1>3 DEF Paging
  <2> QED
    BY <1>1, <1>2, <1>3, <1>5, <2>1 DEF WalkInv
<1> QED
  BY <1>3, <1>4, <1>6 DEF Inv, PageIsFull, WalkMissesNothing

\* The page comes from a later state of the table than the count.
LEMMA PageKeepsInv ==
  ASSUME Inv, SelectPage
  PROVE  Inv'
<1> DEFINE items == Newest(Listed, walk.offset)
           late  == Cardinality(Listed \ walk.counted)
<1>1. TypeOK /\ WalkInv
  BY DEF Inv
<1>2. /\ walk' = [walk EXCEPT !.items = items, !.shown = walk.shown \cup items, !.late = late]
      /\ reading = "page" /\ reading' = "listed" /\ UNCHANGED <<world, summary>>
  BY DEF SelectPage, Listed
<1>3. /\ Listed \in SUBSET Rows /\ items \subseteq Listed /\ Listed' = Listed
      /\ IsFiniteSet(Listed)
  <2>1. Listed \in SUBSET Rows
    BY <1>1 DEF Listed, Matching, TypeOK, Queries
  <2>2. Listed' = Listed
    BY <1>1 DEF Listed, Matching, SelectPage, world, TypeOK
  <2> QED
    BY <2>1, <2>2, RowsFinite DEF Newest
<1>4. /\ Limit \in Nat \ {0} /\ walk.offset \in Nat /\ walk.total \in Nat
      /\ walk.total = Cardinality(walk.counted) /\ Cardinality(Listed) \in Nat
  BY <1>1, <1>2, <1>3, ReadAssumption, FS_CardinalityType DEF TypeOK, WalkInv
<1>5. late \in Nat
  <2>1. IsFiniteSet(Listed \ walk.counted)
    BY <1>3, FS_Difference
  <2> QED
    BY <2>1, FS_CardinalityType
<1>6. /\ walk'.items = items /\ walk'.shown = walk.shown \cup items /\ walk'.late = late
      /\ walk'.total = walk.total /\ walk'.counted = walk.counted
      /\ walk'.filter = walk.filter /\ walk'.first = walk.first /\ walk'.offset = walk.offset
  <2> HIDE DEF items, late
  <2> QED
    BY <1>1, <1>2 DEF TypeOK
<1>7. TypeOK'
  <2> HIDE DEF items, late
  <2> QED
    BY <1>1, <1>2, <1>3, <1>5, <1>6 DEF TypeOK, world
<1>8. ASSUME walk.filter.status \in Lasting
      PROVE  /\ walk.first \subseteq Listed /\ walk.counted \subseteq Listed
             /\ \A n \in walk.first \ walk'.shown : Rank(Listed, n) >= walk.offset + Limit
  <2>1. /\ walk.first \subseteq Listed /\ walk.counted \subseteq Listed
        /\ \A n \in walk.first \ walk.shown : Rank(Listed, n) >= walk.offset
    BY <1>1, <1>2, <1>8 DEF WalkInv, Paging
  <2>2. ASSUME NEW n \in walk.first \ walk'.shown
        PROVE  Rank(Listed, n) >= walk.offset + Limit
    <3>1. n \in Listed /\ n \notin items /\ Rank(Listed, n) >= walk.offset
      BY <1>6, <2>1, <2>2
    <3>2. Rank(Listed, n) \notin walk.offset..walk.offset + Limit - 1
      BY <3>1 DEF Newest, Rank, Newer
    <3>3. Rank(Listed, n) \in Nat
      BY <1>3, <3>1, RanksDiffer
    <3> QED
      BY <1>4, <3>1, <3>2, <3>3
  <2> QED
    BY <2>1, <2>2
<1>9. WalkInv'
  BY <1>2, <1>3, <1>4, <1>6, <1>8 DEF WalkInv
<1>10. PageIsFull'
  <2> SUFFICES ASSUME walk.filter.status \in Lasting
               PROVE  LET promised == walk.total - walk.offset
                      IN  Cardinality(items) >= IF promised < Limit THEN promised ELSE Limit
    BY <1>6 DEF PageIsFull
  <2>1. Cardinality(walk.counted) <= Cardinality(Listed)
    BY <1>3, <1>8, FS_Subset
  <2>2. Cardinality(items) >= Limit \/ Cardinality(items) >= Cardinality(Listed) - walk.offset
    BY <1>3, <1>4, NewestFillsPage
  <2>3. Cardinality(items) \in Nat
    <3>1. IsFiniteSet(items)
      BY <1>3, FS_Subset
    <3> QED
      BY <3>1, FS_CardinalityType
  <2> HIDE DEF items
  <2> QED
    BY <1>4, <2>1, <2>2, <2>3
<1>11. WalkMissesNothing'
  <2> DEFINE missed == walk.first \ walk'.shown
  <2> SUFFICES ASSUME walk.filter.status \in Lasting, walk.offset + Limit >= walk.total
               PROVE  Cardinality(missed) <= late
    BY <1>6 DEF WalkMissesNothing, LastPage
  <2>1. Cardinality(walk.counted) <= Cardinality(Listed)
    BY <1>3, <1>8, FS_Subset
  <2>2. \A n \in missed : Rank(Listed, n) >= walk.total
    <3>1. \A n \in missed : Rank(Listed, n) \in Nat
      BY <1>3, <1>8, RanksDiffer
    <3> QED
      BY <1>4, <1>8, <3>1
  <2>3. missed \in SUBSET Listed
    BY <1>8
  <2>4. Cardinality(missed) <= Cardinality(Listed) - walk.total
    <3> HIDE DEF missed
    <3> QED
      BY <1>3, <1>4, <2>1, <2>2, <2>3, BeyondIsRest
  <2>5. late = Cardinality(Listed) - walk.total
    <3>1. Listed \cap walk.counted = walk.counted
      BY <1>8
    <3>2. Cardinality(Listed \ walk.counted)
            = Cardinality(Listed) - Cardinality(Listed \cap walk.counted)
      BY <1>3, FS_Difference
    <3> QED
      BY <1>4, <3>1, <3>2
  <2> QED
    BY <2>4, <2>5
<1> QED
  BY <1>7, <1>9, <1>10, <1>11 DEF Inv

LEMMA PagerKeepsInv ==
  ASSUME Inv, NextPage \/ LeaveList
  PROVE  Inv'
<1>1. TypeOK /\ WalkInv
  BY DEF Inv
<1>2. CASE NextPage
  <2>1. /\ walk' = [walk EXCEPT !.offset = walk.offset + Limit, !.items = {}]
        /\ reading = "listed" /\ reading' = "count" /\ UNCHANGED <<world, summary>>
    BY <1>2 DEF NextPage
  <2>2. walk.offset + Limit \in Nat
    BY <1>1, ReadAssumption DEF TypeOK
  <2>3. TypeOK'
    BY <1>1, <2>1, <2>2 DEF TypeOK, world
  <2>4. /\ walk'.filter = walk.filter /\ walk'.first = walk.first
        /\ walk'.shown = walk.shown /\ walk'.offset = walk.offset + Limit
    BY <1>1, <2>1 DEF TypeOK
  <2>5. Listed' = Listed
    BY <2>1, <2>4 DEF Listed, Matching, world
  <2>6. WalkInv'
    BY <1>1, <2>1, <2>4, <2>5 DEF WalkInv, Paging
  <2> QED
    BY <2>1, <2>3, <2>6 DEF Inv, PageIsFull, WalkMissesNothing
<1>3. CASE LeaveList
  <2>1. walk' = NoWalk /\ reading' = "idle" /\ UNCHANGED <<world, summary>>
    BY <1>3 DEF LeaveList
  <2>2. /\ NoWalk \in [filter : Queries, offset : Nat, total : Nat, late : Nat,
                       items : SUBSET Rows, shown : SUBSET Rows, first : SUBSET Rows,
                       counted : SUBSET Rows]
        /\ NoWalk.items \subseteq NoWalk.shown
    BY DEF NoWalk, Queries
  <2>3. TypeOK'
    BY <1>1, <2>1, <2>2 DEF TypeOK, world
  <2> QED
    BY <2>1, <2>3 DEF Inv, WalkInv, Paging, PageIsFull, WalkMissesNothing
<1> QED
  BY <1>2, <1>3

LEMMA InitInv == Init => Inv
<1> SUFFICES ASSUME Init PROVE Inv
  OBVIOUS
<1>1. TypeOK
  <2>1. /\ walk \in [filter : Queries, offset : Nat, total : Nat, late : Nat,
                     items : SUBSET Rows, shown : SUBSET Rows, first : SUBSET Rows,
                     counted : SUBSET Rows]
        /\ walk.items \subseteq walk.shown
    BY DEF Init, NoWalk, Queries
  <2>2. <<>> \in Trends /\ <<>> \in Shares
    BY DEF Trends, Shares
  <2>3. 0 \in Numbers /\ 0 \in 0..0
    BY CountTyped
  <2>4. NoSummary \in [hour : 0..0, rows : Numbers, inflight : Numbers, dlqTotal : Numbers,
                       ok : Numbers, bad : Numbers, trend : Trends, byVendor : Shares]
    BY <2>2, <2>3 DEF NoSummary
  <2>5. 0 \in 0..LastHour
    BY ReadAssumption
  <2> QED
    BY <2>1, <2>4, <2>5 DEF Init, TypeOK
<1> QED
  BY <1>1 DEF Init, Inv, WalkInv, Paging, PageIsFull, WalkMissesNothing

LEMMA StepKeepsInv == Inv /\ [Next]_vars => Inv'
<1> SUFFICES ASSUME Inv, [Next]_vars PROVE Inv'
  OBVIOUS
<1>1. CASE Read
  BY <1>1, StartWalkKeepsInv, CountKeepsInv, PageKeepsInv, PagerKeepsInv, SummaryKeepsInv
  DEF Read
<1>2. CASE \E n \in Rows : Insert(n) \/ Claim(n) \/ Deliver(n)
  BY <1>2, RowKeepsInv
<1>3. CASE HourPasses
  BY <1>3, SummaryKeepsInv
<1>4. CASE UNCHANGED vars
  <2>1. UNCHANGED <<status, hour, counts, observed, reading, walk, summary>>
    BY <1>4 DEF vars, world
  <2>2. TypeOK' /\ Listed' = Listed
    BY <2>1 DEF Inv, TypeOK, Listed, Matching
  <2> QED
    BY <2>1, <2>2, WalkUndisturbed
<1> QED
  BY <1>1, <1>2, <1>3, <1>4 DEF Next

\* Every reachable state satisfies the inductive invariant: what a walk has
\* not shown yet lies beyond its pages, or came in after it began.
THEOREM InvCorrect == Spec => []Inv
BY InitInv, StepKeepsInv, PTL DEF Spec

-----------------------------------------------------------------------------
(* The dashboard's numbers.                                                *)

\* Rows move from the in-flight number to the settled ones while it is
\* composed: what a statement did not count, a later one still finds.
CoversRate ==
    LET t == summary.trend
        later(s) == Count({n \in Rows : HourOf[n] > summary.hour}, {s})
    IN  /\ summary.ok  <= Total([h \in DOMAIN t |-> t[h].ok], DOMAIN t) + later("SUCCEEDED")
        /\ summary.bad <= Total([h \in DOMAIN t |-> t[h].bad], DOMAIN t) + later("DEAD_LETTER")

SummaryInv ==
    /\ reading = "inflight" => summary.rows <= Cardinality(Stored)
    /\ reading \in {"dlq", "rate", "trend", "vendors"} =>
          summary.rows <= summary.inflight + Count(Rows, Settled)
    /\ reading = "trend" =>
          /\ summary.ok  <= Count(Recent(summary), {"SUCCEEDED"})
          /\ summary.bad <= Count(Recent(summary), {"DEAD_LETTER"})
    /\ reading \in {"vendors", "answered"} => CoversRate
    /\ NoRowVanishes

LEMMA NumbersAreNat == Numbers \subseteq Nat
BY RowsFinite DEF Numbers

LEMMA TrendTotals ==
  ASSUME TypeOK
  PROVE  LET t == summary.trend
         IN  /\ Total([h \in DOMAIN t |-> t[h].ok], DOMAIN t) \in Nat
             /\ Total([h \in DOMAIN t |-> t[h].bad], DOMAIN t) \in Nat
<1> DEFINE t == summary.trend
           f == [h \in DOMAIN t |-> t[h].ok]
           g == [h \in DOMAIN t |-> t[h].bad]
<1>1. t \in Trends
  BY DEF TypeOK
<1>2. CASE t = <<>>
  <2>1. DOMAIN t = {}
    BY <1>2
  <2>2. Total(f, {}) = 0 /\ Total(g, {}) = 0
    BY TotalEmpty
  <2> HIDE DEF f, g, t
  <2> QED
    BY <2>1, <2>2 DEF f, g, t
<1>3. CASE t # <<>>
  <2>1. PICK h \in 0..LastHour :
          t \in [h - TrendHours + 1..h -> [ok : Numbers, bad : Numbers, inflight : Numbers]]
    BY <1>1, <1>3 DEF Trends
  <2>2. h - TrendHours + 1 \in Int /\ h \in Int
    BY ReadAssumption
  <2>3. IsFiniteSet(DOMAIN t)
    BY <2>1, <2>2, FS_Interval
  <2>4. \A x \in DOMAIN t : t[x].ok \in Nat /\ t[x].bad \in Nat
    BY <2>1, NumbersAreNat
  <2>5. \A x \in DOMAIN t : f[x] \in Nat /\ g[x] \in Nat
    BY <2>4
  <2> HIDE DEF f, g, t
  <2>6. Total(f, DOMAIN t) \in Nat /\ Total(g, DOMAIN t) \in Nat
    BY <2>3, <2>5, TotalNat
  <2> QED
    BY <2>6 DEF f, g, t
<1> QED
  BY <1>2, <1>3

LEMMA CountsAreNat ==
  ASSUME NEW S \in SUBSET Rows, NEW states
  PROVE  /\ With(S, states) \in SUBSET Rows /\ IsFiniteSet(With(S, states))
         /\ Count(S, states) \in Nat
<1>1. With(S, states) \in SUBSET Rows
  BY DEF With
<1> QED
  BY <1>1, RowsFinite, FS_CardinalityType DEF Count

\* More rows, in more of the states, count for more.
LEMMA CountGrows ==
  ASSUME NEW S \in SUBSET Rows, NEW T \in SUBSET Rows, NEW states,
         \A n \in S : status[n] \in states => n \in T /\ status'[n] \in states
  PROVE  Count(S, states) <= Cardinality({n \in T : status'[n] \in states})
<1>1. /\ {n \in T : status'[n] \in states} \in SUBSET Rows
      /\ With(S, states) \subseteq {n \in T : status'[n] \in states}
  BY DEF With
<1> QED
  BY <1>1, RowsFinite DEF Count

\* A step that leaves the dashboard alone and settled rows settled.
LEMMA SummaryUndisturbed ==
  ASSUME TypeOK, SummaryInv, UNCHANGED <<reading, summary>>,
         Stored \subseteq Stored',
         \A n \in Rows : status[n] \in Settled => status'[n] = status[n]
  PROVE  SummaryInv'
<1>1. Stored \in SUBSET Rows /\ Stored' \in SUBSET Rows
  BY DEF Stored
<1>2. Cardinality(Stored) <= Cardinality(Stored')
  BY <1>1, RowsFinite
<1>3. Count(Rows, Settled) <= Count(Rows, Settled)'
  <2>1. Rows \in SUBSET Rows /\ \A n \in Rows : status[n] \in Settled => status'[n] \in Settled
    OBVIOUS
  <2>2. Count(Rows, Settled) <= Cardinality({n \in Rows : status'[n] \in Settled})
    BY <2>1, CountGrows
  <2> QED
    BY <2>2 DEF Count, With
<1>4. ASSUME NEW s \in Settled
      PROVE  /\ Count(Recent(summary), {s}) <= Count(Recent(summary), {s})'
             /\ Count({n \in Rows : HourOf[n] > summary.hour}, {s})
                  <= Count({n \in Rows : HourOf[n] > summary.hour}, {s})'
  <2>1. /\ Recent(summary) \in SUBSET Rows /\ Recent(summary)' \in SUBSET Rows
        /\ \A n \in Recent(summary) : n \in Recent(summary)'
    BY <1>1 DEF Recent, Since
  <2>2. \A n \in Rows : status[n] \in {s} => status'[n] \in {s}
    OBVIOUS
  <2>3. Count(Recent(summary), {s}) <= Count(Recent(summary), {s})'
    BY <2>1, <2>2, CountGrows DEF Count, With
  <2> DEFINE L == {n \in Rows : HourOf[n] > summary.hour}
  <2>4. L \in SUBSET Rows /\ L' = L
    OBVIOUS
  <2>5. Count(L, {s}) <= Cardinality({n \in L : status'[n] \in {s}})
    <3> HIDE DEF L
    <3> QED
      BY <2>2, <2>4, CountGrows
  <2> QED
    BY <2>3, <2>4, <2>5 DEF Count, With
<1>5. CASE reading \in {"vendors", "answered"}
  <2> DEFINE t == summary.trend
             L == {n \in Rows : HourOf[n] > summary.hour}
             a == Total([h \in DOMAIN t |-> t[h].ok], DOMAIN t)
             b == Total([h \in DOMAIN t |-> t[h].bad], DOMAIN t)
  <2>1. /\ summary.ok <= a + Count(L, {"SUCCEEDED"})
        /\ summary.bad <= b + Count(L, {"DEAD_LETTER"})
    BY <1>5 DEF SummaryInv, CoversRate
  <2>2. a \in Nat /\ b \in Nat
    BY TrendTotals
  <2>3. summary.ok \in Nat /\ summary.bad \in Nat
    BY NumbersAreNat DEF TypeOK
  <2>4. L \in SUBSET Rows /\ L' = L /\ a' = a /\ b' = b
    OBVIOUS
  <2>5. \A s \in Settled : Count(L, {s}) <= Count(L, {s})'
    BY <1>4
  <2>6. \A s \in Settled : Count(L, {s}) \in Nat /\ Count(L, {s})' \in Nat
    <3> SUFFICES ASSUME NEW s \in Settled
                 PROVE  Count(L, {s}) \in Nat /\ Count(L, {s})' \in Nat
      OBVIOUS
    <3>1. With(L, {s})' \in SUBSET Rows /\ With(L, {s}) \in SUBSET Rows
      BY <2>4 DEF With
    <3> HIDE DEF L
    <3> QED
      BY <3>1, RowsFinite, FS_CardinalityType DEF Count
  <2> HIDE DEF L, a, b
  <2>7. /\ summary.ok <= a + Count(L, {"SUCCEEDED"})'
        /\ summary.bad <= b + Count(L, {"DEAD_LETTER"})'
    BY <2>1, <2>2, <2>3, <2>5, <2>6 DEF Settled
  <2>8. CoversRate'
    BY <2>4, <2>7 DEF CoversRate, L, a, b
  <2>9. reading = "vendors" => summary.rows <= summary.inflight + Count(Rows, Settled)'
    <3>1. With(Rows, Settled)' \in SUBSET Rows
      BY DEF With
    <3>2. Count(Rows, Settled) \in Nat /\ Count(Rows, Settled)' \in Nat
      BY <3>1, CountsAreNat, RowsFinite, FS_CardinalityType DEF Count
    <3>3. summary.rows \in Nat /\ summary.inflight \in Nat
      BY NumbersAreNat DEF TypeOK
    <3>4. reading = "vendors" => summary.rows <= summary.inflight + Count(Rows, Settled)
      BY DEF SummaryInv
    <3> QED
      BY <1>3, <3>2, <3>3, <3>4
  <2> QED
    BY <1>5, <2>8, <2>9 DEF SummaryInv, NoRowVanishes
<1>6. CASE reading \notin {"vendors", "answered"}
  <2> DEFINE oks == Count(Recent(summary), {"SUCCEEDED"})
             bads == Count(Recent(summary), {"DEAD_LETTER"})
             done == Count(Rows, Settled)
  <2>1. /\ oks \in Nat /\ oks' \in Nat /\ bads \in Nat /\ bads' \in Nat
        /\ done \in Nat /\ done' \in Nat
        /\ Cardinality(Stored) \in Nat /\ Cardinality(Stored') \in Nat
    <3>1. Recent(summary) \in SUBSET Rows /\ Recent(summary)' \in SUBSET Rows
      BY <1>1 DEF Recent
    <3>2. \A s : /\ With(Recent(summary), s) \in SUBSET Rows
                 /\ With(Recent(summary), s)' \in SUBSET Rows
                 /\ With(Rows, s) \in SUBSET Rows /\ With(Rows, s)' \in SUBSET Rows
      BY <3>1 DEF With
    <3> QED
      BY <1>1, <3>2, RowsFinite, FS_CardinalityType DEF Count
  <2>2. oks <= oks' /\ bads <= bads' /\ done <= done'
    BY <1>3, <1>4 DEF Settled
  <2>3. /\ summary.ok \in Nat /\ summary.bad \in Nat
        /\ summary.rows \in Nat /\ summary.inflight \in Nat
    BY NumbersAreNat DEF TypeOK
  <2>4. /\ reading = "inflight" => summary.rows <= Cardinality(Stored)
        /\ reading \in {"dlq", "rate", "trend"} => summary.rows <= summary.inflight + done
        /\ reading = "trend" => summary.ok <= oks /\ summary.bad <= bads
    BY DEF SummaryInv
  <2> HIDE DEF oks, bads, done
  <2>5. /\ reading = "inflight" => summary.rows <= Cardinality(Stored')
        /\ reading \in {"dlq", "rate", "trend"} => summary.rows <= summary.inflight + done'
        /\ reading = "trend" => summary.ok <= oks' /\ summary.bad <= bads'
    BY <1>2, <2>1, <2>2, <2>3, <2>4
  <2> QED
    BY <1>6, <2>5 DEF SummaryInv, NoRowVanishes, oks, bads, done
<1> QED
  BY <1>5, <1>6

\* Every row is in flight or settled.
LEMMA InflightOrSettled ==
  ASSUME TypeOK
  PROVE  Cardinality(Stored) <= Count(Rows, Inflight) + Count(Rows, Settled)
<1>1. Stored = With(Rows, Inflight) \cup With(Rows, Settled)
  BY DEF TypeOK, Stored, With, Inflight, Settled
<1> DEFINE A == With(Rows, Inflight)
           B == With(Rows, Settled)
<1>2. IsFiniteSet(A) /\ IsFiniteSet(B)
  BY CountsAreNat
<1> HIDE DEF A, B
<1>3. Cardinality(A \cup B) = Cardinality(A) + Cardinality(B) - Cardinality(A \cap B)
  BY <1>2, FS_Union
<1>4. IsFiniteSet(A \cap B)
  BY <1>2, FS_Intersection
<1>5. Cardinality(A) \in Nat /\ Cardinality(B) \in Nat /\ Cardinality(A \cap B) \in Nat
  BY <1>2, <1>4, FS_CardinalityType
<1> QED
  BY <1>1, <1>3, <1>5 DEF Count, A, B

\* A statement reads the table and changes nothing in it.
LEMMA StatementReads ==
  ASSUME NEW now, NEW next, Statement(now, next)
  PROVE  /\ reading = now /\ reading' = next /\ UNCHANGED <<status, hour>>
         /\ Stored' = Stored
         /\ Count(Rows, Settled)' = Count(Rows, Settled)
         /\ \A L, s : Count(L, s)' = Count(L, s)
BY DEF Statement, world, Stored, Count, With

LEMMA FirstStatements ==
  ASSUME TypeOK, SummaryInv, StartSummary \/ SelectInflight \/ SelectDlqTotal \/ CloseSummary
  PROVE  SummaryInv'
<1> USE DEF SummaryInv, NoRowVanishes
<1>1. CASE StartSummary
  <2>1. reading' = "inflight" /\ Stored' = Stored /\ summary'.rows = Cardinality(Stored)
    BY <1>1 DEF StartSummary, NoSummary, world, Stored
  <2>2. Cardinality(Stored) \in Nat
    BY CountTyped, NumbersAreNat
  <2> QED
    BY <2>1, <2>2
<1>2. CASE SelectInflight
  <2>1. /\ summary'.inflight = Count(Rows, Inflight) /\ summary'.rows = summary.rows
        /\ reading = "inflight" /\ reading' = "dlq"
        /\ Count(Rows, Settled)' = Count(Rows, Settled)
    BY <1>2, StatementReads DEF SelectInflight, TypeOK
  <2>2. summary.rows <= Cardinality(Stored)
    BY <2>1
  <2>3. /\ Cardinality(Stored) \in Nat /\ summary.rows \in Nat
        /\ Count(Rows, Inflight) \in Nat /\ Count(Rows, Settled) \in Nat
    BY CountTyped, NumbersAreNat DEF TypeOK
  <2>4. summary.rows <= Count(Rows, Inflight) + Count(Rows, Settled)
    BY <2>2, <2>3, InflightOrSettled
  <2> QED
    BY <2>1, <2>4
<1>3. CASE SelectDlqTotal
  <2>1. /\ summary'.inflight = summary.inflight /\ summary'.rows = summary.rows
        /\ reading = "dlq" /\ reading' = "rate"
        /\ Count(Rows, Settled)' = Count(Rows, Settled)
    BY <1>3, StatementReads DEF SelectDlqTotal, TypeOK
  <2> QED
    BY <2>1
<1>4. CASE CloseSummary
  BY <1>4 DEF CloseSummary
<1> QED
  BY <1>1, <1>2, <1>3, <1>4

LEMMA RateStatement ==
  ASSUME TypeOK, SummaryInv, SelectRate
  PROVE  SummaryInv'
<1> DEFINE oks  == Count(Recent(summary), {"SUCCEEDED"})
           bads == Count(Recent(summary), {"DEAD_LETTER"})
<1>1. /\ reading = "rate" /\ reading' = "trend"
      /\ Stored' = Stored /\ Count(Rows, Settled)' = Count(Rows, Settled)
      /\ \A L, s : Count(L, s)' = Count(L, s)
  BY StatementReads DEF SelectRate
<1>2. summary' = [summary EXCEPT !.ok = oks, !.bad = bads]
  BY DEF SelectRate
<1> HIDE DEF oks, bads
<1>3. /\ summary'.ok = oks /\ summary'.bad = bads /\ summary'.hour = summary.hour
      /\ summary'.rows = summary.rows /\ summary'.inflight = summary.inflight
  BY <1>2 DEF TypeOK
<1>4. Recent(summary)' = Recent(summary)
  BY <1>1, <1>3 DEF Recent, Since
<1>5. Count(Recent(summary), {"SUCCEEDED"})' = oks /\ Count(Recent(summary), {"DEAD_LETTER"})' = bads
  <2>1. /\ Count(Recent(summary), {"SUCCEEDED"})' = Cardinality(With(Recent(summary), {"SUCCEEDED"})')
        /\ Count(Recent(summary), {"DEAD_LETTER"})' = Cardinality(With(Recent(summary), {"DEAD_LETTER"})')
    BY DEF Count
  <2>2. UNCHANGED status
    BY DEF SelectRate, Statement, world
  <2>3. /\ With(Recent(summary), {"SUCCEEDED"})' = With(Recent(summary), {"SUCCEEDED"})
        /\ With(Recent(summary), {"DEAD_LETTER"})' = With(Recent(summary), {"DEAD_LETTER"})
    BY <1>4, <2>2 DEF With
  <2> QED
    BY <2>1, <2>3 DEF Count, oks, bads
<1>6. oks \in Nat /\ bads \in Nat
  BY CountTyped, NumbersAreNat DEF oks, bads, Recent, Stored
<1>7. summary.rows <= summary.inflight + Count(Rows, Settled)
  BY <1>1 DEF SummaryInv
<1> QED
  BY <1>1, <1>3, <1>5, <1>6, <1>7 DEF SummaryInv, NoRowVanishes

\* What of a status the trend's buckets do not count is past their last hour.
LEMMA TrendCounts ==
  ASSUME TypeOK, NEW s,
         NEW c, \A h \in Since(summary)..summary.hour :
                   c[h] = Count({n \in Recent(summary) : HourOf[n] = h}, {s})
  PROVE  Count(Recent(summary), {s})
            <= Total(c, Since(summary)..summary.hour)
                  + Count({n \in Rows : HourOf[n] > summary.hour}, {s})
<1> DEFINE K == Since(summary)..summary.hour
           A == With({n \in Recent(summary) : HourOf[n] <= summary.hour}, {s})
           L == With({n \in Rows : HourOf[n] > summary.hour}, {s})
           R == With(Recent(summary), {s})
<1>1. Recent(summary) \in SUBSET Rows
  BY DEF Recent, Stored
<1>2. /\ A \in SUBSET Rows /\ L \in SUBSET Rows /\ R \in SUBSET Rows
      /\ IsFiniteSet(A) /\ IsFiniteSet(L) /\ IsFiniteSet(R) /\ IsFiniteSet(K)
  <2>1. A \in SUBSET Rows /\ L \in SUBSET Rows /\ R \in SUBSET Rows
    BY <1>1 DEF With
  <2>2. Since(summary) \in Int /\ summary.hour \in Int
    BY ReadAssumption DEF TypeOK, Since
  <2>3. IsFiniteSet(K)
    BY <2>2, FS_Interval
  <2> HIDE DEF A, L, R, K
  <2> QED
    BY <2>1, <2>3, RowsFinite
<1>3. R \subseteq A \cup L
  <2>1. \A n \in Rows : HourOf[n] <= summary.hour \/ HourOf[n] > summary.hour
    BY ReadAssumption DEF TypeOK
  <2> QED
    BY <1>1, <2>1 DEF With
<1>4. \A n \in A : HourOf[n] \in K
  <2>1. \A n \in A : n \in Rows /\ HourOf[n] >= Since(summary) /\ HourOf[n] <= summary.hour
    BY DEF With, Recent, Stored
  <2>2. \A n \in Rows : HourOf[n] \in Int
    BY ReadAssumption
  <2>3. Since(summary) \in Int /\ summary.hour \in Int
    BY ReadAssumption DEF TypeOK, Since
  <2> HIDE DEF A
  <2> QED
    BY <2>1, <2>2, <2>3
<1>5. ASSUME NEW h \in K
      PROVE  c[h] \in Nat /\ Cardinality({n \in A : HourOf[n] = h}) <= c[h]
  <2> DEFINE H == {n \in Recent(summary) : HourOf[n] = h}
  <2>1. H \in SUBSET Rows /\ c[h] = Count(H, {s})
    BY <1>1
  <2>2. {n \in A : HourOf[n] = h} \in SUBSET With(H, {s})
    BY DEF With
  <2> HIDE DEF H, A
  <2>3. With(H, {s}) \in SUBSET Rows /\ Count(H, {s}) \in Nat
    BY <2>1, CountsAreNat
  <2> QED
    BY <2>1, <2>2, <2>3, RowsFinite DEF Count
<1> HIDE DEF A, L, R, K
<1>6. Cardinality(A) <= Total(c, K)
  BY <1>2, <1>4, <1>5, CountedByKind
<1>7. Cardinality(R) <= Cardinality(A) + Cardinality(L)
  <2>1. /\ IsFiniteSet(A \cup L)
        /\ Cardinality(A \cup L) = Cardinality(A) + Cardinality(L) - Cardinality(A \cap L)
    BY <1>2, FS_Union
  <2>2. IsFiniteSet(A \cap L)
    BY <1>2, FS_Intersection
  <2>3. Cardinality(R) <= Cardinality(A \cup L)
    BY <1>2, <1>3, <2>1, FS_Subset
  <2>4. /\ Cardinality(A) \in Nat /\ Cardinality(L) \in Nat /\ Cardinality(R) \in Nat
        /\ Cardinality(A \cap L) \in Nat
    BY <1>2, <2>2, FS_CardinalityType
  <2> QED
    BY <2>1, <2>3, <2>4
<1>8. Total(c, K) \in Nat
  BY <1>2, <1>5, TotalNat
<1>9. Cardinality(A) \in Nat /\ Cardinality(L) \in Nat /\ Cardinality(R) \in Nat
  BY <1>2, FS_CardinalityType
<1>10. Cardinality(R) <= Total(c, K) + Cardinality(L)
  BY <1>6, <1>7, <1>8, <1>9
<1> QED
  BY <1>10 DEF R, L, K, Count

LEMMA TrendStatement ==
  ASSUME TypeOK, SummaryInv, SelectTrend
  PROVE  SummaryInv'
<1> DEFINE K    == Since(summary)..summary.hour
           t    == [h \in K |-> Bucket(h)]
           L    == {n \in Rows : HourOf[n] > summary.hour}
           oks  == [h \in K |-> t[h].ok]
           bads == [h \in K |-> t[h].bad]
<1>1. /\ reading = "trend" /\ reading' = "vendors" /\ UNCHANGED <<status, hour>>
      /\ Count(Rows, Settled)' = Count(Rows, Settled)
  BY StatementReads DEF SelectTrend
<1>2. summary' = [summary EXCEPT !.trend = t]
  BY DEF SelectTrend
<1>3. /\ summary'.ok = summary.ok /\ summary'.bad = summary.bad
      /\ summary'.hour = summary.hour /\ summary'.trend = t
      /\ summary'.rows = summary.rows /\ summary'.inflight = summary.inflight
  <2> HIDE DEF t
  <2> QED
    BY <1>2 DEF TypeOK
<1>4. /\ summary.ok <= Count(Recent(summary), {"SUCCEEDED"})
      /\ summary.bad <= Count(Recent(summary), {"DEAD_LETTER"})
      /\ summary.rows <= summary.inflight + Count(Rows, Settled)
  BY <1>1 DEF SummaryInv
<1>5. \A h \in K : /\ oks[h] = Count({n \in Recent(summary) : HourOf[n] = h}, {"SUCCEEDED"})
                   /\ bads[h] = Count({n \in Recent(summary) : HourOf[n] = h}, {"DEAD_LETTER"})
  BY DEF Bucket
<1>6. /\ IsFiniteSet(K)
      /\ Total(oks, K) \in Nat /\ Total(bads, K) \in Nat
  <2>1. Since(summary) \in Int /\ summary.hour \in Int
    BY ReadAssumption DEF TypeOK, Since
  <2>2. IsFiniteSet(K)
    BY <2>1, FS_Interval
  <2>3. ASSUME NEW h \in K PROVE oks[h] \in Nat /\ bads[h] \in Nat
    <3> DEFINE H == {n \in Recent(summary) : HourOf[n] = h}
    <3>1. H \in SUBSET Rows
      BY DEF Recent, Stored
    <3>2. oks[h] = Count(H, {"SUCCEEDED"}) /\ bads[h] = Count(H, {"DEAD_LETTER"})
      BY <1>5
    <3> HIDE DEF H, oks, bads
    <3> QED
      BY <3>1, <3>2, CountsAreNat
  <2> HIDE DEF oks, bads, K
  <2> QED
    BY <2>2, <2>3, TotalNat
<1>7. /\ Count(Recent(summary), {"SUCCEEDED"}) <= Total(oks, K) + Count(L, {"SUCCEEDED"})
      /\ Count(Recent(summary), {"DEAD_LETTER"}) <= Total(bads, K) + Count(L, {"DEAD_LETTER"})
  <2> HIDE DEF oks, bads
  <2> QED
    BY <1>5, TrendCounts
<1>8. /\ Count(Recent(summary), {"SUCCEEDED"}) \in Nat
      /\ Count(Recent(summary), {"DEAD_LETTER"}) \in Nat
      /\ Count(L, {"SUCCEEDED"}) \in Nat /\ Count(L, {"DEAD_LETTER"}) \in Nat
      /\ summary.ok \in Nat /\ summary.bad \in Nat
  <2>1. Recent(summary) \in SUBSET Rows /\ L \in SUBSET Rows
    BY DEF Recent, Stored
  <2> HIDE DEF L
  <2> QED
    BY <2>1, CountsAreNat, NumbersAreNat DEF TypeOK
<1>9. /\ summary.ok <= Total(oks, K) + Count(L, {"SUCCEEDED"})
      /\ summary.bad <= Total(bads, K) + Count(L, {"DEAD_LETTER"})
  <2> HIDE DEF oks, bads, K, L
  <2> QED
    BY <1>4, <1>6, <1>7, <1>8
<1>10. CoversRate'
  <2>1. DOMAIN t = K
    OBVIOUS
  <2>2. L' = L /\ \A s : With(L, s)' = With(L, s)
    BY <1>1, <1>3 DEF With
  <2>3. \A s : Count(L, s)' = Count(L, s)
    <3> HIDE DEF L
    <3> QED
      BY <2>2 DEF Count
  <2> HIDE DEF t, K
  <2> QED
    BY <1>3, <1>9, <2>1, <2>2, <2>3 DEF CoversRate
<1> QED
  BY <1>1, <1>3, <1>4, <1>10 DEF SummaryInv, NoRowVanishes

LEMMA VendorStatement ==
  ASSUME TypeOK, SummaryInv, SelectVendors
  PROVE  SummaryInv'
<1> DEFINE V == {VendorOf[n] : n \in Stored}
           c == [v \in V |->
                   LET S == {n \in Rows : VendorOf[n] = v}
                   IN  Count(S, {"SUCCEEDED"}) + Count(S, {"DEAD_LETTER"})]
           b == [v \in V |->
                   LET S == {n \in Rows : VendorOf[n] = v}
                   IN  [succeeded |-> Count(S, {"SUCCEEDED"}), dlq |-> Count(S, {"DEAD_LETTER"})]]
<1>1. reading = "vendors" /\ reading' = "answered" /\ UNCHANGED <<status, hour>>
  BY StatementReads DEF SelectVendors
<1>2. summary' = [summary EXCEPT !.byVendor = b]
  BY DEF SelectVendors
<1>3. /\ summary'.ok = summary.ok /\ summary'.bad = summary.bad
      /\ summary'.hour = summary.hour /\ summary'.trend = summary.trend
      /\ summary'.rows = summary.rows /\ summary'.inflight = summary.inflight
      /\ summary'.byVendor = b
  <2> HIDE DEF b
  <2> QED
    BY <1>2 DEF TypeOK
<1>4. summary.rows <= summary.inflight + Count(Rows, Settled) /\ CoversRate
  BY <1>1 DEF SummaryInv
<1>5. IsFiniteSet(V)
  <2>1. IsFiniteSet(Stored)
    BY RowsFinite DEF Stored
  <2> QED
    BY <2>1, KindsFinite
<1>6. ASSUME NEW v \in V
      PROVE  /\ c[v] \in Nat
             /\ Cardinality({n \in With(Rows, Settled) : VendorOf[n] = v}) <= c[v]
  <2> DEFINE S == {n \in Rows : VendorOf[n] = v}
             A == With(S, {"SUCCEEDED"})
             B == With(S, {"DEAD_LETTER"})
  <2>1. S \in SUBSET Rows /\ c[v] = Cardinality(A) + Cardinality(B)
    BY DEF Count
  <2>2. {n \in With(Rows, Settled) : VendorOf[n] = v} = A \cup B
    BY DEF With, Settled
  <2>3. IsFiniteSet(A) /\ IsFiniteSet(B)
    <3> HIDE DEF S
    <3> QED
      BY <2>1, CountsAreNat
  <2> HIDE DEF S, A, B, c
  <2>4. Cardinality(A \cup B) = Cardinality(A) + Cardinality(B) - Cardinality(A \cap B)
    BY <2>3, FS_Union
  <2>5. IsFiniteSet(A \cap B)
    BY <2>3, FS_Intersection
  <2>6. Cardinality(A) \in Nat /\ Cardinality(B) \in Nat /\ Cardinality(A \cap B) \in Nat
    BY <2>3, <2>5, FS_CardinalityType
  <2>7. Cardinality(A) + Cardinality(B) \in Nat
    BY <2>6
  <2>8. Cardinality(A \cup B) <= Cardinality(A) + Cardinality(B)
    BY <2>4, <2>6
  <2> QED
    BY <2>1, <2>2, <2>7, <2>8
<1>7. Count(Rows, Settled) <= Total(c, V)
  <2>1. \A n \in With(Rows, Settled) : VendorOf[n] \in V
    BY DEF With, Stored, Settled
  <2>2. IsFiniteSet(With(Rows, Settled))
    BY CountsAreNat
  <2> HIDE DEF c, V
  <2> QED
    BY <1>5, <1>6, <2>1, <2>2, CountedByKind DEF Count
<1>8. summary.rows <= summary.inflight + Total(c, V)
  <2>1. Total(c, V) \in Nat
    <3> HIDE DEF c, V
    <3> QED
      BY <1>5, <1>6, TotalNat
  <2>2. summary.rows \in Nat /\ summary.inflight \in Nat /\ Count(Rows, Settled) \in Nat
    BY CountsAreNat, NumbersAreNat DEF TypeOK
  <2> HIDE DEF c, V
  <2> QED
    BY <1>4, <1>7, <2>1, <2>2
<1>9. [v \in DOMAIN b |-> b[v].succeeded + b[v].dlq] = c /\ DOMAIN b = V
  OBVIOUS
<1>10. NoRowVanishes'
  <2> HIDE DEF b, c, V
  <2> QED
    BY <1>3, <1>8, <1>9 DEF NoRowVanishes
<1>11. CoversRate'
  <2>1. /\ {n \in Rows : HourOf[n] > summary.hour}' = {n \in Rows : HourOf[n] > summary.hour}
        /\ \A s : With({n \in Rows : HourOf[n] > summary.hour}, s)'
                    = With({n \in Rows : HourOf[n] > summary.hour}, s)
    BY <1>1, <1>3 DEF With
  <2> HIDE DEF b, c, V
  <2> QED
    BY <1>3, <1>4, <2>1 DEF CoversRate, Count
<1> QED
  BY <1>1, <1>10, <1>11 DEF SummaryInv

\* The steps of everyone else.
LEMMA OthersKeepSummary ==
  ASSUME TypeOK, SummaryInv,
         \/ \E n \in Rows : Insert(n) \/ Claim(n) \/ Deliver(n)
         \/ HourPasses
         \/ UNCHANGED vars
  PROVE  SummaryInv'
<1>1. UNCHANGED <<reading, summary>>
  BY DEF Insert, Claim, Deliver, HourPasses, vars
<1>2. /\ Stored \subseteq Stored'
      /\ \A n \in Rows : status[n] \in Settled => status'[n] = status[n]
  <2>1. CASE \E n \in Rows : Insert(n) \/ Claim(n) \/ Deliver(n)
    <3>1. PICK n \in Rows : Insert(n) \/ Claim(n) \/ Deliver(n)
      BY <2>1
    <3>2. status[n] \notin Settled
      BY <3>1 DEF Insert, Claim, Deliver, Settled
    <3>3. PICK s \in Inflight \cup Settled : status' = [status EXCEPT ![n] = s]
      BY <3>1 DEF Insert, Claim, Deliver, Inflight
    <3> QED
      BY <3>2, <3>3 DEF TypeOK, Stored, Inflight, Settled
  <2>2. CASE HourPasses \/ UNCHANGED vars
    BY <2>2 DEF HourPasses, vars, world, Stored
  <2> QED
    BY <2>1, <2>2
<1> QED
  BY <1>1, <1>2, SummaryUndisturbed

LEMMA StepKeepsSummary ==
  ASSUME TypeOK, SummaryInv, [Next]_vars
  PROVE  SummaryInv'
<1>1. ASSUME \/ \E f \in Filters : StartWalk(f)
             \/ CountMatching \/ SelectPage \/ NextPage \/ LeaveList
      PROVE  SummaryInv'
  <2>1. reading' \in {"count", "page", "listed", "idle"}
    BY <1>1 DEF StartWalk, CountMatching, SelectPage, NextPage, LeaveList
  <2> QED
    BY <2>1 DEF SummaryInv, NoRowVanishes
<1>2. CASE Read
  BY <1>1, <1>2, FirstStatements, RateStatement, TrendStatement, VendorStatement DEF Read
<1>3. CASE \/ \E n \in Rows : Insert(n) \/ Claim(n) \/ Deliver(n)
           \/ HourPasses
           \/ UNCHANGED vars
  BY <1>3, OthersKeepSummary
<1> QED
  BY <1>2, <1>3 DEF Next

-----------------------------------------------------------------------------
(* The histogram.                                                          *)

\* Added up over the vendors, a bucket counts the observations it has room
\* for.
HistogramInv ==
    \A i \in DOMAIN Buckets :
        Merged[i] = Total(observed, {x \in Latencies : x <= Buckets[i]})

LEMMA BucketsTyped ==
  /\ DOMAIN Buckets = 1..Len(Buckets) /\ Len(Buckets) \in Nat \ {0}
  /\ \A i \in DOMAIN Buckets : Buckets[i] \in Nat /\ Buckets[i] > 0
  /\ \A i \in DOMAIN Buckets : i - 1 \in DOMAIN Buckets => Buckets[i - 1] < Buckets[i]
<1>1. Buckets \in Seq(Nat \ {0}) /\ Buckets # <<>>
  BY ReadAssumption
<1>2. DOMAIN Buckets = 1..Len(Buckets) /\ Len(Buckets) \in Nat \ {0}
  BY <1>1
<1>3. \A i \in DOMAIN Buckets : Buckets[i] \in Nat \ {0}
  BY <1>1
<1>4. \A i \in 1..Len(Buckets) - 1 : Buckets[i] < Buckets[i + 1]
  BY ReadAssumption
<1>5. ASSUME NEW i \in DOMAIN Buckets, i - 1 \in DOMAIN Buckets
      PROVE  Buckets[i - 1] < Buckets[i]
  <2>1. i \in Nat /\ i - 1 \in 1..Len(Buckets) - 1 /\ (i - 1) + 1 = i
    BY <1>2, <1>5
  <2>2. Buckets[i - 1] < Buckets[(i - 1) + 1]
    BY <1>4, <2>1
  <2> QED
    BY <2>1, <2>2
<1> QED
  BY <1>2, <1>3, <1>5

LEMMA VendorsFinite == IsFiniteSet(Vendors)
<1>1. IsFiniteSet(Rows)
  BY ReadAssumption
<1> QED
  BY <1>1, KindsFinite DEF Vendors

LEMMA ObserveKeepsHistogram ==
  ASSUME TypeOK, HistogramInv, NEW v \in Vendors, NEW x \in Latencies, Observe(v, x)
  PROVE  HistogramInv'
<1> SUFFICES ASSUME NEW i \in DOMAIN Buckets
             PROVE  Merged'[i] = Total(observed', {y \in Latencies : y <= Buckets[i]})
  BY DEF HistogramInv
<1> DEFINE f == [w \in Vendors |-> counts[w][i]]
           g == [w \in Vendors |-> counts'[w][i]]
           L == {y \in Latencies : y <= Buckets[i]}
<1>1. Merged[i] = Total(f, Vendors) /\ Merged'[i] = Total(g, Vendors)
  BY DEF Merged
<1>2. Total(f, Vendors) = Total(observed, L)
  BY <1>1 DEF HistogramInv
<1>3. /\ \A w \in Vendors : f[w] \in Nat
      /\ \A y \in L : observed[y] \in Nat
      /\ IsFiniteSet(Vendors) /\ IsFiniteSet(L)
  <2>1. L \in SUBSET Latencies
    OBVIOUS
  <2>2. IsFiniteSet(L)
    BY <2>1, FS_Subset, ReadAssumption
  <2> QED
    BY <2>2, VendorsFinite DEF TypeOK
<1>4. /\ \A w \in Vendors \ {v} : g[w] = f[w]
      /\ g[v] = IF x <= Buckets[i] THEN f[v] + 1 ELSE f[v]
  <2>1. counts' = [counts EXCEPT ![v] =
                     [j \in DOMAIN Buckets |-> IF x <= Buckets[j] THEN counts[v][j] + 1
                                               ELSE counts[v][j]]]
    BY DEF Observe
  <2> QED
    BY <2>1 DEF TypeOK
<1>5. /\ \A y \in L \ {x} : observed'[y] = observed[y]
      /\ observed'[x] = observed[x] + 1
  BY DEF Observe, TypeOK
<1> HIDE DEF f, g
<1>6. CASE x <= Buckets[i]
  <2>1. Total(g, Vendors) = Total(f, Vendors) + 1
    BY <1>3, <1>4, <1>6, TotalIncrement
  <2>2. x \in L
    BY <1>6
  <2> HIDE DEF L
  <2>3. Total(observed', L) = Total(observed, L) + 1
    BY <1>3, <1>5, <2>2, TotalIncrement
  <2> QED
    BY <1>1, <1>2, <2>1, <2>3 DEF L
<1>7. CASE ~(x <= Buckets[i])
  <2>1. \A w \in Vendors : g[w] = f[w]
    BY <1>4, <1>7
  <2>2. Total(g, Vendors) = Total(f, Vendors)
    BY <1>3, <2>1, TotalSame
  <2>3. \A y \in L : observed'[y] = observed[y]
    BY <1>5, <1>7
  <2> HIDE DEF L
  <2>4. Total(observed', L) = Total(observed, L)
    BY <1>3, <2>3, TotalSame
  <2> QED
    BY <1>1, <1>2, <2>2, <2>4 DEF L
<1> QED
  BY <1>6, <1>7

LEMMA StepKeepsHistogram ==
  ASSUME TypeOK, HistogramInv, [Next]_vars
  PROVE  HistogramInv'
<1>1. CASE \E n \in Rows : Deliver(n)
  <2>1. PICK n \in Rows : Deliver(n)
    BY <1>1
  <2>2. \E x \in Latencies : Observe(VendorOf[n], x)
    BY <2>1 DEF Deliver
  <2>3. VendorOf[n] \in Vendors
    BY DEF Vendors
  <2> QED
    BY <2>2, <2>3, ObserveKeepsHistogram
<1>2. ASSUME UNCHANGED <<counts, observed>>
      PROVE  HistogramInv'
  BY <1>2 DEF HistogramInv, Merged
<1>3. CASE Read \/ HourPasses \/ (\E n \in Rows : Insert(n) \/ Claim(n)) \/ UNCHANGED vars
  <2>1. UNCHANGED <<counts, observed>>
    <3>1. CASE Read
      BY <3>1 DEF Read, StartWalk, CountMatching, SelectPage, NextPage, LeaveList, StartSummary,
         SelectInflight, SelectDlqTotal, SelectRate, SelectTrend, SelectVendors, CloseSummary,
         Statement, world
    <3>2. CASE HourPasses \/ (\E n \in Rows : Insert(n) \/ Claim(n)) \/ UNCHANGED vars
      BY <3>2 DEF HourPasses, Insert, Claim, vars, world
    <3> QED
      BY <1>3, <3>1, <3>2
  <2> QED
    BY <1>2, <2>1
<1> QED
  BY <1>1, <1>3 DEF Next

LEMMA InitHistogram == Init => HistogramInv
<1> SUFFICES ASSUME Init, NEW i \in DOMAIN Buckets
             PROVE  Merged[i] = Total(observed, {x \in Latencies : x <= Buckets[i]})
  BY DEF HistogramInv
<1> DEFINE f == [w \in Vendors |-> counts[w][i]]
           L == {y \in Latencies : y <= Buckets[i]}
<1>1. Merged[i] = Total(f, Vendors)
  BY DEF Merged
<1>2. (\A w \in Vendors : f[w] = 0) /\ (\A x \in L : observed[x] = 0)
  BY DEF Init
<1>3. IsFiniteSet(Vendors) /\ IsFiniteSet(L)
  <2>1. L \in SUBSET Latencies
    OBVIOUS
  <2>2. IsFiniteSet(L)
    BY <2>1, FS_Subset, ReadAssumption
  <2> QED
    BY <2>2, VendorsFinite
<1> HIDE DEF f, L
<1>4. Total(f, Vendors) = 0 /\ Total(observed, L) = 0
  BY <1>2, <1>3, TotalZero
<1> QED
  BY <1>1, <1>4 DEF L

LEMMA MinOf ==
  ASSUME NEW S \in SUBSET Nat, IsFiniteSet(S), S # {}
  PROVE  Min(S) \in S /\ \A x \in S : Min(S) <= x
<1> DEFINE upTo(x) == {y \in S : y <= x}
           Q == {upTo(x) : x \in S}
<1>1. PICK T \in Q : \A U \in SUBSET T : U # T => U \notin Q
  <2>1. Q \in SUBSET SUBSET S /\ Q # {}
    OBVIOUS
  <2> HIDE DEF Q
  <2> QED
    BY <2>1, LeastSubset
<1>2. PICK x \in S : T = upTo(x)
  OBVIOUS
<1>3. ASSUME NEW y \in S, ~(x <= y) PROVE FALSE
  <2>1. upTo(y) \in SUBSET T /\ x \in T /\ x \notin upTo(y)
    <3>1. \A z \in S : z \in Nat
      OBVIOUS
    <3>2. x <= x /\ \A z \in S : z <= y => z <= x
      BY <1>3, <3>1
    <3> QED
      BY <1>2, <1>3, <3>2
  <2>2. upTo(y) \in Q
    OBVIOUS
  <2> HIDE DEF Q, upTo
  <2> QED
    BY <1>1, <2>1, <2>2
<1>4. \E z \in S : \A y \in S : z <= y
  BY <1>3
<1> QED
  BY <1>4 DEF Min

LEMMA GreatestOf ==
  ASSUME NEW S \in SUBSET Nat, IsFiniteSet(S), S # {}
  PROVE  \E x \in S : \A y \in S : y <= x
<1> DEFINE from(x) == {y \in S : x <= y}
           Q == {from(x) : x \in S}
<1>1. PICK T \in Q : \A U \in SUBSET T : U # T => U \notin Q
  <2>1. Q \in SUBSET SUBSET S /\ Q # {}
    OBVIOUS
  <2> HIDE DEF Q
  <2> QED
    BY <2>1, LeastSubset
<1>2. PICK x \in S : T = from(x)
  OBVIOUS
<1>3. ASSUME NEW y \in S, ~(y <= x) PROVE FALSE
  <2>1. from(y) \in SUBSET T /\ x \in T /\ x \notin from(y)
    <3>1. \A z \in S : z \in Nat
      OBVIOUS
    <3>2. x <= x /\ \A z \in S : y <= z => x <= z
      BY <1>3, <3>1
    <3> QED
      BY <1>2, <1>3, <3>2
  <2>2. from(y) \in Q
    OBVIOUS
  <2> HIDE DEF Q, from
  <2> QED
    BY <1>1, <2>1, <2>2
<1> QED
  BY <1>3

\* How many observations are at most x.
Below(x)    == Total(observed, {y \in Latencies : y <= x})
Enough(n)   == n * 100 >= Percent * Observations
Reaching    == {x \in Latencies : Enough(Below(x))}

LEMMA BelowTyped ==
  ASSUME TypeOK
  PROVE  /\ Observations \in Nat
         /\ \A x \in Nat : Below(x) \in Nat
         /\ \A x, y \in Nat : x <= y => Below(x) <= Below(y)
<1> DEFINE L(x) == {y \in Latencies : y <= x}
<1>1. /\ IsFiniteSet(Latencies) /\ Latencies \subseteq Nat
      /\ \A x \in Latencies : observed[x] \in Nat
  BY ReadAssumption DEF TypeOK
<1>2. \A x : L(x) \in SUBSET Latencies /\ IsFiniteSet(L(x))
  <2>1. \A T \in SUBSET Latencies : IsFiniteSet(T)
    BY <1>1, FS_Subset
  <2> QED
    BY <2>1
<1>3. ASSUME NEW x \in Nat PROVE Below(x) \in Nat
  BY <1>1, <1>2, TotalNat DEF Below
<1>4. ASSUME NEW x \in Nat, NEW y \in Nat, x <= y PROVE Below(x) <= Below(y)
  <2>1. L(x) \in SUBSET L(y)
    <3>1. \A z \in Latencies : z \in Nat
      BY <1>1
    <3>2. \A z \in Latencies : z <= x => z <= y
      BY <1>4, <3>1
    <3> QED
      BY <3>2
  <2>2. Total(observed, L(x)) <= Total(observed, L(y))
    <3>1. IsFiniteSet(L(y)) /\ \A z \in L(y) : observed[z] \in Nat
      BY <1>1, <1>2
    <3> HIDE DEF L
    <3> QED
      BY <2>1, <3>1, TotalSubset
  <2> QED
    BY <2>2 DEF Below
<1>5. Observations \in Nat
  BY <1>1, TotalNat DEF Observations
<1> QED
  BY <1>3, <1>4, <1>5

\* Some latency is the percentile.
LEMMA ReachingNotEmpty ==
  ASSUME TypeOK, Observations > 0
  PROVE  /\ Reaching \in SUBSET Nat /\ IsFiniteSet(Reaching) /\ Reaching # {}
         /\ Min(Reaching) \in Reaching /\ \A x \in Reaching : Min(Reaching) <= x
<1>1. /\ IsFiniteSet(Latencies) /\ Latencies \in SUBSET Nat /\ Percent \in 1..99
      /\ Observations \in Nat
  BY ReadAssumption, BelowTyped
<1>2. Latencies # {}
  <2>1. Total(observed, {}) = 0
    BY TotalEmpty
  <2> QED
    BY <2>1 DEF Observations
<1>3. PICK x \in Latencies : \A y \in Latencies : y <= x
  BY <1>1, <1>2, GreatestOf
<1>4. Below(x) = Observations
  <2>1. {y \in Latencies : y <= x} = Latencies
    BY <1>3
  <2> QED
    BY <2>1 DEF Below, Observations
<1>5. Observations * 100 >= Percent * Observations
  <2>1. \A o \in Nat, p \in 1..99 : o * 100 >= p * o
    OBVIOUS
  <2> QED
    BY <1>1, <2>1
<1>6. x \in Reaching
  BY <1>4, <1>5 DEF Reaching, Enough
<1>7. Reaching \in SUBSET Nat /\ IsFiniteSet(Reaching)
  <2>1. Reaching \in SUBSET Latencies
    BY DEF Reaching
  <2> QED
    BY <1>1, <2>1, FS_Subset
<1> QED
  BY <1>6, <1>7, MinOf

\* The buckets that hold enough observations are those that the percentile
\* fits into.
LEMMA BucketsReachingFit ==
  ASSUME TypeOK, HistogramInv, Observations > 0, NEW i \in DOMAIN Buckets
  PROVE  Enough(Merged[i]) <=> Min(Reaching) <= Buckets[i]
<1> DEFINE m == Min(Reaching)
           B == Buckets[i]
<1>1. /\ m \in Reaching /\ m \in Nat /\ B \in Nat /\ Percent \in 1..99
      /\ Observations \in Nat /\ \A x \in Reaching : m <= x
  BY ReachingNotEmpty, BucketsTyped, BelowTyped, ReadAssumption
<1>2. Merged[i] = Below(B)
  BY DEF HistogramInv, Below
<1>3. Percent * Observations \in Nat /\ Percent * Observations > 0
  <2>1. \A o \in Nat, p \in 1..99 : o > 0 => p * o \in Nat /\ p * o > 0
    OBVIOUS
  <2> QED
    BY <1>1, <2>1
<1>4. ASSUME m <= B PROVE Enough(Below(B))
  <2>1. Below(m) <= Below(B) /\ Below(m) \in Nat /\ Below(B) \in Nat
    BY <1>1, <1>4, BelowTyped
  <2>2. Below(m) * 100 >= Percent * Observations
    BY <1>1 DEF Reaching, Enough
  <2> HIDE DEF m, B
  <2> QED
    BY <1>3, <2>1, <2>2 DEF Enough
<1>5. ASSUME Enough(Below(B)) PROVE m <= B
  <2> DEFINE L == {y \in Latencies : y <= B}
  <2>1. L \in SUBSET Nat /\ IsFiniteSet(L)
    <3>1. L \in SUBSET Latencies
      OBVIOUS
    <3> QED
      BY <3>1, ReadAssumption, FS_Subset
  <2>2. L # {}
    <3>1. Total(observed, {}) = 0 /\ Below(B) = Total(observed, L)
      BY TotalEmpty DEF Below
    <3>2. Below(B) # 0
      BY <1>3, <1>5 DEF Enough
    <3> HIDE DEF L
    <3> QED
      BY <3>1, <3>2
  <2>3. PICK x \in L : \A y \in L : y <= x
    <3> HIDE DEF L
    <3> QED
      BY <2>1, <2>2, GreatestOf
  <2>4. x \in Latencies /\ x <= B /\ x \in Nat
    BY <2>1
  <2>5. Below(x) = Below(B)
    <3>1. \A y \in Latencies : y \in Nat
      BY ReadAssumption
    <3>2. \A y \in Latencies : y <= x <=> y <= B
      <4> HIDE DEF B
      <4>1. \A y \in Latencies : y <= x => y <= B
        BY <1>1, <2>4, <3>1
      <4> QED
        BY <2>3, <4>1
    <3>3. {y \in Latencies : y <= x} = L
      BY <3>2
    <3> QED
      BY <3>3 DEF Below
  <2>6. m <= x
    BY <1>1, <1>5, <2>4, <2>5 DEF Reaching
  <2> HIDE DEF m, B
  <2> QED
    BY <1>1, <2>4, <2>6
<1> QED
  BY <1>2, <1>4, <1>5

\* A value between two bounds, as a share of the way from one to the other.
LEMMA Interpolation ==
  ASSUME NEW lo \in Nat, NEW hi \in Nat, lo < hi,
         NEW part \in Nat, NEW span \in Nat, 0 < part, part <= span
  PROVE  LET num == lo * span + (hi - lo) * part
         IN  lo * span < num /\ num <= hi * span
<1> DEFINE w == hi - lo
<1>1. w \in Nat /\ w > 0 /\ hi = lo + w
  OBVIOUS
<1> HIDE DEF w
<1>2. 0 < w * part /\ w * part <= w * span
  <2>1. w * part \in Nat /\ w * span \in Nat
    BY <1>1
  <2> QED
    BY <1>1, <2>1
<1>3. hi * span = lo * span + w * span
  BY <1>1
<1>4. lo * span \in Nat /\ w * part \in Nat /\ w * span \in Nat
  BY <1>1
<1> QED
  BY <1>2, <1>3, <1>4 DEF w

LEMMA MergedTyped ==
  ASSUME TypeOK, HistogramInv, NEW i \in DOMAIN Buckets
  PROVE  Merged[i] \in Nat
<1>1. Merged[i] = Below(Buckets[i]) /\ Buckets[i] \in Nat
  BY BucketsTyped DEF HistogramInv, Below
<1> QED
  BY <1>1, BelowTyped

\* The bucket of the percentile is the one that is interpolated in: the one
\* before it does not hold enough.
LEMMA PercentileFollows ==
  ASSUME TypeOK, HistogramInv
  PROVE  PercentileInBucket
<1> SUFFICES ASSUME Observations > 0
             PROVE  LET fits == {i \in DOMAIN Buckets : Min(Reaching) <= Buckets[i]}
                        e    == Estimate
                    IN  IF fits = {} THEN e.num = Buckets[Len(Buckets)] * e.den
                        ELSE LET i  == Min(fits)
                                 lo == IF i = 1 THEN 0 ELSE Buckets[i - 1]
                             IN  lo * e.den < e.num /\ e.num <= Buckets[i] * e.den
  BY DEF PercentileInBucket, Reaching, Enough, Below
<1> DEFINE fits    == {i \in DOMAIN Buckets : Min(Reaching) <= Buckets[i]}
           reached == {i \in DOMAIN Buckets : Merged[i] * 100 >= Percent * Observations}
           target  == Percent * Observations
<1>1. fits = reached
  <2>1. \A i \in DOMAIN Buckets : Merged[i] * 100 >= target <=> Min(Reaching) <= Buckets[i]
    BY BucketsReachingFit DEF Enough
  <2> QED
    BY <2>1
<1>2. target \in Nat /\ target > 0
  <2>1. Percent \in 1..99 /\ Observations \in Nat
    BY BelowTyped, ReadAssumption
  <2>2. \A o \in Nat, p \in 1..99 : o > 0 => p * o \in Nat /\ p * o > 0
    OBVIOUS
  <2> QED
    BY <2>1, <2>2
<1>3. CASE reached = {}
  <2>1. Estimate = [num |-> Buckets[Len(Buckets)], den |-> 1]
    BY <1>3 DEF Estimate
  <2>2. Buckets[Len(Buckets)] \in Nat
    BY BucketsTyped
  <2> QED
    BY <1>1, <1>3, <2>1, <2>2
<1>4. CASE reached # {}
  <2> DEFINE i    == Min(reached)
             lo   == IF i = 1 THEN 0 ELSE Buckets[i - 1]
             prev == IF i = 1 THEN 0 ELSE Merged[i - 1]
             span == (Merged[i] - prev) * 100
             part == target - prev * 100
  <2>1. i \in reached /\ \A j \in reached : i <= j
    <3>1. reached \in SUBSET Nat /\ IsFiniteSet(reached)
      <4>1. DOMAIN Buckets = 1..Len(Buckets) /\ Len(Buckets) \in Nat
        BY BucketsTyped
      <4>2. IsFiniteSet(1..Len(Buckets)) /\ 1..Len(Buckets) \subseteq Nat
        BY <4>1, FS_Interval
      <4>3. reached \in SUBSET (1..Len(Buckets))
        BY <4>1
      <4> HIDE DEF reached
      <4> QED
        BY <4>2, <4>3, FS_Subset
    <3> HIDE DEF reached
    <3> QED
      BY <1>4, <3>1, MinOf
  <2>2. Estimate = [num |-> lo * span + (Buckets[i] - lo) * part, den |-> span]
    BY <1>4 DEF Estimate
  <2>3. /\ i \in DOMAIN Buckets /\ i \in Nat /\ Merged[i] \in Nat /\ Merged[i] * 100 >= target
        /\ Buckets[i] \in Nat /\ Buckets[i] > 0
        /\ i # 1 => i - 1 \in DOMAIN Buckets /\ Buckets[i - 1] < Buckets[i]
    <3>1. i \in DOMAIN Buckets /\ Merged[i] * 100 >= target
      BY <2>1
    <3>2. Merged[i] \in Nat
      BY <3>1, MergedTyped
    <3> HIDE DEF i, target
    <3>3. i # 1 => i - 1 \in DOMAIN Buckets
      BY <3>1, BucketsTyped
    <3> QED
      BY <3>1, <3>2, <3>3, BucketsTyped
  <2>4. lo \in Nat /\ lo < Buckets[i]
    <3> HIDE DEF i
    <3> QED
      BY <2>3, BucketsTyped
  <2>5. prev \in Nat /\ prev * 100 < target
    <3>1. CASE i = 1
      BY <1>2, <3>1
    <3>2. CASE i # 1
      <4>1. i - 1 \notin reached
        <5> HIDE DEF i, reached
        <5> QED
          BY <2>1, <2>3
      <4>2. i - 1 \in DOMAIN Buckets /\ Merged[i - 1] \in Nat
        <5> HIDE DEF i
        <5> QED
          BY <2>3, <3>2, MergedTyped
      <4>3. ~(Merged[i - 1] * 100 >= target)
        <5> HIDE DEF i, target
        <5> QED
          BY <4>1, <4>2 DEF target
      <4> HIDE DEF i, target
      <4> QED
        BY <1>2, <3>2, <4>2, <4>3
    <3> QED
      BY <3>1, <3>2
  <2> HIDE DEF i, lo, prev, target
  <2>6. part \in Nat /\ span \in Nat /\ 0 < part /\ part <= span
    BY <1>2, <2>3, <2>5
  <2> HIDE DEF part, span
  <2>7. LET num == lo * span + (Buckets[i] - lo) * part
        IN  lo * span < num /\ num <= Buckets[i] * span
    BY <2>3, <2>4, <2>6, Interpolation
  <2>8. /\ Estimate.den = span
        /\ Estimate.num = lo * span + (Buckets[i] - lo) * part
    BY <2>2
  <2>9. lo * Estimate.den < Estimate.num /\ Estimate.num <= Buckets[i] * Estimate.den
    BY <2>7, <2>8
  <2> HIDE DEF fits, reached
  <2>10. fits # {} /\ Min(fits) = i /\ lo = IF i = 1 THEN 0 ELSE Buckets[i - 1]
    BY <1>1, <1>4 DEF i, lo
  <2> QED
    BY <2>9, <2>10 DEF fits
<1> QED
  BY <1>3, <1>4

-----------------------------------------------------------------------------
(* What the run checks, for every value of the constants.                  *)

\* The table, the histogram and a request's locals have the code's types,
\* whatever is inserted and delivered between a request's statements; the
\* dashboard's numbers never exceed the rows there are.
THEOREM TypeCorrect == Spec => []TypeOK
<1>1. Inv => TypeOK
  BY DEF Inv
<1> QED
  BY <1>1, InvCorrect, PTL

\* A page read after its COUNT is as full as the total promises
\* (query_notifications), for filters rows never leave.
THEOREM PageIsFullCorrect == Spec => []PageIsFull
<1>1. Inv => PageIsFull
  BY DEF Inv
<1> QED
  BY <1>1, InvCorrect, PTL

\* A client that pages to the end of such a list misses no more rows of
\* those it began with than entered the list under its last page.
THEOREM WalkMissesNothingCorrect == Spec => []WalkMissesNothing
<1>1. Inv => WalkMissesNothing
  BY DEF Inv
<1> QED
  BY <1>1, InvCorrect, PTL

\* The invariant of the dashboard's request: which rows each local of
\* metrics_summary stands for, at every statement.
THEOREM SummaryInvariant == Spec => []SummaryInv
<1>1. Init => SummaryInv
  BY DEF Init, SummaryInv, NoRowVanishes
<1>2. TypeOK /\ SummaryInv /\ [Next]_vars => SummaryInv'
  BY StepKeepsSummary
<1> QED
  BY <1>1, <1>2, TypeCorrect, PTL DEF Spec

\* The in-flight, succeeded and dead-letter numbers of a summary together
\* miss no row that was stored when the request began (metrics_summary),
\* whatever is claimed and delivered between its statements.
THEOREM NoRowVanishesCorrect == Spec => []NoRowVanishes
<1>1. SummaryInv => NoRowVanishes
  BY DEF SummaryInv
<1> QED
  BY <1>1, SummaryInvariant, PTL

\* What the success rate counts is in the trend's buckets, but for rows of
\* an hour that began during the request.
THEOREM TrendCoversRateCorrect == Spec => []TrendCoversRate
<1>1. SummaryInv => TrendCoversRate
  BY DEF SummaryInv, CoversRate, TrendCoversRate
<1> QED
  BY <1>1, SummaryInvariant, PTL

\* However the observations of the vendors interleave, what /metrics adds up
\* for a bucket is the number of observations that fit in it.
THEOREM HistogramInvariant == Spec => []HistogramInv
<1>1. TypeOK /\ HistogramInv /\ [Next]_vars => HistogramInv'
  BY StepKeepsHistogram
<1> QED
  BY <1>1, InitHistogram, TypeCorrect, PTL DEF Spec

\* The estimate of estimate_percentile_seconds lies in the bucket of the true
\* percentile of the attempts that were measured since the process started,
\* for any buckets, latencies and percentage.
THEOREM PercentileInBucketCorrect == Spec => []PercentileInBucket
<1>1. TypeOK /\ HistogramInv => PercentileInBucket
  BY PercentileFollows
<1> QED
  BY <1>1, HistogramInvariant, TypeCorrect, PTL
=============================================================================
