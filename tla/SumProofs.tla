------------------------------ MODULE SumProofs ------------------------------
(***************************************************************************)
(* Lemmas about SumFunction, the SUM(...) of the SQL statements: over      *)
(* finite sets it is what adding up one by one gives, whatever the order.  *)
(*                                                                         *)
(* The library folds a CHOOSE-defined function over the subsets of the     *)
(* domain; Table states that recursion, TableExists that it has a          *)
(* solution.  An induction is FiniteInduction applied to the set of the    *)
(* subsets the claim holds of.                                             *)
(***************************************************************************)
EXTENDS Functions, FiniteSetTheorems, TLAPS

Pick(s) == CHOOSE x \in s : TRUE

\* A set that is not empty has a picked element.
LEMMA PickIn == \A s : s # {} => Pick(s) \in s
BY DEF Pick

Table(f, S, h) ==
  h = [s \in SUBSET S |-> IF s = {} THEN 0 ELSE f[Pick(s)] + h[s \ {Pick(s)}]]

\* What is closed under adding an element holds of a finite set: G is the set of
\* the subsets it holds of.
LEMMA FiniteInduction ==
  ASSUME NEW S, IsFiniteSet(S), NEW G \in SUBSET (SUBSET S), {} \in G,
         \A T \in SUBSET S : T # {} /\ (\A x \in T : T \ {x} \in G) => T \in G
  PROVE  S \in G
<1> DEFINE B == {T \in SUBSET S : T \notin G}
           R == StrictSubsetOrdering(S)
<1> SUFFICES ASSUME B # {}
             PROVE  FALSE
  OBVIOUS
<1>1. IsWellFoundedOn(R, FiniteSubsetsOf(S))
  BY FS_StrictSubsetOrderingWellFounded
<1>2. FiniteSubsetsOf(S) = SUBSET S
  BY FS_FiniteSubsetsOfFinite
<1>3. PICK T \in B : \A y \in B : <<y, T>> \notin R
  <2> HIDE DEF R
  <2>1. B \subseteq FiniteSubsetsOf(S)
    BY <1>2
  <2> HIDE DEF B
  <2> QED BY <1>1, <2>1, WFMin
<1>4. \A x \in T : T \ {x} \in G
  <2> SUFFICES ASSUME NEW x \in T, T \ {x} \in B
               PROVE  FALSE
    OBVIOUS
  <2>1. <<T \ {x}, T>> \in R
    BY DEF StrictSubsetOrdering
  <2> QED BY <1>3, <2>1
<1> QED BY <1>4

\* The recursion over the subsets of a finite set has one solution.
LEMMA TableUnique ==
  ASSUME NEW f, NEW S, IsFiniteSet(S), NEW h, NEW k, Table(f, S, h), Table(f, S, k)
  PROVE  h = k
<1> DEFINE G == {T \in SUBSET S : h[T] = k[T]}
<1>1. {} \in G
  BY DEF Table
<1>2. ASSUME NEW T \in SUBSET S, T # {}, \A x \in T : T \ {x} \in G
      PROVE  T \in G
  BY <1>2, PickIn DEF Table
<1>3. ASSUME NEW T \in SUBSET S
      PROVE  h[T] = k[T]
  <2> DEFINE H == G \cap SUBSET T
  <2>1. IsFiniteSet(T)
    BY FS_Subset
  <2>2. {} \in H
    BY <1>1
  <2>3. \A U \in SUBSET T : U # {} /\ (\A x \in U : U \ {x} \in H) => U \in H
    BY <1>2
  <2>4. H \in SUBSET (SUBSET T)
    OBVIOUS
  <2> HIDE DEF H
  <2>5. T \in H
    BY <2>1, <2>2, <2>3, <2>4, FiniteInduction
  <2> QED BY <2>5 DEF H
<1> QED BY <1>3 DEF Table

\* A solution for a set has one for each subset in it.
LEMMA TableRestrict ==
  ASSUME NEW f, NEW S, NEW T \in SUBSET S, NEW h, Table(f, S, h)
  PROVE  \E k : Table(f, T, k) /\ k[T] = h[T]
<1> DEFINE k == [s \in SUBSET T |-> h[s]]
<1>1. Table(f, T, k)
  BY PickIn DEF Table
<1> QED BY <1>1

\* The sum of a finite set is what the solution has at it.
LEMMA TableSum ==
  ASSUME NEW f, NEW S, IsFiniteSet(S), NEW h, Table(f, S, h)
  PROVE  SumFunctionOnSet(f, S) = h[S]
<1> DEFINE C == CHOOSE iter : iter =
                  [s \in SUBSET S |->
                     IF s = {} THEN 0
                     ELSE f[CHOOSE x \in s : TRUE] + iter[s \ {CHOOSE x \in s : TRUE}]]
<1>1. SumFunctionOnSet(f, S) = C[S]
  BY DEF SumFunctionOnSet, FoldFunctionOnSet, MapThenFoldSet
<1>2. Table(f, S, C)
  BY DEF Table, Pick
<1> HIDE DEF C
<1> QED BY <1>1, <1>2, TableUnique

\* The recursion over the subsets of a finite set has a solution.
LEMMA TableExists ==
  ASSUME NEW f, NEW S, IsFiniteSet(S)
  PROVE  \E h : Table(f, S, h)
<1> DEFINE G == {T \in SUBSET S : \E h : Table(f, T, h)}
<1>1. {} \in G
  <2>1. Table(f, {}, [s \in SUBSET {} |-> 0])
    BY DEF Table
  <2> QED BY <2>1
<1>2. ASSUME NEW T \in SUBSET S, T # {}, \A x \in T : T \ {x} \in G
      PROVE  T \in G
  <2> DEFINE v(s) == SumFunctionOnSet(f, s)
             h == [s \in SUBSET T |-> IF s = T THEN f[Pick(T)] + v(T \ {Pick(T)}) ELSE v(s)]
  <2>1. ASSUME NEW s \in SUBSET T, s # T
        PROVE  v(s) = IF s = {} THEN 0 ELSE f[Pick(s)] + v(s \ {Pick(s)})
    <3>1. PICK x \in T : x \notin s
      BY <2>1
    <3>2. PICK k : Table(f, T \ {x}, k)
      BY <1>2
    <3>3. ASSUME NEW u \in SUBSET (T \ {x})
          PROVE  v(u) = k[u]
      <4>1. PICK w : Table(f, u, w) /\ w[u] = k[u]
        BY <3>2, TableRestrict
      <4>2. IsFiniteSet(u)
        BY FS_Subset
      <4> QED BY <4>1, <4>2, TableSum
    <3>4. s \in SUBSET (T \ {x}) /\ s \ {Pick(s)} \in SUBSET (T \ {x})
      BY <3>1
    <3>5. k[s] = IF s = {} THEN 0 ELSE f[Pick(s)] + k[s \ {Pick(s)}]
      BY <3>2, <3>4 DEF Table
    <3> HIDE DEF v
    <3> QED BY <3>3, <3>4, <3>5
  <2> HIDE DEF v
  <2>2. T \ {Pick(T)} # T /\ T \ {Pick(T)} \in SUBSET T
    BY <1>2, PickIn
  <2>3. Table(f, T, h)
    <3>1. ASSUME NEW s \in SUBSET T
          PROVE  h[s] = IF s = {} THEN 0 ELSE f[Pick(s)] + h[s \ {Pick(s)}]
      <4>1. CASE s = T
        BY <4>1, <2>2, <1>2
      <4>2. CASE s # T
        <5>1. s \ {Pick(s)} \in SUBSET T /\ s \ {Pick(s)} # T
          BY <4>2
        <5> QED BY <4>2, <5>1, <2>1
      <4> QED BY <4>1, <4>2
    <3> HIDE DEF h
    <3>2. h = [s \in SUBSET T |-> h[s]]
      BY DEF h
    <3>3. [s \in SUBSET T |-> h[s]] =
            [s \in SUBSET T |-> IF s = {} THEN 0 ELSE f[Pick(s)] + h[s \ {Pick(s)}]]
      BY <3>1
    <3> QED BY <3>2, <3>3 DEF Table
  <2> QED BY <2>3
<1> HIDE DEF G
<1>3. G \in SUBSET SUBSET S
  BY DEF G
<1>4. S \in G
  BY <1>1, <1>2, <1>3, FiniteInduction
<1> QED BY <1>4 DEF G

\* The recursion equation of the sum.
LEMMA SumRecursion ==
  ASSUME NEW f, NEW S, IsFiniteSet(S)
  PROVE  SumFunctionOnSet(f, S) =
           IF S = {} THEN 0 ELSE f[Pick(S)] + SumFunctionOnSet(f, S \ {Pick(S)})
<1> DEFINE T == S \ {Pick(S)}
<1>1. PICK h : Table(f, S, h)
  BY TableExists
<1>2. SumFunctionOnSet(f, S) = h[S]
  BY <1>1, TableSum
<1>3. IsFiniteSet(T) /\ T \in SUBSET S
  BY FS_Subset
<1> HIDE DEF T
<1>4. SumFunctionOnSet(f, T) = h[T]
  BY <1>1, <1>3, TableRestrict, TableSum
<1>5. h[S] = IF S = {} THEN 0 ELSE f[Pick(S)] + h[S \ {Pick(S)}]
  BY <1>1 DEF Table
<1> QED BY <1>2, <1>4, <1>5 DEF T

\* The sum of nothing is zero.
LEMMA SumEmpty ==
  ASSUME NEW f
  PROVE  SumFunctionOnSet(f, {}) = 0
BY FS_EmptySet, SumRecursion

\* A sum of integers is one.
LEMMA SumType ==
  ASSUME NEW f, NEW S, IsFiniteSet(S), \A x \in S : f[x] \in Int
  PROVE  SumFunctionOnSet(f, S) \in Int
<1> DEFINE G == {T \in SUBSET S : SumFunctionOnSet(f, T) \in Int}
<1>1. {} \in G
  BY SumEmpty
<1>2. ASSUME NEW T \in SUBSET S, T # {}, \A x \in T : T \ {x} \in G
      PROVE  T \in G
  <2>1. IsFiniteSet(T)
    BY FS_Subset
  <2>2. Pick(T) \in T
    BY <1>2, PickIn
  <2>3. SumFunctionOnSet(f, T) = f[Pick(T)] + SumFunctionOnSet(f, T \ {Pick(T)})
    BY <1>2, <2>1, SumRecursion
  <2> QED BY <1>2, <2>2, <2>3
<1>3. G \in SUBSET (SUBSET S)
  OBVIOUS
<1> HIDE DEF G
<1>4. S \in G
  BY <1>1, <1>2, <1>3, FiniteInduction
<1> QED BY <1>4 DEF G

\* Functions that agree on a finite set have the same sum over it.
LEMMA SumEqual ==
  ASSUME NEW f, NEW g, NEW S, IsFiniteSet(S), \A x \in S : f[x] = g[x]
  PROVE  SumFunctionOnSet(f, S) = SumFunctionOnSet(g, S)
<1> DEFINE G == {T \in SUBSET S : SumFunctionOnSet(f, T) = SumFunctionOnSet(g, T)}
<1>1. {} \in G
  BY SumEmpty
<1>2. ASSUME NEW T \in SUBSET S, T # {}, \A x \in T : T \ {x} \in G
      PROVE  T \in G
  <2>1. IsFiniteSet(T)
    BY FS_Subset
  <2>2. Pick(T) \in T
    BY <1>2, PickIn
  <2>3. SumFunctionOnSet(f, T) = f[Pick(T)] + SumFunctionOnSet(f, T \ {Pick(T)})
    BY <1>2, <2>1, SumRecursion
  <2>4. SumFunctionOnSet(g, T) = g[Pick(T)] + SumFunctionOnSet(g, T \ {Pick(T)})
    BY <1>2, <2>1, SumRecursion
  <2> QED BY <1>2, <2>2, <2>3, <2>4
<1>3. G \in SUBSET (SUBSET S)
  OBVIOUS
<1> HIDE DEF G
<1>4. S \in G
  BY <1>1, <1>2, <1>3, FiniteInduction
<1> QED BY <1>4 DEF G

\* Whichever element is taken first: the sum does not depend on the order.
LEMMA SumRemove ==
  ASSUME NEW f, NEW S, IsFiniteSet(S), \A x \in S : f[x] \in Int, NEW x \in S
  PROVE  SumFunctionOnSet(f, S) = f[x] + SumFunctionOnSet(f, S \ {x})
<1> DEFINE V(T) == SumFunctionOnSet(f, T)
           G == {T \in SUBSET S : \A y \in T : V(T) = f[y] + V(T \ {y})}
<1>0. ASSUME NEW T \in SUBSET S
      PROVE  IsFiniteSet(T) /\ V(T) \in Int
  <2>1. IsFiniteSet(T)
    BY FS_Subset
  <2> QED BY <2>1, SumType
<1>1. {} \in G
  OBVIOUS
<1>2. ASSUME NEW T \in SUBSET S, T # {}, \A y \in T : T \ {y} \in G
      PROVE  T \in G
  <2> SUFFICES ASSUME NEW y \in T
               PROVE  V(T) = f[y] + V(T \ {y})
    OBVIOUS
  <2> DEFINE p == Pick(T)
  <2>1. p \in T
    BY PickIn
  <2>2. V(T) = f[p] + V(T \ {p})
    BY <1>0, SumRecursion
  <2> HIDE DEF p
  <2>3. CASE y = p
    BY <2>2, <2>3
  <2>4. CASE y # p
    <3>1. V(T \ {p}) = f[y] + V((T \ {p}) \ {y})
      BY <1>2, <2>1, <2>4
    <3>2. V(T \ {y}) = f[p] + V((T \ {y}) \ {p})
      BY <1>2, <2>1, <2>4
    <3>3. (T \ {p}) \ {y} = (T \ {y}) \ {p}
      OBVIOUS
    <3>4. V((T \ {y}) \ {p}) \in Int /\ f[p] \in Int /\ f[y] \in Int
      BY <1>0, <2>1
    <3>5. V((T \ {p}) \ {y}) = V((T \ {y}) \ {p})
      BY <3>3
    <3> HIDE DEF V
    <3> QED BY <2>2, <3>1, <3>2, <3>4, <3>5
  <2> QED BY <2>3, <2>4
<1>3. G \in SUBSET (SUBSET S)
  OBVIOUS
<1> HIDE DEF G
<1>4. S \in G
  BY <1>1, <1>2, <1>3, FiniteInduction
<1> QED BY <1>4 DEF G

\* The sum of one element is its value.
LEMMA SumSingle ==
  ASSUME NEW f, NEW x, f[x] \in Int
  PROVE  SumFunctionOnSet(f, {x}) = f[x]
<1>1. IsFiniteSet({x}) /\ {x} \ {x} = {}
  BY FS_Singleton
<1>2. SumFunctionOnSet(f, {x}) = f[x] + SumFunctionOnSet(f, {x} \ {x})
  BY <1>1, SumRemove
<1> QED BY <1>1, <1>2, SumEmpty

\* The sum of two disjoint sets is that of the one and that of the other.
LEMMA SumUnion ==
  ASSUME NEW f, NEW A, NEW B, IsFiniteSet(A), IsFiniteSet(B), A \cap B = {},
         \A x \in A \cup B : f[x] \in Int
  PROVE  SumFunctionOnSet(f, A \cup B) = SumFunctionOnSet(f, A) + SumFunctionOnSet(f, B)
<1> DEFINE V(T) == SumFunctionOnSet(f, T)
           G == {T \in SUBSET A : V(T \cup B) = V(T) + V(B)}
<1>0. ASSUME NEW T \in SUBSET A
      PROVE  IsFiniteSet(T) /\ IsFiniteSet(T \cup B) /\ V(T) \in Int /\ V(T \cup B) \in Int
  <2>1. IsFiniteSet(T) /\ IsFiniteSet(T \cup B)
    BY FS_Subset, FS_Union
  <2> QED BY <2>1, SumType
<1>1. {} \in G
  <2>1. V({}) = 0 /\ V(B) \in Int /\ {} \cup B = B
    BY SumEmpty, SumType
  <2> QED BY <2>1
<1>2. ASSUME NEW T \in SUBSET A, T # {}, \A y \in T : T \ {y} \in G
      PROVE  T \in G
  <2>1. PICK y \in T : TRUE
    BY <1>2
  <2>2. V(T) = f[y] + V(T \ {y})
    <3>1. IsFiniteSet(T) /\ \A x \in T : f[x] \in Int
      BY <1>0
    <3> QED BY <3>1, SumRemove
  <2>3. V(T \cup B) = f[y] + V((T \cup B) \ {y})
    <3>1. IsFiniteSet(T \cup B) /\ y \in T \cup B /\ \A x \in T \cup B : f[x] \in Int
      BY <1>0
    <3> QED BY <3>1, SumRemove
  <2>4. (T \cup B) \ {y} = (T \ {y}) \cup B
    OBVIOUS
  <2>5. V((T \cup B) \ {y}) = V(T \ {y}) + V(B)
    BY <1>2, <2>4
  <2>6. V(T \ {y}) \in Int /\ V(B) \in Int /\ f[y] \in Int
    BY <1>0, SumType
  <2> HIDE DEF V
  <2>7. V(T \cup B) = V(T) + V(B)
    BY <2>2, <2>3, <2>5, <2>6
  <2> QED BY <2>7
<1>3. G \in SUBSET (SUBSET A)
  OBVIOUS
<1> HIDE DEF G
<1>4. A \in G
  BY <1>1, <1>2, <1>3, FiniteInduction
<1> QED BY <1>4 DEF G

\* A sum over the first places of a sequence, one place further.
LEMMA SumNext ==
  ASSUME NEW f, NEW n \in Nat, \A i \in 1 .. (n + 1) : f[i] \in Int
  PROVE  /\ IsFiniteSet(1 .. n) /\ SumFunctionOnSet(f, 1 .. n) \in Int
         /\ SumFunctionOnSet(f, 1 .. (n + 1)) = SumFunctionOnSet(f, 1 .. n) + f[n + 1]
<1>1. /\ IsFiniteSet(1 .. n) /\ IsFiniteSet(1 .. (n + 1))
      /\ n + 1 \in 1 .. (n + 1) /\ (1 .. (n + 1)) \ {n + 1} = 1 .. n
  BY FS_Interval
<1>2. SumFunctionOnSet(f, 1 .. n) \in Int
  BY <1>1, SumType
<1>3. SumFunctionOnSet(f, 1 .. (n + 1))
        = f[n + 1] + SumFunctionOnSet(f, (1 .. (n + 1)) \ {n + 1})
  BY <1>1, SumRemove
<1>4. f[n + 1] \in Int
  BY <1>1
<1>5. SumFunctionOnSet(f, 1 .. (n + 1)) = f[n + 1] + SumFunctionOnSet(f, 1 .. n)
  BY <1>1, <1>3
<1>6. f[n + 1] + SumFunctionOnSet(f, 1 .. n) = SumFunctionOnSet(f, 1 .. n) + f[n + 1]
  BY <1>2, <1>4
<1> QED BY <1>1, <1>2, <1>5, <1>6

\* Sums add up pointwise.
LEMMA SumPlus ==
  ASSUME NEW f, NEW g, NEW h, NEW S, IsFiniteSet(S),
         \A x \in S : f[x] \in Int /\ g[x] \in Int /\ h[x] = f[x] + g[x]
  PROVE  SumFunctionOnSet(h, S) = SumFunctionOnSet(f, S) + SumFunctionOnSet(g, S)
<1> DEFINE F(T) == SumFunctionOnSet(f, T)
           G(T) == SumFunctionOnSet(g, T)
           H(T) == SumFunctionOnSet(h, T)
           K == {T \in SUBSET S : H(T) = F(T) + G(T)}
<1>1. {} \in K
  <2>1. F({}) = 0 /\ G({}) = 0 /\ H({}) = 0
    BY SumEmpty
  <2> QED BY <2>1
<1>2. ASSUME NEW T \in SUBSET S, T # {}, \A y \in T : T \ {y} \in K
      PROVE  T \in K
  <2>1. IsFiniteSet(T) /\ IsFiniteSet(T \ {Pick(T)}) /\ Pick(T) \in T
    BY <1>2, PickIn, FS_Subset
  <2>2. F(T) = f[Pick(T)] + F(T \ {Pick(T)})
    BY <1>2, <2>1, SumRecursion
  <2>3. G(T) = g[Pick(T)] + G(T \ {Pick(T)})
    BY <1>2, <2>1, SumRecursion
  <2>4. H(T) = h[Pick(T)] + H(T \ {Pick(T)})
    BY <1>2, <2>1, SumRecursion
  <2>5. F(T \ {Pick(T)}) \in Int
    BY <2>1, SumType
  <2>6. G(T \ {Pick(T)}) \in Int
    BY <2>1, SumType
  <2>7. H(T \ {Pick(T)}) = F(T \ {Pick(T)}) + G(T \ {Pick(T)})
    BY <1>2, <2>1
  <2>8. /\ f[Pick(T)] \in Int /\ g[Pick(T)] \in Int
        /\ h[Pick(T)] = f[Pick(T)] + g[Pick(T)]
    BY <2>1
  <2> HIDE DEF F, G, H
  <2>9. H(T) = F(T) + G(T)
    BY <2>2, <2>3, <2>4, <2>5, <2>6, <2>7, <2>8
  <2> QED BY <2>9
<1>3. K \in SUBSET (SUBSET S)
  OBVIOUS
<1> HIDE DEF K
<1>4. S \in K
  BY <1>1, <1>2, <1>3, FiniteInduction
<1> QED BY <1>4 DEF K

\* Zeros sum to zero.
LEMMA SumZero ==
  ASSUME NEW f, NEW S, IsFiniteSet(S), \A x \in S : f[x] = 0
  PROVE  SumFunctionOnSet(f, S) = 0
<1> DEFINE v == SumFunctionOnSet(f, S)
<1>1. v = v + v
  <2>1. \A x \in S : f[x] \in Int /\ f[x] = f[x] + f[x]
    OBVIOUS
  <2> QED BY <2>1, SumPlus
<1>2. v \in Int
  BY SumType
<1> HIDE DEF v
<1>3. v = 0
  BY <1>1, <1>2
<1> QED BY <1>3 DEF v

\* The sum of the negated values is the negated sum.
LEMMA SumNegated ==
  ASSUME NEW f, NEW g, NEW S, IsFiniteSet(S), \A x \in S : f[x] \in Int /\ g[x] = -f[x]
  PROVE  SumFunctionOnSet(g, S) = -SumFunctionOnSet(f, S)
<1> DEFINE zero == [x \in S |-> 0]
<1>1. \A x \in S : zero[x] = f[x] + g[x] /\ f[x] \in Int /\ g[x] \in Int
  OBVIOUS
<1>2. SumFunctionOnSet(zero, S) = 0
  BY SumZero
<1> HIDE DEF zero
<1>3. SumFunctionOnSet(zero, S) = SumFunctionOnSet(f, S) + SumFunctionOnSet(g, S)
  BY <1>1, SumPlus
<1>4. SumFunctionOnSet(f, S) \in Int
  BY <1>1, SumType
<1>5. SumFunctionOnSet(g, S) \in Int
  BY <1>1, SumType
<1> QED BY <1>2, <1>3, <1>4, <1>5

\* Sums subtract pointwise.
LEMMA SumMinus ==
  ASSUME NEW f, NEW g, NEW h, NEW S, IsFiniteSet(S),
         \A x \in S : f[x] \in Int /\ g[x] \in Int /\ h[x] = f[x] - g[x]
  PROVE  SumFunctionOnSet(h, S) = SumFunctionOnSet(f, S) - SumFunctionOnSet(g, S)
<1>1. \A x \in S : g[x] \in Int /\ h[x] \in Int /\ f[x] = g[x] + h[x]
  OBVIOUS
<1>2. SumFunctionOnSet(f, S) = SumFunctionOnSet(g, S) + SumFunctionOnSet(h, S)
  BY <1>1, SumPlus
<1>3. SumFunctionOnSet(g, S) \in Int
  BY SumType
<1>4. SumFunctionOnSet(h, S) \in Int
  BY <1>1, SumType
<1> QED BY <1>2, <1>3, <1>4

\* A sum of naturals is one.
LEMMA SumNat ==
  ASSUME NEW f, NEW S, IsFiniteSet(S), \A x \in S : f[x] \in Nat
  PROVE  SumFunctionOnSet(f, S) \in Nat
<1> DEFINE G == {T \in SUBSET S : SumFunctionOnSet(f, T) \in Nat}
<1>1. {} \in G
  BY SumEmpty
<1>2. ASSUME NEW T \in SUBSET S, T # {}, \A x \in T : T \ {x} \in G
      PROVE  T \in G
  <2>1. IsFiniteSet(T)
    BY FS_Subset
  <2>2. Pick(T) \in T
    BY <1>2, PickIn
  <2>3. SumFunctionOnSet(f, T) = f[Pick(T)] + SumFunctionOnSet(f, T \ {Pick(T)})
    BY <1>2, <2>1, SumRecursion
  <2> QED BY <1>2, <2>2, <2>3
<1>3. G \in SUBSET (SUBSET S)
  OBVIOUS
<1> HIDE DEF G
<1>4. S \in G
  BY <1>1, <1>2, <1>3, FiniteInduction
<1> QED BY <1>4 DEF G

\* With naturals, a subset sums to no more.
LEMMA SumMonotone ==
  ASSUME NEW f, NEW S, IsFiniteSet(S), NEW T \in SUBSET S, \A x \in S : f[x] \in Nat
  PROVE  SumFunctionOnSet(f, T) <= SumFunctionOnSet(f, S)
<1>1. IsFiniteSet(T) /\ IsFiniteSet(S \ T) /\ T \cap (S \ T) = {} /\ T \cup (S \ T) = S
  BY FS_Subset
<1>2. SumFunctionOnSet(f, S) = SumFunctionOnSet(f, T) + SumFunctionOnSet(f, S \ T)
  <2>1. \A x \in T \cup (S \ T) : f[x] \in Int
    OBVIOUS
  <2> QED BY <1>1, <2>1, SumUnion
<1>3. SumFunctionOnSet(f, T) \in Nat
  BY <1>1, SumNat
<1>4. SumFunctionOnSet(f, S \ T) \in Nat
  BY <1>1, SumNat
<1> QED BY <1>1, <1>2, <1>3, <1>4

\* Double counting: a sum is the sum, over the keys, of the sums of the rows
\* that have the key.
LEMMA SumFibres ==
  ASSUME NEW f, NEW S, IsFiniteSet(S), \A x \in S : f[x] \in Int,
         NEW I, IsFiniteSet(I), NEW key, \A x \in S : key[x] \in I,
         NEW h, \A i \in I : h[i] = SumFunctionOnSet(f, {x \in S : key[x] = i})
  PROVE  SumFunctionOnSet(f, S) = SumFunctionOnSet(h, I)
<1> DEFINE V(T) == SumFunctionOnSet(f, T)
           W(J) == SumFunctionOnSet(h, J)
           At(J) == {x \in S : key[x] \in J}
           G == {J \in SUBSET I : V(At(J)) = W(J)}
<1>1. {} \in G
  <2>1. At({}) = {} /\ V({}) = 0 /\ W({}) = 0
    BY SumEmpty
  <2> QED BY <2>1
<1>2. ASSUME NEW J \in SUBSET I, J # {}, \A j \in J : J \ {j} \in G
      PROVE  J \in G
  <2>1. PICK j \in J : TRUE
    BY <1>2
  <2>2. /\ At(J) = At({j}) \cup At(J \ {j})
        /\ At({j}) \cap At(J \ {j}) = {}
        /\ At({j}) = {x \in S : key[x] = j}
        /\ \A x \in At({j}) \cup At(J \ {j}) : f[x] \in Int
    OBVIOUS
  <2>3. IsFiniteSet(J)
    BY FS_Subset
  <2>4. IsFiniteSet(At({j}))
    BY FS_Subset
  <2>5. IsFiniteSet(At(J \ {j}))
    BY FS_Subset
  <2>6. h[j] = V(At({j}))
    BY <2>2
  <2>7. \A i \in J : h[i] \in Int
    <3> SUFFICES ASSUME NEW i \in J
                 PROVE  h[i] \in Int
      OBVIOUS
    <3>1. IsFiniteSet({x \in S : key[x] = i})
      BY FS_Subset
    <3>2. V({x \in S : key[x] = i}) \in Int
      BY <3>1, SumType
    <3> QED BY <3>2
  <2>8. W(J) = h[j] + W(J \ {j})
    BY <2>3, <2>7, SumRemove
  <2> HIDE DEF At
  <2>9. V(At({j}) \cup At(J \ {j})) = V(At({j})) + V(At(J \ {j}))
    BY <2>2, <2>4, <2>5, SumUnion
  <2>10. V(At(J \ {j})) = W(J \ {j})
    BY <1>2, <2>1
  <2>11. V(At(J)) = W(J)
    <3>1. V(At(J)) = V(At({j})) + V(At(J \ {j}))
      BY <2>2, <2>9
    <3> HIDE DEF V, W
    <3> QED BY <2>6, <2>8, <2>10, <3>1
  <2> QED BY <2>11
<1>3. G \in SUBSET (SUBSET I)
  OBVIOUS
<1>4. At(I) = S
  OBVIOUS
<1> HIDE DEF G
<1>5. I \in G
  BY <1>1, <1>2, <1>3, FiniteInduction
<1> QED BY <1>4, <1>5 DEF G

-----------------------------------------------------------------------------
(* The same facts of the sum of a whole function, which is the form the    *)
(* models use: SumFunction([x \in S |-> e]).                               *)

\* The same for SumFunction, which sums a function over its domain: it agrees with
\* any function that has its values.
LEMMA FnOnSet ==
  ASSUME NEW f, NEW g, NEW S, IsFiniteSet(S), DOMAIN g = S, \A x \in S : g[x] = f[x]
  PROVE  SumFunction(g) = SumFunctionOnSet(f, S)
<1>1. SumFunction(g) = SumFunctionOnSet(g, S)
  BY DEF SumFunction
<1>2. SumFunctionOnSet(g, S) = SumFunctionOnSet(f, S)
  BY SumEqual
<1> QED BY <1>1, <1>2

\* SumFunction of integers is an integer.
LEMMA FnType ==
  ASSUME NEW g, IsFiniteSet(DOMAIN g), \A x \in DOMAIN g : g[x] \in Int
  PROVE  SumFunction(g) \in Int
BY SumType DEF SumFunction

\* SumFunction of zeros is zero.
LEMMA FnZero ==
  ASSUME NEW g, IsFiniteSet(DOMAIN g), \A x \in DOMAIN g : g[x] = 0
  PROVE  SumFunction(g) = 0
BY SumZero DEF SumFunction

\* SumFunction adds up pointwise.
LEMMA FnPlus ==
  ASSUME NEW f, NEW g, NEW h, NEW S, IsFiniteSet(S),
         DOMAIN f = S, DOMAIN g = S, DOMAIN h = S,
         \A x \in S : f[x] \in Int /\ g[x] \in Int /\ h[x] = f[x] + g[x]
  PROVE  SumFunction(h) = SumFunction(f) + SumFunction(g)
BY SumPlus DEF SumFunction

\* SumFunction subtracts pointwise.
LEMMA FnMinus ==
  ASSUME NEW f, NEW g, NEW h, NEW S, IsFiniteSet(S),
         DOMAIN f = S, DOMAIN g = S, DOMAIN h = S,
         \A x \in S : f[x] \in Int /\ g[x] \in Int /\ h[x] = f[x] - g[x]
  PROVE  SumFunction(h) = SumFunction(f) - SumFunction(g)
BY SumMinus DEF SumFunction

\* SumFunction of the negated values is negated.
LEMMA FnNegated ==
  ASSUME NEW f, NEW g, NEW S, IsFiniteSet(S), DOMAIN f = S, DOMAIN g = S,
         \A x \in S : f[x] \in Int /\ g[x] = -f[x]
  PROVE  SumFunction(g) = -SumFunction(f)
BY SumNegated DEF SumFunction

\* SumFunction of a function whose domain is split in two.
LEMMA FnUnion ==
  ASSUME NEW f, NEW a, NEW b, IsFiniteSet(DOMAIN a), IsFiniteSet(DOMAIN b),
         DOMAIN f = DOMAIN a \cup DOMAIN b, DOMAIN a \cap DOMAIN b = {},
         \A x \in DOMAIN a : a[x] = f[x] /\ f[x] \in Int,
         \A x \in DOMAIN b : b[x] = f[x] /\ f[x] \in Int
  PROVE  SumFunction(f) = SumFunction(a) + SumFunction(b)
<1>1. SumFunction(a) = SumFunctionOnSet(f, DOMAIN a)
  BY FnOnSet
<1>2. SumFunction(b) = SumFunctionOnSet(f, DOMAIN b)
  BY FnOnSet
<1>3. SumFunctionOnSet(f, DOMAIN a \cup DOMAIN b)
        = SumFunctionOnSet(f, DOMAIN a) + SumFunctionOnSet(f, DOMAIN b)
  <2>1. \A x \in DOMAIN a \cup DOMAIN b : f[x] \in Int
    OBVIOUS
  <2> QED BY <2>1, SumUnion
<1>4. SumFunction(f) = SumFunctionOnSet(f, DOMAIN a \cup DOMAIN b)
  BY DEF SumFunction
<1> QED BY <1>1, <1>2, <1>3, <1>4

\* With naturals, a restriction sums to no more.
LEMMA FnMonotone ==
  ASSUME NEW f, NEW a, IsFiniteSet(DOMAIN f), DOMAIN a \subseteq DOMAIN f,
         \A x \in DOMAIN f : f[x] \in Nat, \A x \in DOMAIN a : a[x] = f[x]
  PROVE  SumFunction(a) <= SumFunction(f)
<1>1. IsFiniteSet(DOMAIN a)
  BY FS_Subset
<1>2. SumFunction(a) = SumFunctionOnSet(f, DOMAIN a)
  BY <1>1, FnOnSet
<1>3. SumFunctionOnSet(f, DOMAIN a) <= SumFunctionOnSet(f, DOMAIN f)
  BY SumMonotone
<1> QED BY <1>2, <1>3 DEF SumFunction

\* Grouped by a key, the sums of the groups sum to the whole.
LEMMA FnFibres ==
  ASSUME NEW f, IsFiniteSet(DOMAIN f), \A x \in DOMAIN f : f[x] \in Int,
         NEW I, IsFiniteSet(I), NEW key, \A x \in DOMAIN f : key[x] \in I,
         NEW h, DOMAIN h = I,
         \A i \in I : h[i] = SumFunction([x \in {y \in DOMAIN f : key[y] = i} |-> f[x]])
  PROVE  SumFunction(f) = SumFunction(h)
<1> DEFINE At(i) == {y \in DOMAIN f : key[y] = i}
<1>1. ASSUME NEW i \in I
      PROVE  h[i] = SumFunctionOnSet(f, At(i))
  <2> DEFINE g == [x \in At(i) |-> f[x]]
  <2>1. IsFiniteSet(At(i))
    BY FS_Subset
  <2>2. DOMAIN g = At(i) /\ \A x \in At(i) : g[x] = f[x]
    OBVIOUS
  <2>3. h[i] = SumFunction(g)
    OBVIOUS
  <2> HIDE DEF g, At
  <2> QED BY <2>1, <2>2, <2>3, FnOnSet
<1>2. SumFunctionOnSet(f, DOMAIN f) = SumFunctionOnSet(h, I)
  BY <1>1, SumFibres
<1> QED BY <1>2 DEF SumFunction
=============================================================================
