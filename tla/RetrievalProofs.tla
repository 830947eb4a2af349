-------------------------- MODULE RetrievalProofs --------------------------
(***************************************************************************)
(* Theorems about the answers of RetrievalRequest, and lemmas about the    *)
(* sort, the fused scores and the stage reports they are built from.       *)
(***************************************************************************)
EXTENDS RetrievalRequest, FiniteSetTheorems, SequenceTheorems,
        WellFoundedInduction, TLAPS

-----------------------------------------------------------------------------
(* Counting up.                                                            *)

\* A set of numbers that is not empty has a least one.
LEMMA Least ==
  ASSUME NEW T \in SUBSET Nat, T # {}
  PROVE  \E x \in T : \A y \in T : x <= y
<1>1. \A x, y \in Nat : <<x, y>> \in OpToRel(<, Nat) <=> x < y
  BY DEF OpToRel
<1>2. \E x \in T : \A y \in T : ~ (<<y, x>> \in OpToRel(<, Nat))
  BY NatLessThanWellFounded, WFMin
<1>3. PICK x \in T : \A y \in T : ~ (<<y, x>> \in OpToRel(<, Nat))
  BY <1>2
<1>4. ASSUME NEW y \in T PROVE x <= y
  <2>1. x \in Nat /\ y \in Nat
    OBVIOUS
  <2>2. ~(y < x)
    BY <1>1, <1>3, <2>1
  <2> QED BY <2>1, <2>2
<1> QED BY <1>4

\* A set of numbers with 0 and every successor up to n holds all up to n.
LEMMA UpTo ==
  ASSUME NEW n \in Nat, NEW P, 0 \in P,
         \A i \in 1 .. n : i - 1 \in P => i \in P
  PROVE  \A i \in 0 .. n : i \in P
<1> SUFFICES ASSUME (0 .. n) \ P # {} PROVE FALSE
  OBVIOUS
<1>1. PICK x \in (0 .. n) \ P : \A y \in (0 .. n) \ P : x <= y
  <2>1. (0 .. n) \ P \in SUBSET Nat
    OBVIOUS
  <2> QED BY <2>1, Least
<1>2. x \in 1 .. n /\ x - 1 \in 0 .. n /\ ~(x <= x - 1)
  BY <1>1
<1>3. x - 1 \in P
  BY <1>1, <1>2
<1> QED BY <1>1, <1>2, <1>3

\* The running sum of a list of numbers.
LEMMA RunningSum ==
  ASSUME NEW n \in Nat, NEW w, \A i \in 1 .. n : w[i] \in Nat
  PROVE  /\ \E sum : sum = [i \in 0 .. n |-> IF i = 0 THEN 0 ELSE sum[i - 1] + w[i]]
         /\ \A sum :
              sum = [i \in 0 .. n |-> IF i = 0 THEN 0 ELSE sum[i - 1] + w[i]] =>
                /\ sum[0] = 0
                /\ \A i \in 1 .. n : sum[i] = sum[i - 1] + w[i]
                /\ \A i \in 0 .. n : sum[i] \in Nat
<1> DEFINE Step(f) == [i \in 0 .. n |-> IF i = 0 THEN 0 ELSE f[i - 1] + w[i]]
           Sums(m, f) == /\ f \in [0 .. m -> Nat]
                         /\ f[0] = 0
                         /\ \A i \in 1 .. m : f[i] = f[i - 1] + w[i]
           P == {m \in 0 .. n : \E f : Sums(m, f)}
<1>1. 0 \in P
  <2>1. Sums(0, [i \in 0 .. 0 |-> 0])
    OBVIOUS
  <2>2. \E f : Sums(0, f)
    <3> HIDE DEF Sums
    <3> QED BY <2>1
  <2> QED BY <2>2
<1>2. ASSUME NEW m \in 1 .. n, m - 1 \in P
      PROVE  m \in P
  <2>1. PICK f : Sums(m - 1, f)
    BY <1>2
  <2> DEFINE g == [i \in 0 .. m |-> IF i = m THEN f[m - 1] + w[m] ELSE f[i]]
  <2>2. f[m - 1] + w[m] \in Nat
    BY <2>1
  <2>3. Sums(m, g)
    <3>1. m - 1 \in Nat /\ m \in Nat /\ m # 0
      OBVIOUS
    <3>2. g \in [0 .. m -> Nat]
      <4>1. ASSUME NEW i \in 0 .. m, i # m PROVE f[i] \in Nat
        BY <2>1, <4>1
      <4> QED BY <2>2, <4>1
    <3>3. g[0] = 0
      BY <2>1, <3>1
    <3>4. ASSUME NEW i \in 1 .. m PROVE g[i] = g[i - 1] + w[i]
      <4>1. CASE i = m
        BY <3>1, <4>1
      <4>2. CASE i # m
        BY <2>1, <4>2
      <4> QED BY <4>1, <4>2
    <3> QED BY <3>2, <3>3, <3>4
  <2>4. \E h : Sums(m, h)
    <3> HIDE DEF Sums, g
    <3> QED BY <2>3
  <2>5. m \in 0 .. n
    OBVIOUS
  <2> HIDE DEF Sums
  <2> QED BY <2>4, <2>5
<1>3. n \in P
  <2> HIDE DEF P
  <2> QED BY <1>1, <1>2, UpTo
<1>4. PICK f : Sums(n, f)
  BY <1>3
<1>5. f = Step(f)
  BY <1>4
<1>6. SUFFICES ASSUME NEW sum, sum = Step(sum)
               PROVE  /\ sum[0] = 0
                      /\ \A i \in 1 .. n : sum[i] = sum[i - 1] + w[i]
                      /\ \A i \in 0 .. n : sum[i] \in Nat
  BY <1>5
<1>7. sum[0] = 0 /\ \A i \in 1 .. n : sum[i] = sum[i - 1] + w[i]
  BY <1>6
<1> DEFINE Q == {i \in 0 .. n : sum[i] \in Nat}
<1>8. \A i \in 0 .. n : i \in Q
  <2>1. 0 \in Q
    BY <1>7
  <2>2. \A i \in 1 .. n : i - 1 \in Q => i \in Q
    BY <1>7
  <2> HIDE DEF Q
  <2> QED BY <2>1, <2>2, UpTo
<1> QED BY <1>7, <1>8

-----------------------------------------------------------------------------
(* The stable sort.                                                        *)

\* Scores of whole numbers put positions into one order.
LEMMA TotalOrder ==
  ASSUME NEW S \in SUBSET Nat, NEW score, \A i \in S : score[i] \in Int
  PROVE  /\ \A i \in S : ~Outranks(score, i, i)
         /\ \A i, j \in S : i = j \/ Outranks(score, i, j) \/ Outranks(score, j, i)
         /\ \A i, j \in S : ~(Outranks(score, i, j) /\ Outranks(score, j, i))
         /\ \A i, j, k \in S :
              Outranks(score, i, j) /\ Outranks(score, j, k) => Outranks(score, i, k)
<1>1. \A i \in S : i \in Nat
  OBVIOUS
<1> QED BY <1>1 DEF Outranks

\* Every position has a place in the order, its own, and a lower one than
\* those it outranks.
LEMMA Places ==
  ASSUME NEW S \in SUBSET Nat, IsFiniteSet(S),
         NEW score, \A i \in S : score[i] \in Int
  PROVE  /\ Cardinality(S) \in Nat
         /\ \A i \in S : Cardinality(Ahead(S, score, i)) \in 0 .. Cardinality(S) - 1
         /\ \A i, j \in S : Outranks(score, i, j) =>
              Cardinality(Ahead(S, score, i)) < Cardinality(Ahead(S, score, j))
         /\ \A n \in 1 .. Cardinality(S) :
              \E i \in S : Cardinality(Ahead(S, score, i)) = n - 1
<1> DEFINE A(i) == Ahead(S, score, i)
           n == Cardinality(S)
           At == [i \in S |-> Cardinality(A(i)) + 1]
<1>1. n \in Nat
  BY FS_CardinalityType
<1>2. ASSUME NEW i \in S
      PROVE  /\ A(i) \in SUBSET S /\ i \notin A(i) /\ IsFiniteSet(A(i))
             /\ Cardinality(A(i)) \in 0 .. n - 1
  <2>1. A(i) \in SUBSET S /\ i \notin A(i)
    BY TotalOrder DEF Ahead
  <2> HIDE DEF A
  <2>2. IsFiniteSet(A(i)) /\ Cardinality(A(i)) <= n /\ Cardinality(A(i)) # n
    BY <2>1, FS_Subset
  <2>3. Cardinality(A(i)) \in Nat
    BY <2>2, FS_CardinalityType
  <2> QED BY <1>1, <2>1, <2>2, <2>3
<1>3. ASSUME NEW i \in S, NEW j \in S, Outranks(score, i, j)
      PROVE  Cardinality(A(i)) < Cardinality(A(j))
  <2>1. A(i) \in SUBSET A(j) /\ i \in A(j)
    BY <1>3, TotalOrder DEF Ahead
  <2> HIDE DEF A
  <2>2. Cardinality(A(i)) <= Cardinality(A(j)) /\ Cardinality(A(i)) # Cardinality(A(j))
    BY <1>2, <2>1, FS_Subset
  <2> QED BY <1>1, <1>2, <2>2
<1>4. At \in Injection(S, 1 .. n)
  <2>1. At \in [S -> 1 .. n]
    BY <1>1, <1>2
  <2>2. ASSUME NEW i \in S, NEW j \in S, At[i] = At[j]
        PROVE  i = j
    <3>1. Cardinality(A(i)) = Cardinality(A(j))
      <4> HIDE DEF A
      <4> QED BY <1>2, <2>2
    <3>2. ~Outranks(score, i, j) /\ ~Outranks(score, j, i)
      <4> HIDE DEF A
      <4> QED BY <1>1, <1>2, <1>3, <3>1
    <3> QED BY <3>2, TotalOrder
  <2> HIDE DEF At, n
  <2> QED BY <2>1, <2>2 DEF Injection, IsInjective
<1>5. IsFiniteSet(1 .. n) /\ Cardinality(1 .. n) = n
  BY <1>1, FS_Interval
<1>6. At \in Surjection(S, 1 .. n)
  <2> HIDE DEF At, n
  <2> QED BY <1>4, <1>5, FS_Injection DEF n
<1>7. ASSUME NEW m \in 1 .. n PROVE \E i \in S : Cardinality(A(i)) = m - 1
  <2>1. PICK i \in S : At[i] = m
    <3> HIDE DEF At, n
    <3> QED BY <1>6 DEF Surjection
  <2>2. Cardinality(A(i)) = m - 1
    <3> HIDE DEF A
    <3> QED BY <1>1, <1>2, <2>1
  <2> QED BY <2>2
<1> HIDE DEF A
<1> QED BY <1>1, <1>2, <1>3, <1>7 DEF A

\* The sort lists the positions, each once, in that order.
LEMMA Sorted ==
  ASSUME NEW S \in SUBSET Nat, IsFiniteSet(S),
         NEW score, \A i \in S : score[i] \in Int
  PROVE  /\ Cardinality(S) \in Nat
         /\ Falling(S, score) \in Seq(S)
         /\ Len(Falling(S, score)) = Cardinality(S)
         /\ \A m, l \in 1 .. Cardinality(S) :
              Outranks(score, Falling(S, score)[m], Falling(S, score)[l]) <=> m < l
         /\ \A i \in S : \E m \in 1 .. Cardinality(S) : Falling(S, score)[m] = i
<1> DEFINE n == Cardinality(S)
           f == Falling(S, score)
           C(i) == Cardinality(Ahead(S, score, i))
<1>1. n \in Nat
  BY Places
<1>2. f = [m \in 1 .. n |-> CHOOSE i \in S : C(i) = m - 1]
  BY DEF Falling
<1>3. \A i \in S : C(i) \in 0 .. n - 1
  BY Places
<1>4. \A i, j \in S : Outranks(score, i, j) => C(i) < C(j)
  BY Places
<1>5. \A m \in 1 .. n : \E i \in S : C(i) = m - 1
  BY Places
<1>6. \A i, j \in S : i = j \/ Outranks(score, i, j) \/ Outranks(score, j, i)
  BY TotalOrder
<1> HIDE DEF f, C, n
<1>7. \A m \in 1 .. n : f[m] \in S /\ C(f[m]) = m - 1
  BY <1>2, <1>5
<1>8. f \in Seq(S) /\ Len(f) = n
  <2>1. f \in [1 .. n -> S]
    BY <1>2, <1>7
  <2> QED BY <1>1, <2>1
<1>9. ASSUME NEW m \in 1 .. n, NEW l \in 1 .. n
      PROVE  Outranks(score, f[m], f[l]) <=> m < l
  <2>0. /\ f[m] \in S /\ C(f[m]) = m - 1 /\ m \in Int
        /\ f[l] \in S /\ C(f[l]) = l - 1 /\ l \in Int
    BY <1>1, <1>7
  <2>1. Outranks(score, f[m], f[l]) => m < l
    <3>1. Outranks(score, f[m], f[l]) => C(f[m]) < C(f[l])
      BY <1>4, <2>0
    <3> QED BY <2>0, <3>1
  <2>2. Outranks(score, f[l], f[m]) => l < m
    <3>1. Outranks(score, f[l], f[m]) => C(f[l]) < C(f[m])
      BY <1>4, <2>0
    <3> QED BY <2>0, <3>1
  <2>3. f[l] = f[m] => l = m
    BY <2>0
  <2>4. f[m] = f[l] \/ Outranks(score, f[m], f[l]) \/ Outranks(score, f[l], f[m])
    BY <1>6, <2>0
  <2> QED BY <2>0, <2>1, <2>2, <2>3, <2>4
<1>10. ASSUME NEW i \in S PROVE \E m \in 1 .. n : f[m] = i
  <2>1. C(i) + 1 \in 1 .. n
    BY <1>1, <1>3
  <2>2. C(f[C(i) + 1]) = C(i) /\ f[C(i) + 1] \in S
    BY <1>1, <1>3, <1>7, <2>1
  <2>3. f[C(i) + 1] = i
    <3> DEFINE j == f[C(i) + 1]
    <3>1. j \in S /\ C(j) = C(i) /\ C(i) \in Int
      BY <1>3, <2>2
    <3> HIDE DEF j
    <3>2. ~Outranks(score, i, j) /\ ~Outranks(score, j, i)
      <4>1. /\ Outranks(score, i, j) => C(i) < C(j)
            /\ Outranks(score, j, i) => C(j) < C(i)
        BY <1>4, <3>1
      <4> QED BY <3>1, <4>1
    <3>3. i = j
      BY <1>6, <3>1, <3>2
    <3> QED BY <3>3 DEF j
  <2> QED BY <2>1, <2>3
<1> QED BY <1>1, <1>8, <1>9, <1>10 DEF f, n

\* The first k of a list.
LEMMA Cut ==
  ASSUME NEW T, NEW s \in Seq(T), NEW k \in Nat
  PROVE  /\ FirstOf(s, k) \in Seq(T)
         /\ Len(FirstOf(s, k)) = IF k < Len(s) THEN k ELSE Len(s)
         /\ DOMAIN FirstOf(s, k) = {i \in DOMAIN s : i <= k}
         /\ \A i \in DOMAIN FirstOf(s, k) : FirstOf(s, k)[i] = s[i]
<1> DEFINE l == IF k < Len(s) THEN k ELSE Len(s)
<1>1. l \in Nat /\ l <= Len(s) /\ Len(s) \in Nat
  OBVIOUS
<1>2. /\ FirstOf(s, k) \in Seq(T)
      /\ Len(FirstOf(s, k)) = l
      /\ \A i \in 1 .. l : FirstOf(s, k)[i] = s[i]
  BY <1>1 DEF FirstOf
<1>3. DOMAIN FirstOf(s, k) = 1 .. l /\ DOMAIN s = 1 .. Len(s)
  BY <1>2
<1> QED BY <1>1, <1>2, <1>3

\* A function on the first n numbers is a list of length n.
LEMMA Listed ==
  ASSUME NEW n \in Nat, NEW T, NEW f \in [1 .. n -> T]
  PROVE  f \in Seq(T) /\ Len(f) = n
OBVIOUS

-----------------------------------------------------------------------------
(* The two searches.                                                       *)

LEMMA IndexFacts ==
  ASSUME NEW x \in Indexes
  PROVE  /\ Len(x.ids) \in Nat /\ DOMAIN x.ids = 1 .. Len(x.ids)
         /\ \A i \in 1 .. Len(x.ids) : x.ids[i] \in DOMAIN x.cross
         /\ x.dense \in [1 .. Len(x.ids) -> 1 .. Len(x.ids)]
         /\ x.dense \in Seq(1 .. Len(x.ids)) /\ Len(x.dense) = Len(x.ids)
         /\ \A i, j \in 1 .. Len(x.ids) : x.dense[i] = x.dense[j] => i = j
         /\ \A i \in 1 .. Len(x.ids) : x.sparse[i] \in Int
         /\ \A c \in DOMAIN x.cross : x.cross[c] \in Int
<1>1. IsIndex(x)
  BY IndexAssumption
<1>2. /\ Len(x.ids) \in Nat /\ DOMAIN x.ids = 1 .. Len(x.ids)
      /\ \A i \in 1 .. Len(x.ids) : x.ids[i] \in DOMAIN x.cross
  BY <1>1 DEF IsIndex
<1>3. x.dense \in [1 .. Len(x.ids) -> 1 .. Len(x.ids)]
  BY <1>1, <1>2 DEF IsIndex
<1>4. x.dense \in Seq(1 .. Len(x.ids)) /\ Len(x.dense) = Len(x.ids)
  BY <1>2, <1>3, Listed
<1>5. \A i, j \in 1 .. Len(x.ids) : x.dense[i] = x.dense[j] => i = j
  BY <1>1, <1>3 DEF IsIndex, IsInjective
<1>6. \A i \in 1 .. Len(x.ids) : x.sparse[i] \in Int
  BY <1>1, <1>2 DEF IsIndex
<1>7. \A c \in DOMAIN x.cross : x.cross[c] \in Int
  BY <1>1 DEF IsIndex
<1> QED BY <1>2, <1>3, <1>4, <1>5, <1>6, <1>7

\* The dense order reaches every position.
LEMMA DenseReaches ==
  ASSUME NEW x \in Indexes, NEW i \in 1 .. Len(x.ids)
  PROVE  \E r \in 1 .. Len(x.ids) : x.dense[r] = i
<1> DEFINE N == 1 .. Len(x.ids)
<1>1. x.dense \in Injection(N, N)
  BY IndexFacts DEF Injection, IsInjective
<1>2. IsFiniteSet(N)
  BY IndexFacts, FS_Interval
<1>3. x.dense \in Surjection(N, N)
  <2> HIDE DEF N
  <2> QED BY <1>1, <1>2, FS_Injection
<1> QED BY <1>3 DEF Surjection

Traces == [dense : Nat, sparse : Nat, fused : Nat, reranker : Nat]
Results(x) == [chunk : DOMAIN x.cross, rank : Nat, trace : Traces]

LEMMA ResultFields ==
  ASSUME NEW x, NEW R \in Seq(Results(x)), NEW i \in DOMAIN R
  PROVE  R[i].chunk \in DOMAIN x.cross /\ R[i].trace \in Traces
<1>1. R[i] \in Results(x)
  OBVIOUS
<1> QED BY <1>1 DEF Results

LEMMA DenseFacts ==
  ASSUME NEW x \in Indexes, NEW k \in Nat
  PROVE  /\ DenseSearch(x, k) \in Seq(Results(x))
         /\ Len(DenseSearch(x, k)) = IF k < Len(x.ids) THEN k ELSE Len(x.ids)
         /\ \A r \in DOMAIN DenseSearch(x, k) :
              /\ r \in 1 .. Len(x.ids) /\ r <= k
              /\ DenseSearch(x, k)[r] =
                   [chunk |-> x.ids[x.dense[r]], rank |-> r,
                    trace |-> [NoTrace EXCEPT !.dense = r]]
<1> DEFINE found == FirstOf(x.dense, k)
           n == Len(found)
           R == DenseSearch(x, k)
<1>1. /\ found \in Seq(1 .. Len(x.ids))
      /\ n = IF k < Len(x.ids) THEN k ELSE Len(x.ids)
      /\ \A r \in DOMAIN found : found[r] = x.dense[r]
  <2>1. x.dense \in Seq(1 .. Len(x.ids)) /\ Len(x.dense) = Len(x.ids)
    BY IndexFacts
  <2> QED BY <2>1, Cut
<1>2. n \in Nat /\ DOMAIN found = 1 .. n
  BY <1>1
<1>3. /\ DOMAIN R = 1 .. n
      /\ \A r \in 1 .. n :
           R[r] = [chunk |-> x.ids[x.dense[r]], rank |-> r,
                   trace |-> [NoTrace EXCEPT !.dense = r]]
  BY <1>1, <1>2 DEF DenseSearch
<1>4. \A r \in 1 .. n : r \in 1 .. Len(x.ids) /\ r <= k
  BY <1>1, <1>2, IndexFacts
<1>5. \A r \in 1 .. n : R[r] \in Results(x)
  <2> TAKE r \in 1 .. n
  <2>1. x.ids[x.dense[r]] \in DOMAIN x.cross /\ r \in Nat
    <3>1. x.dense[r] \in 1 .. Len(x.ids)
      BY <1>4, IndexFacts
    <3>2. x.ids[x.dense[r]] \in DOMAIN x.cross
      BY <3>1, IndexFacts
    <3> HIDE DEF n
    <3> QED BY <1>2, <3>2
  <2>2. [NoTrace EXCEPT !.dense = r] \in Traces
    BY <2>1 DEF NoTrace, Traces, None
  <2> QED BY <1>3, <2>1, <2>2 DEF Results
<1>6. R \in [1 .. n -> Results(x)]
  <2>1. R = [r \in 1 .. n |-> R[r]]
    BY <1>2 DEF DenseSearch
  <2> HIDE DEF R, n
  <2> QED BY <1>5, <2>1
<1>7. R \in Seq(Results(x)) /\ Len(R) = n
  <2> HIDE DEF R, n
  <2> QED BY <1>2, <1>6, Listed
<1> HIDE DEF R, n
<1> QED BY <1>1, <1>3, <1>4, <1>7 DEF R, n

\* The positions that score, by falling score.
LEMMA SparseOrderFacts ==
  ASSUME NEW x \in Indexes
  PROVE  LET O == SparseOrder(x)
         IN  /\ O \in Seq(1 .. Len(x.ids))
             /\ Len(O) <= Len(x.ids)
             /\ \A m, l \in DOMAIN O : Outranks(x.sparse, O[m], O[l]) <=> m < l
             /\ \A m, l \in DOMAIN O : O[m] = O[l] => m = l
<1> DEFINE S == {i \in DOMAIN x.ids : x.sparse[i] > 0}
           O == SparseOrder(x)
<1>1. /\ S \in SUBSET (1 .. Len(x.ids)) /\ S \in SUBSET Nat
      /\ \A i \in S : x.sparse[i] \in Int
  BY IndexFacts
<1>2. IsFiniteSet(1 .. Len(x.ids)) /\ Cardinality(1 .. Len(x.ids)) = Len(x.ids)
  BY IndexFacts, FS_Interval
<1>3. IsFiniteSet(S) /\ Cardinality(S) <= Len(x.ids)
  <2> HIDE DEF S
  <2> QED BY <1>1, <1>2, FS_Subset
<1>4. O = Falling(S, x.sparse)
  BY DEF SparseOrder
<1>5. /\ Cardinality(S) \in Nat
      /\ O \in Seq(S) /\ Len(O) = Cardinality(S)
      /\ \A m, l \in 1 .. Cardinality(S) : Outranks(x.sparse, O[m], O[l]) <=> m < l
  <2> HIDE DEF S, O
  <2> QED BY <1>1, <1>3, <1>4, Sorted
<1>6. O \in Seq(1 .. Len(x.ids)) /\ DOMAIN O = 1 .. Cardinality(S)
  <2> HIDE DEF S, O
  <2>1. DOMAIN O = 1 .. Cardinality(S) /\ O \in [1 .. Cardinality(S) -> S]
    BY <1>5
  <2>2. O \in [1 .. Cardinality(S) -> 1 .. Len(x.ids)]
    BY <1>1, <2>1
  <2> QED BY <1>5, <2>1, <2>2, Listed
<1>7. ASSUME NEW m \in DOMAIN O, NEW l \in DOMAIN O, O[m] = O[l] PROVE m = l
  <2>1. ~Outranks(x.sparse, O[m], O[l]) /\ ~Outranks(x.sparse, O[l], O[m])
    <3>1. O[m] \in S
      <4> HIDE DEF S, O
      <4> QED BY <1>5
    <3>2. ~Outranks(x.sparse, O[m], O[m])
      <4> HIDE DEF S, O
      <4> QED BY <1>1, <3>1, TotalOrder
    <3> QED BY <1>7, <3>2
  <2>2. ~(m < l) /\ ~(l < m) /\ m \in Nat /\ l \in Nat
    <3> HIDE DEF S, O
    <3> QED BY <1>5, <1>6, <2>1
  <2> QED BY <2>2
<1> HIDE DEF S, O
<1> QED BY <1>3, <1>5, <1>6, <1>7 DEF O

LEMMA SparseFacts ==
  ASSUME NEW x \in Indexes, NEW k \in Nat
  PROVE  LET O == SparseOrder(x)
         IN  /\ SparseSearch(x, k) \in Seq(Results(x))
             /\ Len(SparseSearch(x, k)) = IF k < Len(O) THEN k ELSE Len(O)
             /\ \A r \in DOMAIN SparseSearch(x, k) :
                  /\ r \in DOMAIN O /\ r <= k
                  /\ SparseSearch(x, k)[r] =
                       [chunk |-> x.ids[O[r]], rank |-> r,
                        trace |-> [NoTrace EXCEPT !.sparse = r]]
<1> DEFINE O == SparseOrder(x)
           found == FirstOf(O, k)
           n == Len(found)
           R == SparseSearch(x, k)
<1>0. O \in Seq(1 .. Len(x.ids)) /\ Len(O) \in Nat /\ DOMAIN O = 1 .. Len(O)
  BY SparseOrderFacts
<1>1. /\ found \in Seq(1 .. Len(x.ids))
      /\ n = IF k < Len(O) THEN k ELSE Len(O)
      /\ \A r \in DOMAIN found : found[r] = O[r]
  <2> HIDE DEF O
  <2> QED BY <1>0, Cut
<1>2. n \in Nat /\ DOMAIN found = 1 .. n
  <2> HIDE DEF O
  <2> QED BY <1>1
<1>3. /\ DOMAIN R = 1 .. n
      /\ \A r \in 1 .. n :
           R[r] = [chunk |-> x.ids[O[r]], rank |-> r,
                   trace |-> [NoTrace EXCEPT !.sparse = r]]
  BY <1>1, <1>2 DEF SparseSearch
<1>4. \A r \in 1 .. n : r \in DOMAIN O /\ r <= k
  <2>1. n <= Len(O) /\ n <= k
    BY <1>0, <1>1
  <2> HIDE DEF O, n
  <2> QED BY <1>0, <1>2, <2>1
<1>5. \A r \in 1 .. n : R[r] \in Results(x)
  <2> TAKE r \in 1 .. n
  <2>1. x.ids[O[r]] \in DOMAIN x.cross /\ r \in Nat
    <3> HIDE DEF O, n
    <3>1. O[r] \in 1 .. Len(x.ids)
      BY <1>0, <1>4
    <3> QED BY <1>2, <3>1, IndexFacts
  <2>2. [NoTrace EXCEPT !.sparse = r] \in Traces
    BY <2>1 DEF NoTrace, Traces, None
  <2> QED BY <1>3, <2>1, <2>2 DEF Results
<1>6. R \in [1 .. n -> Results(x)]
  <2>1. R = [r \in 1 .. n |-> R[r]]
    BY <1>2 DEF SparseSearch
  <2> HIDE DEF R, n
  <2> QED BY <1>5, <2>1
<1>7. R \in Seq(Results(x)) /\ Len(R) = n
  <2> HIDE DEF R, n
  <2> QED BY <1>2, <1>6, Listed
<1> HIDE DEF R, n, O
<1> QED BY <1>1, <1>3, <1>4, <1>7 DEF R, n, O


-----------------------------------------------------------------------------
(* The fused scores.                                                       *)

\* A lower rank never weighs less.
LEMMA Weights ==
  ASSUME NEW r \in Nat \ {0}
  PROVE  /\ Weight(r) \in Nat
         /\ \A s \in Nat \ {0} : r <= s => Weight(s) <= Weight(r)
<1>1. ASSUME NEW b \in Nat \ {0}
      PROVE  /\ Scale \div b \in Nat
             /\ b * (Scale \div b) <= Scale /\ Scale < b * (Scale \div b + 1)
  BY DEF Scale
<1>2. RRFK + r \in Nat \ {0} /\ RRFK \in Nat
  BY RetrievalAssumption
<1>3. Weight(r) \in Nat
  BY <1>1, <1>2 DEF Weight
<1>4. ASSUME NEW s \in Nat \ {0}, r <= s PROVE Weight(s) <= Weight(r)
  <2> DEFINE b == RRFK + r
             c == RRFK + s
             p == Weight(r)
             q == Weight(s)
  <2>1. b \in Nat /\ c \in Nat \ {0} /\ b <= c
    BY <1>2, <1>4
  <2>2. p \in Nat /\ Scale < b * (p + 1)
    BY <1>1, <1>2 DEF Weight
  <2>3. q \in Nat /\ c * q <= Scale
    BY <1>1, <2>1 DEF Weight
  <2> SUFFICES ASSUME p + 1 <= q PROVE FALSE
    BY <2>2, <2>3
  <2> HIDE DEF b, c, p, q
  <2>4. b * (p + 1) <= c * (p + 1)
    BY <2>1, <2>2
  <2>5. c * (p + 1) <= c * q
    BY <2>1, <2>2, <2>3
  <2>6. Scale \in Nat /\ b * (p + 1) \in Nat /\ c * (p + 1) \in Nat /\ c * q \in Nat
    BY <2>1, <2>2, <2>3 DEF Scale
  <2> QED BY <2>2, <2>3, <2>4, <2>5, <2>6
<1> QED BY <1>3, <1>4

\* A chunk's votes: none if the list leaves it out, the weight of its rank if
\* it is listed once.
LEMMA VotesFacts ==
  ASSUME NEW T, NEW results \in Seq(T), NEW chunk
  PROVE  /\ Votes(chunk, results) \in Nat
         /\ (\A r \in DOMAIN results : results[r].chunk # chunk)
              => Votes(chunk, results) = 0
         /\ \A r \in DOMAIN results :
              (\A q \in DOMAIN results : results[q].chunk = chunk <=> q = r)
                => Votes(chunk, results) = Weight(r)
<1> DEFINE N == Len(results)
           vote == [r \in DOMAIN results |->
                     IF results[r].chunk = chunk THEN Weight(r) ELSE 0]
           Step(f) == [n \in 0 .. N |-> IF n = 0 THEN 0 ELSE f[n - 1] + vote[n]]
           sum == CHOOSE f : f = Step(f)
<1>1. N \in Nat /\ DOMAIN results = 1 .. N
  OBVIOUS
<1>2. \A r \in 1 .. N : vote[r] \in Nat
  BY <1>1, Weights
<1>3. /\ sum[0] = 0
      /\ \A i \in 1 .. N : sum[i] = sum[i - 1] + vote[i]
      /\ \A i \in 0 .. N : sum[i] \in Nat
  <2>1. \E f : f = Step(f)
    <3> HIDE DEF vote, N
    <3> QED BY <1>1, <1>2, RunningSum
  <2>2. sum = Step(sum)
    BY <2>1
  <2> HIDE DEF vote, sum, N
  <2> QED BY <1>1, <1>2, <2>2, RunningSum
<1>4. Votes(chunk, results) = sum[N]
  BY DEF Votes
<1> HIDE DEF sum, N
<1>5. ASSUME \A r \in 1 .. N : results[r].chunk # chunk
      PROVE  sum[N] = 0
  <2> DEFINE P == {i \in 0 .. N : sum[i] = 0}
  <2>1. 0 \in P
    BY <1>1, <1>3
  <2>2. ASSUME NEW i \in 1 .. N, i - 1 \in P PROVE i \in P
    <3>1. vote[i] = 0
      BY <1>1, <1>5
    <3> HIDE DEF vote
    <3>2. sum[i] = sum[i - 1] + vote[i] /\ sum[i - 1] = 0
      BY <1>3, <2>2
    <3> QED BY <1>1, <3>1, <3>2
  <2>3. N \in P
    <3> HIDE DEF P
    <3> QED BY <1>1, <2>1, <2>2, UpTo
  <2> QED BY <2>3
<1>6. ASSUME NEW r \in 1 .. N,
             \A q \in 1 .. N : results[q].chunk = chunk <=> q = r
      PROVE  sum[N] = Weight(r)
  <2> DEFINE P == {i \in 0 .. N : sum[i] = IF i < r THEN 0 ELSE Weight(r)}
  <2>0. Weight(r) \in Nat
    BY <1>1, Weights
  <2>1. 0 \in P
    BY <1>1, <1>3
  <2>2. ASSUME NEW i \in 1 .. N, i - 1 \in P PROVE i \in P
    <3>1. vote[i] = IF i = r THEN Weight(r) ELSE 0
      BY <1>1, <1>6
    <3>2. sum[i] = sum[i - 1] + vote[i] /\ sum[i - 1] = IF i - 1 < r THEN 0 ELSE Weight(r)
      BY <1>3, <2>2
    <3> HIDE DEF vote
    <3>3. sum[i] = IF i < r THEN 0 ELSE Weight(r)
      BY <1>1, <2>0, <3>1, <3>2
    <3> QED BY <1>1, <3>3
  <2>3. N \in P
    <3> HIDE DEF P
    <3> QED BY <1>1, <2>1, <2>2, UpTo
  <2> QED BY <1>1, <2>3
<1>7. sum[N] \in Nat
  BY <1>1, <1>3
<1> QED BY <1>1, <1>4, <1>5, <1>6, <1>7

-----------------------------------------------------------------------------
(* Fusion.                                                                 *)

\* What both lists name, in the order in which the loops meet it.
Met(dense, sparse) == ChunksOf(dense) \o ChunksOf(sparse)

Named(dense, sparse) ==
  {dense[i].chunk : i \in DOMAIN dense} \cup {sparse[i].chunk : i \in DOMAIN sparse}

LEMMA NamedIn ==
  ASSUME NEW C, NEW D, NEW S, NEW F \in Seq(Named(D, S)),
         \A i \in DOMAIN D : D[i].chunk \in C,
         \A i \in DOMAIN S : S[i].chunk \in C
  PROVE  F \in Seq(C)
<1>1. Named(D, S) \subseteq C
  BY DEF Named
<1>2. F \in [1 .. Len(F) -> Named(D, S)] /\ Len(F) \in Nat
  OBVIOUS
<1>3. F \in [1 .. Len(F) -> C]
  BY <1>1, <1>2
<1> QED BY <1>2, <1>3, Listed

LEMMA MetFacts ==
  ASSUME NEW T, NEW D \in Seq(T), NEW S \in Seq(T)
  PROVE  /\ Met(D, S) \in Seq(Named(D, S))
         /\ Len(Met(D, S)) = Len(D) + Len(S)
         /\ \A i \in DOMAIN D : Met(D, S)[i] = D[i].chunk
         /\ \A i \in DOMAIN S : Met(D, S)[Len(D) + i] = S[i].chunk
<1> DEFINE C == Named(D, S)
<1>0. /\ \A i \in DOMAIN D : D[i].chunk \in C
      /\ \A i \in DOMAIN S : S[i].chunk \in C
  BY DEF Named
<1> HIDE DEF C
<1>1. /\ Len(D) \in Nat /\ DOMAIN D = 1 .. Len(D)
      /\ Len(S) \in Nat /\ DOMAIN S = 1 .. Len(S)
  OBVIOUS
<1>2. ChunksOf(D) \in [1 .. Len(D) -> C] /\ ChunksOf(S) \in [1 .. Len(S) -> C]
  BY <1>0, <1>1 DEF ChunksOf
<1>3. /\ ChunksOf(D) \in Seq(C) /\ Len(ChunksOf(D)) = Len(D)
      /\ ChunksOf(S) \in Seq(C) /\ Len(ChunksOf(S)) = Len(S)
  BY <1>1, <1>2, Listed
<1>4. /\ \A i \in 1 .. Len(D) : ChunksOf(D)[i] = D[i].chunk
      /\ \A i \in 1 .. Len(S) : ChunksOf(S)[i] = S[i].chunk
  BY <1>1 DEF ChunksOf
<1>5. Met(D, S) \in Seq(C) /\ Len(Met(D, S)) = Len(D) + Len(S)
  <2> DEFINE p == ChunksOf(D)
             q == ChunksOf(S)
  <2>1. p \in Seq(C) /\ q \in Seq(C) /\ Len(p) = Len(D) /\ Len(q) = Len(S)
    BY <1>3
  <2>2. Met(D, S) = p \o q
    BY DEF Met
  <2> HIDE DEF p, q
  <2>3. p \o q \in Seq(C) /\ Len(p \o q) = Len(p) + Len(q)
    BY <2>1, ConcatProperties
  <2> QED BY <2>1, <2>2, <2>3
<1>6. \A i \in 1 .. Len(D) : Met(D, S)[i] = D[i].chunk
  BY <1>1, <1>3, <1>4 DEF Met
<1>7. ASSUME NEW i \in 1 .. Len(S) PROVE Met(D, S)[Len(D) + i] = S[i].chunk
  <2>1. Len(D) + i \in 1 .. Len(D) + Len(S) /\ ~(Len(D) + i <= Len(D)) /\ Len(D) + i - Len(D) = i
    BY <1>1
  <2>2. Met(D, S)[Len(D) + i] = ChunksOf(S)[i]
    BY <1>1, <1>3, <2>1 DEF Met
  <2> QED BY <1>4, <2>2
<1> QED BY <1>1, <1>5, <1>6, <1>7 DEF C

\* An id that comes at some place has a first place.
LEMMA FirstPlace ==
  ASSUME NEW C, NEW met \in Seq(C), NEW i \in DOMAIN met
  PROVE  \E j \in DOMAIN met :
           j <= i /\ met[j] = met[i] /\ \A l \in 1 .. j - 1 : met[l] # met[j]
<1> DEFINE T == {j \in DOMAIN met : met[j] = met[i]}
<1>1. DOMAIN met \in SUBSET Nat /\ DOMAIN met = 1 .. Len(met) /\ Len(met) \in Nat
  OBVIOUS
<1>2. PICK j \in T : \A l \in T : j <= l
  <2>1. T \in SUBSET Nat /\ T # {}
    BY <1>1
  <2> HIDE DEF T
  <2> QED BY <2>1, Least
<1>3. ASSUME NEW l \in 1 .. j - 1 PROVE met[l] # met[j]
  <2>1. l \in DOMAIN met /\ ~(j <= l)
    BY <1>1
  <2> QED BY <1>2, <2>1
<1> QED BY <1>2, <1>3

\* The fused order names every id met once, and one before another if it has
\* at least its score and was met before it.
LEMMA FusedOrderFacts ==
  ASSUME NEW T, NEW D \in Seq(T), NEW S \in Seq(T)
  PROVE  /\ FusedOrder(D, S) \in Seq(Named(D, S))
         /\ \A m, l \in DOMAIN FusedOrder(D, S) :
              FusedOrder(D, S)[m] = FusedOrder(D, S)[l] => m = l
         /\ \A i \in DOMAIN Met(D, S) :
              \E m \in DOMAIN FusedOrder(D, S) : FusedOrder(D, S)[m] = Met(D, S)[i]
         /\ \A m \in DOMAIN FusedOrder(D, S) :
              \E i \in DOMAIN Met(D, S) : FusedOrder(D, S)[m] = Met(D, S)[i]
         /\ \A m, l \in DOMAIN FusedOrder(D, S) :
              (/\ Fused(FusedOrder(D, S)[m], D, S) >= Fused(FusedOrder(D, S)[l], D, S)
               /\ \E i \in DOMAIN Met(D, S) :
                    /\ Met(D, S)[i] = FusedOrder(D, S)[m]
                    /\ \A j \in 1 .. i : Met(D, S)[j] # FusedOrder(D, S)[l])
                => m < l
<1> DEFINE C == Named(D, S)
           met == Met(D, S)
           first == {i \in DOMAIN met : \A j \in 1 .. i - 1 : met[j] # met[i]}
           score == [i \in first |-> Fused(met[i], D, S)]
           order == Falling(first, score)
           F == FusedOrder(D, S)
           n == Cardinality(first)
<1>1. met \in Seq(C) /\ DOMAIN met = 1 .. Len(met) /\ Len(met) \in Nat
  BY MetFacts
<1> HIDE DEF C
<1>2. F = [m \in DOMAIN order |-> met[order[m]]]
  BY DEF FusedOrder, Met
<1>3. first \in SUBSET (1 .. Len(met)) /\ first \in SUBSET Nat
  <2> HIDE DEF met
  <2> QED BY <1>1
<1>4. IsFiniteSet(first)
  <2>1. IsFiniteSet(1 .. Len(met))
    BY <1>1, FS_Interval
  <2> HIDE DEF first, met
  <2> QED BY <1>3, <2>1, FS_Subset
<1>5. \A i \in first : score[i] \in Int
  <2> TAKE i \in first
  <2>1. Votes(met[i], D) \in Nat /\ Votes(met[i], S) \in Nat
    BY VotesFacts
  <2>2. Fused(met[i], D, S) \in Int
    BY <2>1 DEF Fused
  <2> HIDE DEF first
  <2> QED BY <2>2
<1>6. /\ n \in Nat
      /\ order \in Seq(first)
      /\ Len(order) = n
      /\ \A m, l \in 1 .. n : Outranks(score, order[m], order[l]) <=> m < l
      /\ \A i \in first : \E m \in 1 .. n : order[m] = i
  <2> HIDE DEF first, score
  <2> QED BY <1>3, <1>4, <1>5, Sorted
<1>7. /\ DOMAIN order = 1 .. n
      /\ \A m \in 1 .. n : order[m] \in first
  <2> HIDE DEF first, score, order, n
  <2> QED BY <1>6
<1>8. DOMAIN F = 1 .. n /\ \A m \in 1 .. n : F[m] = met[order[m]] /\ order[m] \in DOMAIN met
  <2> HIDE DEF order, met, n, F
  <2> QED BY <1>2, <1>7
<1>9. F \in Seq(C)
  <2>1. \A m \in 1 .. n : F[m] \in C
    <3> HIDE DEF order, met, n, F
    <3> QED BY <1>1, <1>8
  <2>2. F \in [1 .. n -> C]
    <3>1. F = [m \in 1 .. n |-> F[m]]
      <4> HIDE DEF order, met, n
      <4> QED BY <1>2, <1>7
    <3> HIDE DEF F, n
    <3> QED BY <2>1, <3>1
  <2> HIDE DEF F, n
  <2> QED BY <1>6, <2>2, Listed
<1>10. \A i, j \in first : met[i] = met[j] => i = j
  <2> SUFFICES ASSUME NEW i \in first, NEW j \in first, met[i] = met[j], i < j
               PROVE  FALSE
    BY <1>3
  <2>1. i \in 1 .. j - 1
    BY <1>3
  <2> QED BY <2>1
<1>11. ASSUME NEW m \in 1 .. n, NEW l \in 1 .. n, F[m] = F[l] PROVE m = l
  <2>1. order[m] = order[l]
    <3> HIDE DEF first, score, order, met, n, F
    <3> QED BY <1>7, <1>8, <1>10, <1>11
  <2>2. ~(m < l) /\ ~(l < m)
    <3>1. ~Outranks(score, order[m], order[m])
      <4> HIDE DEF first, score, order, met, n, F
      <4> QED BY <1>3, <1>5, <1>7, TotalOrder
    <3> HIDE DEF first, score, order, met, n, F
    <3> QED BY <1>6, <2>1, <3>1
  <2> QED BY <1>6, <2>2
<1>12. ASSUME NEW i \in DOMAIN met PROVE \E m \in 1 .. n : F[m] = met[i]
  <2>1. PICK j \in first : met[j] = met[i]
    <3> HIDE DEF met
    <3> QED BY <1>1, FirstPlace
  <2>2. PICK m \in 1 .. n : order[m] = j
    BY <1>6
  <2>3. F[m] = met[i]
    <3> HIDE DEF first, score, order, met, n, F
    <3> QED BY <1>8, <2>1, <2>2
  <2> QED BY <2>3
<1>13. ASSUME NEW m \in 1 .. n, NEW l \in 1 .. n,
              Fused(F[m], D, S) >= Fused(F[l], D, S),
              NEW i \in DOMAIN met, met[i] = F[m], \A j \in 1 .. i : met[j] # F[l]
       PROVE  m < l
  <2> DEFINE p == order[m]
             q == order[l]
  <2>1. /\ p \in first /\ q \in first /\ F[m] = met[p] /\ F[l] = met[q]
        /\ p \in DOMAIN met /\ q \in DOMAIN met
    <3> HIDE DEF first, score, order, met, n, F
    <3> QED BY <1>7, <1>8
  <2>2. p <= i
    <3>1. \A j \in 1 .. p - 1 : met[j] # met[p]
      BY <2>1
    <3>2. i \notin 1 .. p - 1
      <4> HIDE DEF first, score, order, met, n, F
      <4> QED BY <1>13, <2>1, <3>1
    <3>3. i \in Nat /\ p \in Nat /\ i >= 1
      <4> HIDE DEF first, score, order, met, n, F
      <4> QED BY <1>1, <2>1
    <3> HIDE DEF p
    <3> QED BY <3>2, <3>3
  <2>3. ~(q <= i)
    <3>1. q \notin 1 .. i
      <4> HIDE DEF first, score, order, met, n, F
      <4> QED BY <1>13, <2>1
    <3>2. i \in Nat /\ q \in Nat /\ q >= 1
      <4> HIDE DEF first, score, order, met, n, F
      <4> QED BY <1>1, <2>1
    <3> HIDE DEF q
    <3> QED BY <3>1, <3>2
  <2>4. score[p] >= score[q]
    <3>1. score[p] = Fused(met[p], D, S) /\ score[q] = Fused(met[q], D, S)
      <4> HIDE DEF first, order, met, n, F
      <4> QED BY <2>1
    <3> HIDE DEF first, score, order, met, n, F
    <3> QED BY <1>13, <2>1, <3>1
  <2>5. Outranks(score, p, q)
    <3>1. p \in Nat /\ q \in Nat /\ i \in Nat /\ score[p] \in Int /\ score[q] \in Int
      <4> HIDE DEF first, score, order, met, n, F
      <4> QED BY <1>1, <1>5, <2>1
    <3> HIDE DEF score, p, q
    <3> QED BY <2>2, <2>3, <2>4, <3>1 DEF Outranks
  <2> HIDE DEF first, score, order, n
  <2> QED BY <1>6, <2>5
<1> HIDE DEF first, score, order, n, met, F
<1>14. \A m \in 1 .. n : \E i \in DOMAIN met : F[m] = met[i]
  BY <1>8
<1>15. \A m, l \in DOMAIN F : F[m] = F[l] => m = l
  BY <1>8, <1>11
<1>16. \A i \in DOMAIN met : \E m \in DOMAIN F : F[m] = met[i]
  BY <1>8, <1>12
<1>17. \A m, l \in DOMAIN F :
         (/\ Fused(F[m], D, S) >= Fused(F[l], D, S)
          /\ \E i \in DOMAIN met : met[i] = F[m] /\ \A j \in 1 .. i : met[j] # F[l])
           => m < l
  BY <1>8, <1>13
<1> QED BY <1>8, <1>9, <1>14, <1>15, <1>16, <1>17 DEF met, F, C

\* The recorded rank is one at which the list has the chunk, or none.
LEMMA LastRankFacts ==
  ASSUME NEW T, NEW R \in Seq(T), NEW chunk
  PROVE  LastRank(chunk, R) \in 0 .. Len(R)
<1> DEFINE ranks == RanksOf(chunk, R)
           N == Len(R)
           left == {N - r : r \in ranks}
<1>1. N \in Nat /\ ranks \in SUBSET (1 .. N)
  BY DEF RanksOf
<1>2. CASE ranks = {}
  BY <1>1, <1>2 DEF LastRank, None
<1>3. CASE ranks # {}
  <2> HIDE DEF ranks, N
  <2>1. left \in SUBSET Nat /\ left # {}
    BY <1>1, <1>3
  <2>2. PICK l \in left : \A m \in left : l <= m
    <3> HIDE DEF left
    <3> QED BY <2>1, Least
  <2>3. PICK r \in ranks : l = N - r
    BY <2>2
  <2>4. ASSUME NEW s \in ranks PROVE s <= r
    <3>1. N - s \in left
      OBVIOUS
    <3>2. N - r <= N - s
      BY <2>2, <2>3, <3>1
    <3>3. r \in Nat /\ s \in Nat
      BY <1>1
    <3> QED BY <1>1, <3>2, <3>3
  <2>5. (CHOOSE q \in ranks : \A s \in ranks : s <= q) \in ranks
    BY <2>4
  <2>6. LastRank(chunk, R) \in ranks
    BY <1>3, <2>5 DEF LastRank, ranks
  <2>7. LastRank(chunk, R) \in 1 .. N
    BY <1>1, <2>6
  <2> QED BY <1>1, <2>7 DEF N
<1> QED BY <1>2, <1>3

LEMMA FusedTrace ==
  ASSUME NEW a, NEW b, NEW c
  PROVE  [NoTrace EXCEPT !.dense = a, !.sparse = b, !.fused = c] =
           [dense |-> a, sparse |-> b, fused |-> c, reranker |-> None]
<1>1. [NoTrace EXCEPT !.dense = a] =
        [dense |-> a, sparse |-> None, fused |-> None, reranker |-> None]
  BY DEF NoTrace
<1>2. [[dense |-> a, sparse |-> None, fused |-> None, reranker |-> None]
          EXCEPT !.sparse = b] =
        [dense |-> a, sparse |-> b, fused |-> None, reranker |-> None]
  OBVIOUS
<1>3. [[dense |-> a, sparse |-> b, fused |-> None, reranker |-> None]
          EXCEPT !.fused = c] =
        [dense |-> a, sparse |-> b, fused |-> c, reranker |-> None]
  OBVIOUS
<1>4. [NoTrace EXCEPT !.dense = a, !.sparse = b, !.fused = c] =
        [[[NoTrace EXCEPT !.dense = a] EXCEPT !.sparse = b] EXCEPT !.fused = c]
  OBVIOUS
<1> QED BY <1>1, <1>2, <1>3, <1>4, Zenon

LEMMA FuseFacts ==
  ASSUME NEW x \in Indexes, NEW k \in Nat,
         NEW D \in Seq(Results(x)), NEW S \in Seq(Results(x))
  PROVE  /\ FusedOrder(D, S) \in Seq(DOMAIN x.cross)
         /\ Fuse(D, S, k) \in Seq(Results(x))
         /\ Len(Fuse(D, S, k)) =
              IF k < Len(FusedOrder(D, S)) THEN k ELSE Len(FusedOrder(D, S))
         /\ \A i \in DOMAIN Fuse(D, S, k) :
              /\ i \in DOMAIN FusedOrder(D, S) /\ i <= k
              /\ Fuse(D, S, k)[i].chunk = FusedOrder(D, S)[i]
              /\ Fuse(D, S, k)[i].trace.dense \in 0 .. Len(D)
              /\ Fuse(D, S, k)[i].trace.sparse \in 0 .. Len(S)
              /\ Fuse(D, S, k)[i].trace.fused = i
              /\ Fuse(D, S, k)[i].trace.reranker = None
<1> DEFINE F == FusedOrder(D, S)
           order == FirstOf(F, k)
           n == Len(order)
           R == Fuse(D, S, k)
<1>1. F \in Seq(DOMAIN x.cross) /\ DOMAIN F = 1 .. Len(F) /\ Len(F) \in Nat
  <2>1. /\ \A i \in DOMAIN D : D[i].chunk \in DOMAIN x.cross
        /\ \A i \in DOMAIN S : S[i].chunk \in DOMAIN x.cross
    BY ResultFields
  <2>2. F \in Seq(DOMAIN x.cross)
    BY <2>1, FusedOrderFacts, NamedIn
  <2> HIDE DEF F
  <2> QED BY <2>2
<1>2. /\ order \in Seq(DOMAIN x.cross)
      /\ n = IF k < Len(F) THEN k ELSE Len(F)
      /\ \A i \in DOMAIN order : order[i] = F[i]
  <2> HIDE DEF F
  <2> QED BY <1>1, Cut
<1>3. n \in Nat /\ DOMAIN order = 1 .. n
  <2> HIDE DEF F, order
  <2> QED BY <1>2
<1>4. ASSUME NEW i \in 1 .. n
      PROVE  i \in DOMAIN F /\ i <= k /\ i \in Nat /\ F[i] \in DOMAIN x.cross
  <2>1. n <= Len(F) /\ n <= k
    BY <1>1, <1>2
  <2> HIDE DEF F, n, order
  <2> QED BY <1>1, <1>3, <2>1
<1>5. ASSUME NEW i \in 1 .. n
      PROVE  R[i] = [chunk |-> F[i], rank |-> i,
                     trace |-> [NoTrace EXCEPT !.dense = LastRank(F[i], D),
                                               !.sparse = LastRank(F[i], S),
                                               !.fused = i]]
  BY <1>2, <1>3 DEF Fuse
<1>6. ASSUME NEW i \in 1 .. n
      PROVE  /\ R[i] \in Results(x)
             /\ R[i].chunk = F[i]
             /\ R[i].trace.dense \in 0 .. Len(D)
             /\ R[i].trace.sparse \in 0 .. Len(S)
             /\ R[i].trace.fused = i
             /\ R[i].trace.reranker = None
  <2>1. LastRank(F[i], D) \in 0 .. Len(D) /\ LastRank(F[i], S) \in 0 .. Len(S)
    <3> HIDE DEF F, n
    <3> QED BY LastRankFacts
  <2> DEFINE t == [dense |-> LastRank(F[i], D), sparse |-> LastRank(F[i], S),
                   fused |-> i, reranker |-> None]
  <2>2. R[i] = [chunk |-> F[i], rank |-> i, trace |-> t]
    <3>1. t = [NoTrace EXCEPT !.dense = LastRank(F[i], D),
                              !.sparse = LastRank(F[i], S), !.fused = i]
      BY FusedTrace
    <3> HIDE DEF t, F, n, R
    <3> QED BY <1>5, <3>1
  <2>3. i \in Nat /\ F[i] \in DOMAIN x.cross
    BY <1>4
  <2> HIDE DEF F, n, R
  <2>4. t \in Traces
    BY <2>1, <2>3 DEF Traces, None
  <2>5. R[i] \in Results(x)
    <3> HIDE DEF t
    <3> QED BY <2>2, <2>3, <2>4 DEF Results
  <2> QED BY <2>1, <2>2, <2>5
<1>7. R \in [1 .. n -> Results(x)]
  <2>1. R = [i \in 1 .. n |-> R[i]]
    BY <1>3 DEF Fuse
  <2> HIDE DEF R, n
  <2> QED BY <1>6, <2>1
<1> HIDE DEF R, n, F
<1>8. R \in Seq(Results(x)) /\ Len(R) = n /\ DOMAIN R = 1 .. n
  BY <1>3, <1>7, Listed
<1>9. \A i \in DOMAIN R :
        /\ i \in DOMAIN F /\ i <= k
        /\ R[i].chunk = F[i]
        /\ R[i].trace.dense \in 0 .. Len(D)
        /\ R[i].trace.sparse \in 0 .. Len(S)
        /\ R[i].trace.fused = i
        /\ R[i].trace.reranker = None
  BY <1>4, <1>6, <1>8
<1> QED BY <1>1, <1>2, <1>8, <1>9 DEF R, F, n

\* A list that names no chunk twice is no longer than the index.
LEMMA NoLonger ==
  ASSUME NEW x \in Indexes, NEW F, NEW n \in Nat,
         \A m \in 1 .. n : \E i \in 1 .. Len(x.ids) : F[m] = x.ids[i],
         \A m, l \in 1 .. n : F[m] = F[l] => m = l
  PROVE  n <= Len(x.ids)
<1> DEFINE N == 1 .. Len(x.ids)
           At(m) == CHOOSE i \in N : F[m] = x.ids[i]
           f == [m \in 1 .. n |-> At(m)]
<1>1. \A m \in 1 .. n : At(m) \in N /\ F[m] = x.ids[At(m)]
  OBVIOUS
<1>2. f \in Injection(1 .. n, N)
  <2>1. f \in [1 .. n -> N]
    BY <1>1
  <2>2. ASSUME NEW m \in 1 .. n, NEW l \in 1 .. n, f[m] = f[l] PROVE m = l
    <3> HIDE DEF At
    <3>1. At(m) = At(l)
      BY <2>2
    <3>2. F[m] = F[l]
      BY <1>1, <3>1
    <3> QED BY <3>2
  <2> HIDE DEF f, N
  <2> QED BY <2>1, <2>2 DEF Injection, IsInjective
<1>3. /\ IsFiniteSet(1 .. n) /\ Cardinality(1 .. n) = n
      /\ IsFiniteSet(N) /\ Cardinality(N) = Len(x.ids)
  <2>1. Len(x.ids) \in Nat
    BY IndexFacts
  <2>2. \A m \in Nat : IsFiniteSet(1 .. m) /\ Cardinality(1 .. m) = m
    BY FS_Interval
  <2> QED BY <2>1, <2>2
<1> HIDE DEF f, N
<1> QED BY <1>2, <1>3, FS_Injection

-----------------------------------------------------------------------------
(* The reranker.                                                           *)

\* It keeps the traces and adds its ranks; a candidate that it scores higher
\* than one it returns is returned before it.
LEMMA RerankFacts ==
  ASSUME NEW x \in Indexes, NEW k \in Nat, NEW C \in Seq(Results(x))
  PROVE  LET R == Rerank(x, C, k)
         IN  /\ R \in Seq(Results(x))
             /\ Len(R) = IF k < Len(C) THEN k ELSE Len(C)
             /\ \A i \in DOMAIN R : \E j \in DOMAIN C :
                  /\ R[i].chunk = C[j].chunk
                  /\ R[i].trace = [C[j].trace EXCEPT !.reranker = i]
             /\ \A m, i \in DOMAIN R :
                  x.cross[R[m].chunk] > x.cross[R[i].chunk] => m < i
             /\ \A j \in DOMAIN C, i \in DOMAIN R :
                  x.cross[C[j].chunk] > x.cross[R[i].chunk] =>
                    \E m \in DOMAIN R : R[m].chunk = C[j].chunk
<1> DEFINE R == Rerank(x, C, k)
           P == DOMAIN C
           cross == [i \in P |-> x.cross[C[i].chunk]]
           B == Falling(P, cross)
           best == FirstOf(B, k)
           n == Len(best)
<1>1. P = 1 .. Len(C) /\ P \in SUBSET Nat /\ Len(C) \in Nat
  OBVIOUS
<1>2. IsFiniteSet(P) /\ Cardinality(P) = Len(C)
  BY <1>1, FS_Interval
<1>3. \A i \in P : C[i].chunk \in DOMAIN x.cross /\ C[i].trace \in Traces
  BY ResultFields
<1>4. \A i \in P : cross[i] = x.cross[C[i].chunk] /\ cross[i] \in Int
  BY <1>3, IndexFacts
<1>5. /\ B \in Seq(P) /\ Len(B) = Len(C)
      /\ \A m, l \in P : Outranks(cross, B[m], B[l]) <=> m < l
      /\ \A i \in P : \E m \in P : B[m] = i
  <2>1. /\ B \in Seq(P) /\ Len(B) = Cardinality(P)
        /\ \A m, l \in 1 .. Cardinality(P) : Outranks(cross, B[m], B[l]) <=> m < l
        /\ \A i \in P : \E m \in 1 .. Cardinality(P) : B[m] = i
    <3> HIDE DEF P, cross
    <3> QED BY <1>1, <1>2, <1>4, Sorted, SMTT(40)
  <2> HIDE DEF P, B, cross
  <2> QED BY <1>1, <1>2, <2>1
<1>6. /\ best \in Seq(P)
      /\ n = IF k < Len(C) THEN k ELSE Len(C)
      /\ \A i \in DOMAIN best : best[i] = B[i]
  <2> HIDE DEF P, B
  <2> QED BY <1>5, Cut
<1>7. n \in Nat /\ DOMAIN best = 1 .. n
  <2> HIDE DEF P, B, best
  <2> QED BY <1>6
<1>8. ASSUME NEW i \in 1 .. n PROVE i \in P /\ i \in Nat /\ B[i] \in P
  <2>1. n <= Len(C)
    BY <1>1, <1>6, SMTT(40)
  <2> HIDE DEF n, B
  <2> QED BY <1>1, <1>5, <1>7, <2>1, SMTT(40)
<1>9. ASSUME NEW i \in 1 .. n
      PROVE  /\ R[i] = [chunk |-> R[i].chunk, rank |-> i, trace |-> R[i].trace]
             /\ R[i].chunk = C[B[i]].chunk
             /\ R[i].trace = [C[B[i]].trace EXCEPT !.reranker = i]
  <2>1. R[i] = [chunk |-> C[B[i]].chunk, rank |-> i,
                trace |-> [C[B[i]].trace EXCEPT !.reranker = i]]
    BY <1>6, <1>7, ZenonT(60) DEF Rerank
  <2> DEFINE t == [C[B[i]].trace EXCEPT !.reranker = i]
             c == C[B[i]].chunk
  <2>2. R[i] = [chunk |-> c, rank |-> i, trace |-> t]
    BY <2>1
  <2> HIDE DEF t, c, R, B, n
  <2>3. R[i].chunk = c /\ R[i].trace = t /\ R[i].rank = i
    BY <2>2
  <2> QED BY <2>2, <2>3 DEF t, c
<1>10. ASSUME NEW i \in 1 .. n PROVE R[i] \in Results(x)
  <2>1. /\ C[B[i]].trace \in Traces /\ C[B[i]].chunk \in DOMAIN x.cross
        /\ i \in Nat
    <3> HIDE DEF n, B, P
    <3> QED BY <1>3, <1>8
  <2>2. [C[B[i]].trace EXCEPT !.reranker = i] \in Traces
    <3> HIDE DEF n, B
    <3> QED BY <2>1, SMTT(40) DEF Traces
  <2>3. R[i].chunk \in DOMAIN x.cross /\ R[i].trace \in Traces
    <3> HIDE DEF n, B, R
    <3> QED BY <1>9, <2>1, <2>2, ZenonT(60)
  <2> DEFINE c == R[i].chunk
             t == R[i].trace
  <2>4. R[i] = [chunk |-> c, rank |-> i, trace |-> t]
    BY <1>9, ZenonT(60)
  <2>5. c \in DOMAIN x.cross /\ t \in Traces /\ i \in Nat
    BY <2>1, <2>3
  <2> HIDE DEF n, R, c, t
  <2>6. [chunk |-> c, rank |-> i, trace |-> t] \in Results(x)
    BY <2>5 DEF Results
  <2> QED BY <2>4, <2>6
<1>11. R \in [1 .. n -> Results(x)]
  <2>1. R = [i \in 1 .. n |-> R[i]]
    BY <1>7 DEF Rerank
  <2> HIDE DEF R, n
  <2> QED BY <1>10, <2>1
<1>12. R \in Seq(Results(x)) /\ Len(R) = n /\ DOMAIN R = 1 .. n
  <2> HIDE DEF R, n
  <2> QED BY <1>7, <1>11, Listed
<1>13. ASSUME NEW i \in 1 .. n
       PROVE  \E j \in P : /\ R[i].chunk = C[j].chunk
                           /\ R[i].trace = [C[j].trace EXCEPT !.reranker = i]
  <2>1. B[i] \in P
    BY <1>8
  <2>2. R[i].chunk = C[B[i]].chunk /\ R[i].trace = [C[B[i]].trace EXCEPT !.reranker = i]
    <3> HIDE DEF R, n, B
    <3> QED BY <1>9
  <2> HIDE DEF R, n, B, P
  <2> QED BY <2>1, <2>2
<1>14. ASSUME NEW m \in P, NEW l \in P,
              x.cross[C[B[m]].chunk] > x.cross[C[B[l]].chunk]
       PROVE  m < l
  <2>1. B[m] \in P /\ B[l] \in P
    <3>1. \A l1 \in P : B[l1] \in P
      <4> HIDE DEF B, cross
      <4>1. B \in Seq(P) /\ Len(B) = Len(C) /\ P = 1 .. Len(C)
        BY <1>1, <1>5
      <4> HIDE DEF P
      <4>2. \A l1 \in 1 .. Len(B) : B[l1] \in P
        BY <4>1, ElementOfSeq
      <4> QED BY <4>1, <4>2
    <3> QED BY <3>1
  <2>2. cross[B[m]] > cross[B[l]]
    <3> HIDE DEF B, P, cross
    <3> QED BY <1>4, <1>14, <2>1
  <2>3. Outranks(cross, B[m], B[l])
    BY <2>2 DEF Outranks
  <2> HIDE DEF B, P, cross
  <2> QED BY <1>5, <2>3
<1>15. ASSUME NEW m \in 1 .. n, NEW i \in 1 .. n,
              x.cross[R[m].chunk] > x.cross[R[i].chunk]
       PROVE  m < i
  <2>1. R[m].chunk = C[B[m]].chunk /\ R[i].chunk = C[B[i]].chunk
    <3> HIDE DEF R, n, B
    <3> QED BY <1>9
  <2> HIDE DEF R, n, B, P
  <2> QED BY <1>8, <1>14, <1>15, <2>1
<1>16. ASSUME NEW j \in P, NEW i \in 1 .. n,
              x.cross[C[j].chunk] > x.cross[R[i].chunk]
       PROVE  \E m \in 1 .. n : R[m].chunk = C[j].chunk
  <2>1. PICK m \in P : B[m] = j
    BY <1>5
  <2>2. R[i].chunk = C[B[i]].chunk
    <3> HIDE DEF R, n, B
    <3> QED BY <1>9
  <2>3. m < i
    <3> HIDE DEF R, n, B, P
    <3> QED BY <1>8, <1>14, <1>16, <2>1, <2>2
  <2>4. m \in 1 .. n
    <3> HIDE DEF R, n, B
    <3> QED BY <1>1, <1>7, <2>3
  <2>5. R[m].chunk = C[j].chunk
    <3> HIDE DEF R, n, B
    <3> QED BY <1>9, <2>1, <2>4
  <2> QED BY <2>4, <2>5
<1> HIDE DEF R, n, B, best
<1> QED BY <1>6, <1>12, <1>13, <1>15, <1>16 DEF R

-----------------------------------------------------------------------------
(* The stage reports.                                                      *)

LEMMA Names ==
  /\ DOMAIN StageOrder = 1 .. 6
  /\ StageOrder[1] = "embedding" /\ StageOrder[2] = "dense"
  /\ StageOrder[3] = "sparse" /\ StageOrder[4] = "fusion"
  /\ StageOrder[5] = "reranker" /\ StageOrder[6] = "generation"
BY DEF StageOrder

\* A stage that reported once is shown as it reported; one that did not is
\* shown as skipped.
LEMMA Filled ==
  ASSUME NEW B, NEW n \in Nat, DOMAIN B = 1 .. n, NEW i \in 1 .. 6
  PROVE  /\ (\A m \in 1 .. n : B[m].name # StageOrder[i])
              => FillSkipped(B)[i] = Skipped(StageOrder[i])
         /\ \A j \in 1 .. n :
              (\A m \in 1 .. n : B[m].name = StageOrder[i] <=> m = j)
                => FillSkipped(B)[i] = B[j]
<1> DEFINE reports == {j \in DOMAIN B : B[j].name = StageOrder[i]}
<1>1. FillSkipped(B)[i] =
        IF reports = {} THEN Skipped(StageOrder[i])
        ELSE B[CHOOSE j \in reports : \A m \in reports : m <= j]
  BY Names DEF FillSkipped
<1>2. ASSUME NEW j \in 1 .. n, \A m \in 1 .. n : B[m].name = StageOrder[i] <=> m = j
      PROVE  FillSkipped(B)[i] = B[j]
  <2>1. reports = {j}
    BY <1>2
  <2>2. (CHOOSE l \in reports : \A m \in reports : m <= l) = j
    <3> HIDE DEF reports
    <3> QED BY <2>1
  <2> HIDE DEF reports
  <2> QED BY <1>1, <2>1, <2>2
<1>3. ASSUME \A m \in 1 .. n : B[m].name # StageOrder[i]
      PROVE  FillSkipped(B)[i] = Skipped(StageOrder[i])
  <2>1. reports = {}
    BY <1>3
  <2> HIDE DEF reports
  <2> QED BY <1>1, <2>1
<1> QED BY <1>2, <1>3

\* What RetrieveTraced computes on the way: how many candidates a search is
\* asked for, what the searches find, what goes to the reranker, and the
\* reports up to there.
Window(k, mode, reranker) ==
  IF mode = "hybrid" THEN k * Multiplier ELSE Width(k, reranker)
Dense(x, k, mode, reranker) == DenseSearch(x, Window(k, mode, reranker))
Sparse(x, k, mode, reranker) == SparseSearch(x, Window(k, mode, reranker))
Candidates(x, k, mode, reranker) ==
  IF mode = "dense" THEN Dense(x, k, mode, reranker)
  ELSE IF mode = "sparse" THEN Sparse(x, k, mode, reranker)
  ELSE Fuse(Dense(x, k, mode, reranker), Sparse(x, k, mode, reranker), k)
Base(x, k, mode, reranker) ==
  LET D == Dense(x, k, mode, reranker)
      S == Sparse(x, k, mode, reranker)
  IN  IF mode = "dense" THEN DenseStages(x, D)
      ELSE IF mode = "sparse" THEN <<Skipped("embedding"), SparseStage(x, S)>>
      ELSE DenseStages(x, D) \o <<SparseStage(x, S), FusionStage(D, S, Fuse(D, S, k))>>

LEMMA Traced ==
  ASSUME NEW x, NEW k, NEW mode \in Modes, NEW reranker
  PROVE  RetrieveTraced(x, k, mode, reranker) =
           MaybeRerank(x, Candidates(x, k, mode, reranker),
                       Base(x, k, mode, reranker), k, reranker)
<1>1. CASE mode = "dense"
  BY <1>1 DEF RetrieveTraced, Candidates, Base, Dense, Sparse, Window
<1>2. CASE mode = "sparse"
  BY <1>2 DEF RetrieveTraced, Candidates, Base, Dense, Sparse, Window
<1>3. CASE mode = "hybrid"
  BY <1>3 DEF RetrieveTraced, Candidates, Base, Dense, Sparse, Window
<1> QED BY <1>1, <1>2, <1>3 DEF Modes

LEMMA Windows ==
  ASSUME NEW k \in Nat, NEW mode, NEW reranker
  PROVE  Window(k, mode, reranker) \in Nat
BY RetrievalAssumption DEF Window, Width

LEMMA Pair ==
  ASSUME NEW T, NEW a \in T, NEW b \in T
  PROVE  /\ <<a, b>> \in Seq(T) /\ Len(<<a, b>>) = 2
         /\ <<a, b>>[1] = a /\ <<a, b>>[2] = b
OBVIOUS

LEMMA Joined ==
  ASSUME NEW a, NEW b, NEW c, NEW d
  PROVE  LET p == <<a, b>> \o <<c, d>>
         IN  /\ p \in Seq({a, b, c, d}) /\ Len(p) = 4
             /\ p[1] = a /\ p[2] = b /\ p[3] = c /\ p[4] = d
<1> DEFINE s == <<a, b>>
           t == <<c, d>>
           T == {a, b, c, d}
<1>1. /\ s \in Seq(T) /\ Len(s) = 2 /\ s[1] = a /\ s[2] = b
      /\ t \in Seq(T) /\ Len(t) = 2 /\ t[1] = c /\ t[2] = d
  BY Pair
<1> HIDE DEF s, t, T
<1>2. /\ s \o t \in Seq(T) /\ Len(s \o t) = 4
      /\ \A i \in 1 .. 4 : (s \o t)[i] = IF i <= 2 THEN s[i] ELSE t[i - 2]
  <2>1. /\ s \o t \in Seq(T) /\ Len(s \o t) = Len(s) + Len(t)
        /\ \A i \in 1 .. Len(s) + Len(t) :
             (s \o t)[i] = IF i <= Len(s) THEN s[i] ELSE t[i - Len(s)]
    BY <1>1, ConcatProperties
  <2>2. Len(s) + Len(t) = 4
    BY <1>1
  <2> QED BY <1>1, <2>1, <2>2
<1>3. (s \o t)[1] = a /\ (s \o t)[2] = b /\ (s \o t)[3] = c /\ (s \o t)[4] = d
  BY <1>1, <1>2
<1> QED BY <1>2, <1>3 DEF s, t, T

\* The list of reports without the reranker's, entry by entry ...
LEMMA BaseList ==
  ASSUME NEW x, NEW k, NEW mode \in Modes, NEW reranker
  PROVE  LET B == Base(x, k, mode, reranker)
             D == Dense(x, k, mode, reranker)
             S == Sparse(x, k, mode, reranker)
         IN  /\ \E T : B \in Seq(T)
             /\ Len(B) = IF mode = "hybrid" THEN 4 ELSE 2
             /\ mode = "sparse" =>
                  /\ B[1] = Skipped("embedding")
                  /\ B[2] = Ran("sparse", Len(x.ids), Len(S))
             /\ mode # "sparse" =>
                  /\ B[1] = Ran("embedding", NotCounted, NotCounted)
                  /\ B[2] = Ran("dense", Len(x.ids), Len(D))
             /\ mode = "hybrid" =>
                  /\ B[3] = Ran("sparse", Len(x.ids), Len(S))
                  /\ B[4] = Ran("fusion", Len(FusedOrder(D, S)),
                                Len(Candidates(x, k, mode, reranker)))
<1> DEFINE B == Base(x, k, mode, reranker)
           D == Dense(x, k, mode, reranker)
           S == Sparse(x, k, mode, reranker)
           e == Ran("embedding", NotCounted, NotCounted)
           d == Ran("dense", Len(x.ids), Len(D))
           s == Ran("sparse", Len(x.ids), Len(S))
           f == Ran("fusion", Len(FusedOrder(D, S)), Len(Fuse(D, S, k)))
<1>1. CASE mode = "dense"
  <2>1. B = <<e, d>>
    BY <1>1 DEF Base, DenseStages
  <2> HIDE DEF B, e, d
  <2>2. B \in Seq({e, d}) /\ Len(B) = 2 /\ B[1] = e /\ B[2] = d
    BY <2>1, Pair
  <2> QED BY <1>1, <2>2 DEF B, e, d
<1>2. CASE mode = "sparse"
  <2> DEFINE g == Skipped("embedding")
  <2>1. B = <<g, s>>
    BY <1>2 DEF Base, SparseStage
  <2> HIDE DEF B, g, s
  <2>2. B \in Seq({g, s}) /\ Len(B) = 2 /\ B[1] = g /\ B[2] = s
    BY <2>1, Pair
  <2> QED BY <1>2, <2>2 DEF B, g, s
<1>3. CASE mode = "hybrid"
  <2>1. B = <<e, d>> \o <<s, f>>
    BY <1>3 DEF Base, DenseStages, SparseStage, FusionStage
  <2> HIDE DEF B, e, d, s, f
  <2>2. /\ B \in Seq({e, d, s, f}) /\ Len(B) = 4
        /\ B[1] = e /\ B[2] = d /\ B[3] = s /\ B[4] = f
    BY <2>1, Joined
  <2>3. Candidates(x, k, mode, reranker) = Fuse(D, S, k)
    BY <1>3 DEF Candidates
  <2> QED BY <1>3, <2>2, <2>3 DEF B, e, d, s, f
<1> QED BY <1>1, <1>2, <1>3 DEF Modes

\* ... and with it.
LEMMA StageList ==
  ASSUME NEW x, NEW k, NEW mode \in Modes, NEW reranker \in BOOLEAN
  PROVE  LET traced == RetrieveTraced(x, k, mode, reranker)
             B == Base(x, k, mode, reranker)
             C == Candidates(x, k, mode, reranker)
             n == Len(B)
         IN  /\ traced.results = IF reranker THEN Rerank(x, C, k) ELSE FirstOf(C, k)
             /\ DOMAIN traced.stages = 1 .. (IF reranker THEN n + 1 ELSE n)
             /\ \A i \in 1 .. n : traced.stages[i] = B[i]
             /\ reranker => traced.stages[n + 1] =
                              Ran("reranker", Len(C), Len(traced.results))
<1> DEFINE traced == RetrieveTraced(x, k, mode, reranker)
           B == Base(x, k, mode, reranker)
           C == Candidates(x, k, mode, reranker)
           n == Len(B)
           report == Ran("reranker", Len(C), Len(Rerank(x, C, k)))
<1>1. PICK T : B \in Seq(T)
  BY BaseList
<1>2. traced = IF ~reranker
               THEN [results |-> FirstOf(C, k), stages |-> B]
               ELSE [results |-> Rerank(x, C, k), stages |-> Append(B, report)]
  BY Traced DEF MaybeRerank
<1> DEFINE Goal == /\ traced.results = IF reranker THEN Rerank(x, C, k) ELSE FirstOf(C, k)
                   /\ DOMAIN traced.stages = 1 .. (IF reranker THEN n + 1 ELSE n)
                   /\ \A i \in 1 .. n : traced.stages[i] = B[i]
                   /\ reranker => traced.stages[n + 1] =
                                    Ran("reranker", Len(C), Len(traced.results))
<1> SUFFICES Goal
  OBVIOUS
<1> HIDE DEF traced, B, C
<1>3. n \in Nat /\ DOMAIN B = 1 .. n
  BY <1>1
<1>4. CASE ~reranker
  BY <1>2, <1>3, <1>4
<1>5. CASE reranker
  <2>1. traced.results = Rerank(x, C, k) /\ traced.stages = Append(B, report)
    BY <1>2, <1>5
  <2>2. report = Ran("reranker", Len(C), Len(traced.results))
    BY <2>1
  <2> DEFINE U == T \cup {report}
  <2>3. B \in Seq(U) /\ report \in U
    <3>1. B \in [1 .. n -> U]
      BY <1>1
    <3> HIDE DEF U
    <3>2. B \in Seq(U)
      BY <1>3, <3>1, Listed
    <3> QED BY <3>2 DEF U
  <2> HIDE DEF report, U
  <2>4. /\ DOMAIN Append(B, report) = 1 .. n + 1
        /\ \A i \in 1 .. n : Append(B, report)[i] = B[i]
        /\ Append(B, report)[n + 1] = report
    BY <1>3, <2>3, AppendProperties
  <2> QED BY <1>5, <2>1, <2>2, <2>4
<1> QED BY <1>4, <1>5

\* What the pipeline shows of each stage.
LEMMA Reports ==
  ASSUME NEW x, NEW k, NEW mode \in Modes, NEW reranker \in BOOLEAN
  PROVE  LET traced == RetrieveTraced(x, k, mode, reranker)
             shown == FillSkipped(traced.stages)
             D == Dense(x, k, mode, reranker)
             S == Sparse(x, k, mode, reranker)
             C == Candidates(x, k, mode, reranker)
         IN  /\ shown[1] = IF mode = "sparse" THEN Skipped("embedding")
                           ELSE Ran("embedding", NotCounted, NotCounted)
             /\ shown[2] = IF mode = "sparse" THEN Skipped("dense")
                           ELSE Ran("dense", Len(x.ids), Len(D))
             /\ shown[3] = IF mode = "dense" THEN Skipped("sparse")
                           ELSE Ran("sparse", Len(x.ids), Len(S))
             /\ shown[4] = IF mode = "hybrid"
                           THEN Ran("fusion", Len(FusedOrder(D, S)), Len(C))
                           ELSE Skipped("fusion")
             /\ shown[5] = IF reranker
                           THEN Ran("reranker", Len(C), Len(traced.results))
                           ELSE Skipped("reranker")
<1> DEFINE traced == RetrieveTraced(x, k, mode, reranker)
           stages == traced.stages
           shown == FillSkipped(stages)
           D == Dense(x, k, mode, reranker)
           S == Sparse(x, k, mode, reranker)
           C == Candidates(x, k, mode, reranker)
           B == Base(x, k, mode, reranker)
           n == IF mode = "hybrid" THEN 4 ELSE 2
           m == IF reranker THEN n + 1 ELSE n
           e == Ran("embedding", NotCounted, NotCounted)
           d == Ran("dense", Len(x.ids), Len(D))
           s == Ran("sparse", Len(x.ids), Len(S))
           f == Ran("fusion", Len(FusedOrder(D, S)), Len(C))
           g == Skipped("embedding")
           r == Ran("reranker", Len(C), Len(traced.results))
<1>1. /\ Len(B) = n
      /\ mode = "sparse" => B[1] = g /\ B[2] = s
      /\ mode # "sparse" => B[1] = e /\ B[2] = d
      /\ mode = "hybrid" => B[3] = s /\ B[4] = f
  BY BaseList
<1>2. /\ DOMAIN stages = 1 .. m
      /\ \A i \in 1 .. n : stages[i] = B[i]
      /\ reranker => stages[n + 1] = r
  <2>1. /\ DOMAIN stages = 1 .. (IF reranker THEN Len(B) + 1 ELSE Len(B))
        /\ \A i \in 1 .. Len(B) : stages[i] = B[i]
        /\ reranker => stages[Len(B) + 1] = r
    <3> HIDE DEF e, d, s, f, g
    <3> QED BY StageList
  <2> HIDE DEF B, stages, r, e, d, s, f, g
  <2> QED BY <1>1, <2>1
<1>3. /\ e.name = "embedding" /\ g.name = "embedding" /\ d.name = "dense"
      /\ s.name = "sparse" /\ f.name = "fusion" /\ r.name = "reranker"
  BY DEF Ran, Skipped
<1>4. ASSUME NEW i \in 1 .. 6
      PROVE  /\ (\A q \in 1 .. m : stages[q].name # StageOrder[i])
                   => shown[i] = Skipped(StageOrder[i])
             /\ \A j \in 1 .. m :
                  (\A q \in 1 .. m : stages[q].name = StageOrder[i] <=> q = j)
                    => shown[i] = stages[j]
  <2>1. m \in Nat
    OBVIOUS
  <2> HIDE DEF m, stages
  <2> QED BY <1>2, <2>1, Filled
<1> SUFFICES /\ shown[1] = IF mode = "sparse" THEN g ELSE e
             /\ shown[2] = IF mode = "sparse" THEN Skipped("dense") ELSE d
             /\ shown[3] = IF mode = "dense" THEN Skipped("sparse") ELSE s
             /\ shown[4] = IF mode = "hybrid" THEN f ELSE Skipped("fusion")
             /\ shown[5] = IF reranker THEN r ELSE Skipped("reranker")
  OBVIOUS
<1>5. g = Skipped("embedding")
  OBVIOUS
<1> HIDE DEF traced, stages, shown, D, S, C, B, e, d, s, f, g, r
<1>6. /\ mode = "sparse" => stages[1] = g /\ stages[2] = s
      /\ mode # "sparse" => stages[1] = e /\ stages[2] = d
      /\ mode = "hybrid" => stages[3] = s /\ stages[4] = f
  BY <1>1, <1>2
<1>7. \A i \in 1 .. 5 : StageOrder[i] =
        IF i = 1 THEN "embedding" ELSE IF i = 2 THEN "dense"
        ELSE IF i = 3 THEN "sparse" ELSE IF i = 4 THEN "fusion" ELSE "reranker"
  BY Names
<1>8. ASSUME NEW i \in 1 .. 5, \A q \in 1 .. m : stages[q].name # StageOrder[i]
      PROVE  shown[i] = Skipped(StageOrder[i])
  BY <1>4, <1>8
<1>9. ASSUME NEW i \in 1 .. 5, NEW j \in 1 .. m,
             \A q \in 1 .. m : stages[q].name = StageOrder[i] <=> q = j
      PROVE  shown[i] = stages[j]
  BY <1>4, <1>9
<1>10. CASE mode = "sparse"
  <2>1. m = IF reranker THEN 3 ELSE 2
    BY <1>10
  <2>2. /\ stages[1].name = "embedding" /\ stages[2].name = "sparse"
        /\ reranker => stages[3] = r /\ stages[3].name = "reranker"
    BY <1>2, <1>3, <1>6, <1>10
  <2> HIDE DEF m
  <2>3. shown[1] = stages[1]
    <3>1. 1 \in 1 .. 5 /\ 1 \in 1 .. m
      BY <2>1
    <3>2. \A q \in 1 .. m : stages[q].name = StageOrder[1] <=> q = 1
      BY <1>7, <2>1, <2>2
    <3> QED BY <1>9, <3>1, <3>2
  <2>4. shown[2] = Skipped("dense")
    BY <1>7, <1>8, <2>1, <2>2
  <2>5. shown[3] = stages[2]
    <3>1. 3 \in 1 .. 5 /\ 2 \in 1 .. m
      BY <2>1
    <3>2. \A q \in 1 .. m : stages[q].name = StageOrder[3] <=> q = 2
      BY <1>7, <2>1, <2>2
    <3> QED BY <1>9, <3>1, <3>2
  <2>6. shown[4] = Skipped("fusion")
    BY <1>7, <1>8, <2>1, <2>2
  <2>7. shown[5] = IF reranker THEN r ELSE Skipped("reranker")
    <3>1. CASE reranker
      <4>1. 5 \in 1 .. 5 /\ 3 \in 1 .. m
        BY <2>1, <3>1
      <4>2. \A q \in 1 .. m : stages[q].name = StageOrder[5] <=> q = 3
        BY <1>7, <2>1, <2>2, <3>1
      <4>3. shown[5] = stages[3]
        BY <1>9, <4>1, <4>2
      <4> QED BY <2>2, <3>1, <4>3
    <3>2. CASE ~reranker
      BY <1>7, <1>8, <2>1, <2>2, <3>2
    <3> QED BY <3>1, <3>2
  <2> QED BY <1>6, <1>10, <2>3, <2>4, <2>5, <2>6, <2>7
<1>11. CASE mode = "dense"
  <2>1. m = IF reranker THEN 3 ELSE 2
    BY <1>11
  <2>2. /\ stages[1].name = "embedding" /\ stages[2].name = "dense"
        /\ reranker => stages[3] = r /\ stages[3].name = "reranker"
    BY <1>2, <1>3, <1>6, <1>11
  <2> HIDE DEF m
  <2>3. shown[1] = stages[1]
    <3>1. 1 \in 1 .. 5 /\ 1 \in 1 .. m
      BY <2>1
    <3>2. \A q \in 1 .. m : stages[q].name = StageOrder[1] <=> q = 1
      BY <1>7, <2>1, <2>2
    <3> QED BY <1>9, <3>1, <3>2
  <2>4. shown[2] = stages[2]
    <3>1. 2 \in 1 .. 5 /\ 2 \in 1 .. m
      BY <2>1
    <3>2. \A q \in 1 .. m : stages[q].name = StageOrder[2] <=> q = 2
      BY <1>7, <2>1, <2>2
    <3> QED BY <1>9, <3>1, <3>2
  <2>5. shown[3] = Skipped("sparse")
    BY <1>7, <1>8, <2>1, <2>2
  <2>6. shown[4] = Skipped("fusion")
    BY <1>7, <1>8, <2>1, <2>2
  <2>7. shown[5] = IF reranker THEN r ELSE Skipped("reranker")
    <3>1. CASE reranker
      <4>1. 5 \in 1 .. 5 /\ 3 \in 1 .. m
        BY <2>1, <3>1
      <4>2. \A q \in 1 .. m : stages[q].name = StageOrder[5] <=> q = 3
        BY <1>7, <2>1, <2>2, <3>1
      <4>3. shown[5] = stages[3]
        BY <1>9, <4>1, <4>2
      <4> QED BY <2>2, <3>1, <4>3
    <3>2. CASE ~reranker
      BY <1>7, <1>8, <2>1, <2>2, <3>2
    <3> QED BY <3>1, <3>2
  <2> QED BY <1>6, <1>11, <2>3, <2>4, <2>5, <2>6, <2>7
<1>12. CASE mode = "hybrid"
  <2>1. m = IF reranker THEN 5 ELSE 4
    BY <1>12
  <2>2. /\ stages[1].name = "embedding" /\ stages[2].name = "dense"
        /\ stages[3].name = "sparse" /\ stages[4].name = "fusion"
        /\ reranker => stages[5] = r /\ stages[5].name = "reranker"
    BY <1>2, <1>3, <1>6, <1>12
  <2> HIDE DEF m
  <2>3. shown[1] = stages[1]
    <3>1. 1 \in 1 .. 5 /\ 1 \in 1 .. m
      BY <2>1
    <3>2. \A q \in 1 .. m : stages[q].name = StageOrder[1] <=> q = 1
      BY <1>7, <2>1, <2>2
    <3> QED BY <1>9, <3>1, <3>2
  <2>4. shown[2] = stages[2]
    <3>1. 2 \in 1 .. 5 /\ 2 \in 1 .. m
      BY <2>1
    <3>2. \A q \in 1 .. m : stages[q].name = StageOrder[2] <=> q = 2
      BY <1>7, <2>1, <2>2
    <3> QED BY <1>9, <3>1, <3>2
  <2>5. shown[3] = stages[3]
    <3>1. 3 \in 1 .. 5 /\ 3 \in 1 .. m
      BY <2>1
    <3>2. \A q \in 1 .. m : stages[q].name = StageOrder[3] <=> q = 3
      BY <1>7, <2>1, <2>2
    <3> QED BY <1>9, <3>1, <3>2
  <2>6. shown[4] = stages[4]
    <3>1. 4 \in 1 .. 5 /\ 4 \in 1 .. m
      BY <2>1
    <3>2. \A q \in 1 .. m : stages[q].name = StageOrder[4] <=> q = 4
      BY <1>7, <2>1, <2>2
    <3> QED BY <1>9, <3>1, <3>2
  <2>7. shown[5] = IF reranker THEN r ELSE Skipped("reranker")
    <3>1. CASE reranker
      <4>1. 5 \in 1 .. 5 /\ 5 \in 1 .. m
        BY <2>1, <3>1
      <4>2. \A q \in 1 .. m : stages[q].name = StageOrder[5] <=> q = 5
        BY <1>7, <2>1, <2>2, <3>1
      <4>3. shown[5] = stages[5]
        BY <1>9, <4>1, <4>2
      <4> QED BY <2>2, <3>1, <4>3
    <3>2. CASE ~reranker
      BY <1>7, <1>8, <2>1, <2>2, <3>2
    <3> QED BY <3>1, <3>2
  <2> QED BY <1>6, <1>12, <2>3, <2>4, <2>5, <2>6, <2>7
<1> QED BY <1>10, <1>11, <1>12 DEF Modes

-----------------------------------------------------------------------------
(* What comes back.                                                        *)

\* The two lists that are fused name chunks of the index.
LEMMA FusedBound ==
  ASSUME NEW x \in Indexes, NEW k \in Nat
  PROVE  LET D == DenseSearch(x, k)
             S == SparseSearch(x, k)
         IN  Len(FusedOrder(D, S)) <= Len(x.ids)
<1> DEFINE D == DenseSearch(x, k)
           S == SparseSearch(x, k)
           F == FusedOrder(D, S)
           C == {x.ids[i] : i \in 1 .. Len(x.ids)}
<1>1. /\ D \in Seq(Results(x)) /\ S \in Seq(Results(x))
  BY DenseFacts, SparseFacts
<1>2. ASSUME NEW i \in DOMAIN D PROVE D[i].chunk \in C
  <2>1. i \in 1 .. Len(x.ids) /\ D[i].chunk = x.ids[x.dense[i]]
    BY DenseFacts
  <2>2. x.dense[i] \in 1 .. Len(x.ids)
    BY <2>1, IndexFacts
  <2> HIDE DEF D
  <2> QED BY <2>1, <2>2
<1>3. ASSUME NEW i \in DOMAIN S PROVE S[i].chunk \in C
  <2> DEFINE O == SparseOrder(x)
  <2>1. i \in DOMAIN O /\ S[i].chunk = x.ids[O[i]]
    BY SparseFacts
  <2>2. O \in Seq(1 .. Len(x.ids))
    BY SparseOrderFacts
  <2> HIDE DEF S, O
  <2>3. O[i] \in 1 .. Len(x.ids)
    BY <2>1, <2>2
  <2> QED BY <2>1, <2>3
<1> HIDE DEF D, S, C
<1>4. /\ F \in Seq(C)
      /\ \A m, l \in DOMAIN F : F[m] = F[l] => m = l
  BY <1>1, <1>2, <1>3, FusedOrderFacts, NamedIn
<1> HIDE DEF F
<1>5. Len(F) \in Nat /\ DOMAIN F = 1 .. Len(F)
  BY <1>4
<1>6. \A m \in 1 .. Len(F) : \E i \in 1 .. Len(x.ids) : F[m] = x.ids[i]
  <2>1. \A m \in 1 .. Len(F) : F[m] \in C
    BY <1>4
  <2> QED BY <2>1 DEF C
<1>7. \A m, l \in 1 .. Len(F) : F[m] = F[l] => m = l
  BY <1>4, <1>5
<1>8. Len(F) <= Len(x.ids)
  BY <1>5, <1>6, <1>7, NoLonger
<1> QED BY <1>8 DEF F, D, S

LEMMA SearchLengths ==
  ASSUME NEW x \in Indexes, NEW k \in Nat
  PROVE  /\ Len(x.ids) \in Nat
         /\ Len(DenseSearch(x, k)) \in Nat /\ Len(DenseSearch(x, k)) <= Len(x.ids)
         /\ Len(DenseSearch(x, k)) <= k
         /\ Len(SparseSearch(x, k)) \in Nat /\ Len(SparseSearch(x, k)) <= Len(x.ids)
         /\ Len(SparseSearch(x, k)) <= k
<1>1. Len(x.ids) \in Nat
  BY IndexFacts
<1>2. Len(DenseSearch(x, k)) = IF k < Len(x.ids) THEN k ELSE Len(x.ids)
  BY DenseFacts
<1>3. Len(SparseSearch(x, k)) = IF k < Len(SparseOrder(x)) THEN k ELSE Len(SparseOrder(x))
  BY SparseFacts
<1>4. SparseOrder(x) \in Seq(1 .. Len(x.ids)) /\ Len(SparseOrder(x)) <= Len(x.ids)
  BY SparseOrderFacts
<1>5. Len(SparseOrder(x)) \in Nat
  BY <1>4
<1> QED BY <1>1, <1>2, <1>3, <1>4, <1>5

\* The candidates, before the reranker: how many, and the ranks they carry.
LEMMA CandidateFacts ==
  ASSUME NEW x \in Indexes, NEW k \in Nat, NEW mode \in Modes, NEW reranker \in BOOLEAN
  PROVE  LET D == Dense(x, k, mode, reranker)
             S == Sparse(x, k, mode, reranker)
             C == Candidates(x, k, mode, reranker)
         IN  /\ C \in Seq(Results(x))
             /\ Len(C) <= Len(x.ids)
             /\ mode = "dense" => Len(C) = Len(D)
             /\ mode = "sparse" => Len(C) = Len(S)
             /\ mode = "hybrid" => /\ Len(FusedOrder(D, S)) \in Nat
                                   /\ Len(C) <= Len(FusedOrder(D, S))
                                   /\ Len(FusedOrder(D, S)) <= Len(x.ids)
             /\ ~reranker => Len(C) <= k
             /\ \A j \in DOMAIN C :
                  /\ C[j].trace.reranker = None
                  /\ mode = "hybrid" => C[j].trace.fused = j
                  /\ mode # "hybrid" => C[j].trace.fused = None
                  /\ mode = "dense" => /\ C[j].trace.dense = j
                                       /\ C[j].trace.sparse = None
                  /\ mode = "sparse" => /\ C[j].trace.sparse = j
                                        /\ C[j].trace.dense = None
                  /\ mode = "hybrid" => /\ C[j].trace.dense \in 0 .. Len(D)
                                        /\ C[j].trace.sparse \in 0 .. Len(S)
<1> DEFINE w == Window(k, mode, reranker)
           D == Dense(x, k, mode, reranker)
           S == Sparse(x, k, mode, reranker)
           C == Candidates(x, k, mode, reranker)
           F == FusedOrder(D, S)
<1>1. w \in Nat
  BY Windows
<1>2. D = DenseSearch(x, w) /\ S = SparseSearch(x, w)
  BY DEF Dense, Sparse
<1>3. /\ Len(x.ids) \in Nat
      /\ Len(D) \in Nat /\ Len(D) <= Len(x.ids) /\ Len(D) <= w
      /\ Len(S) \in Nat /\ Len(S) <= Len(x.ids) /\ Len(S) <= w
  <2> HIDE DEF w, D, S
  <2> QED BY <1>1, <1>2, SearchLengths
<1>4. D \in Seq(Results(x)) /\ S \in Seq(Results(x))
  <2> HIDE DEF w, D, S
  <2> QED BY <1>1, <1>2, DenseFacts, SparseFacts
<1>5. mode # "hybrid" /\ ~reranker => w = k
  BY DEF Window, Width
<1>6. CASE mode = "dense"
  <2>1. C = D
    BY <1>6 DEF Candidates
  <2>2. ASSUME NEW j \in DOMAIN D
        PROVE  D[j].trace = [NoTrace EXCEPT !.dense = j]
    <3>1. D[j] = [chunk |-> x.ids[x.dense[j]], rank |-> j,
                  trace |-> [NoTrace EXCEPT !.dense = j]]
      <4> HIDE DEF w, D
      <4> QED BY <1>1, <1>2, DenseFacts
    <3> HIDE DEF D
    <3> QED BY <3>1
  <2>3. ASSUME NEW j \in DOMAIN D
        PROVE  /\ D[j].trace.reranker = None /\ D[j].trace.fused = None
               /\ D[j].trace.dense = j /\ D[j].trace.sparse = None
    <3> HIDE DEF D
    <3> QED BY <2>2 DEF NoTrace
  <2> HIDE DEF C, D, S, w
  <2> QED BY <1>3, <1>4, <1>5, <1>6, <2>1, <2>3 DEF C, D, S
<1>7. CASE mode = "sparse"
  <2>1. C = S
    BY <1>7 DEF Candidates
  <2>2. ASSUME NEW j \in DOMAIN S
        PROVE  S[j].trace = [NoTrace EXCEPT !.sparse = j]
    <3>1. S[j] = [chunk |-> x.ids[SparseOrder(x)[j]], rank |-> j,
                  trace |-> [NoTrace EXCEPT !.sparse = j]]
      <4> HIDE DEF w, S
      <4> QED BY <1>1, <1>2, SparseFacts
    <3> HIDE DEF S
    <3> QED BY <3>1
  <2>3. ASSUME NEW j \in DOMAIN S
        PROVE  /\ S[j].trace.reranker = None /\ S[j].trace.fused = None
               /\ S[j].trace.sparse = j /\ S[j].trace.dense = None
    <3> HIDE DEF S
    <3> QED BY <2>2 DEF NoTrace
  <2> HIDE DEF C, D, S, w
  <2> QED BY <1>3, <1>4, <1>5, <1>7, <2>1, <2>3 DEF C, D, S
<1>8. CASE mode = "hybrid"
  <2>1. C = Fuse(D, S, k)
    BY <1>8 DEF Candidates
  <2>2. Len(F) <= Len(x.ids)
    <3> HIDE DEF w, D, S
    <3> QED BY <1>1, <1>2, FusedBound
  <2> HIDE DEF D, S
  <2>3. F \in Seq(DOMAIN x.cross) /\ C \in Seq(Results(x))
        /\ Len(C) = IF k < Len(F) THEN k ELSE Len(F)
    BY <1>4, <2>1, FuseFacts
  <2>4. ASSUME NEW j \in DOMAIN C
        PROVE  /\ C[j].trace.reranker = None
               /\ C[j].trace.fused = j
               /\ C[j].trace.dense \in 0 .. Len(D)
               /\ C[j].trace.sparse \in 0 .. Len(S)
    <3> HIDE DEF C
    <3> QED BY <1>4, <2>1, FuseFacts
  <2> HIDE DEF F, C, w
  <2>5. Len(F) \in Nat
    BY <2>3
  <2>6. Len(C) <= Len(F) /\ Len(C) <= k /\ Len(C) <= Len(x.ids)
    BY <1>3, <2>2, <2>3, <2>5
  <2> QED BY <1>8, <2>2, <2>3, <2>4, <2>5, <2>6 DEF C, D, S, F
<1> QED BY <1>6, <1>7, <1>8 DEF Modes

\* The results, after it.
LEMMA ResultFacts ==
  ASSUME NEW x \in Indexes, NEW k \in Nat, NEW mode \in Modes, NEW reranker \in BOOLEAN
  PROVE  LET C == Candidates(x, k, mode, reranker)
             R == RetrieveTraced(x, k, mode, reranker).results
         IN  /\ R \in Seq(Results(x))
             /\ Len(R) = IF k < Len(C) THEN k ELSE Len(C)
             /\ ~reranker => \A i \in DOMAIN R : i \in DOMAIN C /\ R[i] = C[i]
             /\ reranker => \A i \in DOMAIN R : \E j \in DOMAIN C :
                  /\ R[i].chunk = C[j].chunk
                  /\ R[i].trace = [C[j].trace EXCEPT !.reranker = i]
<1> DEFINE C == Candidates(x, k, mode, reranker)
           R == RetrieveTraced(x, k, mode, reranker).results
<1>1. C \in Seq(Results(x))
  BY CandidateFacts
<1>2. R = IF reranker THEN Rerank(x, C, k) ELSE FirstOf(C, k)
  BY StageList
<1> HIDE DEF C, R
<1>3. CASE reranker
  <2>1. R = Rerank(x, C, k)
    BY <1>2, <1>3
  <2>2. /\ R \in Seq(Results(x))
        /\ Len(R) = IF k < Len(C) THEN k ELSE Len(C)
        /\ \A i \in DOMAIN R : \E j \in DOMAIN C :
             /\ R[i].chunk = C[j].chunk
             /\ R[i].trace = [C[j].trace EXCEPT !.reranker = i]
    BY <1>1, <2>1, RerankFacts, SMTT(40)
  <2> QED BY <1>3, <2>2 DEF C, R
<1>4. CASE ~reranker
  <2>1. R = FirstOf(C, k)
    BY <1>2, <1>4
  <2>2. /\ R \in Seq(Results(x))
        /\ Len(R) = IF k < Len(C) THEN k ELSE Len(C)
        /\ \A i \in DOMAIN R : i \in DOMAIN C /\ R[i] = C[i]
    BY <1>1, <2>1, Cut
  <2> QED BY <1>4, <2>2 DEF C, R
<1> QED BY <1>3, <1>4

-----------------------------------------------------------------------------
(* The request.                                                            *)

\* The answer is what RetrieveTraced returns, with the pipeline filled up.
AnswerInv ==
  /\ index \in Indexes
  /\ request \in Requests
  /\ Answered =>
       LET traced == RetrieveTraced(index, request.k, request.mode,
                                    request.reranker)
       IN  /\ answer.results = traced.results
           /\ answer.stages = FillSkipped(traced.stages)

\* Nothing changes after the answer.
LEMMA AnswerHolds == Spec => []AnswerInv
<1>1. Init => AnswerInv
  BY DEF Init, AnswerInv, Answered
<1>2. AnswerInv /\ [Next]_vars => AnswerInv'
  <2> SUFFICES ASSUME AnswerInv, [Next]_vars PROVE AnswerInv'
    OBVIOUS
  <2>1. CASE Retrieve
    <3> DEFINE traced == RetrieveTraced(index, request.k, request.mode,
                                        request.reranker)
    <3>1. /\ answer' = [results |-> traced.results,
                        stages  |-> FillSkipped(traced.stages)]
          /\ index' = index /\ request' = request
      BY <2>1 DEF Retrieve
    <3>2. answer'.results = traced.results /\ answer'.stages = FillSkipped(traced.stages)
      <4> HIDE DEF traced
      <4> QED BY <3>1
    <3>3. index' \in Indexes /\ request' \in Requests
      BY <3>1 DEF AnswerInv
    <3> QED BY <3>1, <3>2, <3>3 DEF AnswerInv
  <2>2. CASE UNCHANGED vars
    BY <2>2 DEF vars, AnswerInv, Answered
  <2> QED BY <2>1, <2>2 DEF Next
<1> QED BY <1>1, <1>2, PTL DEF Spec

LEMMA Asked ==
  ASSUME AnswerInv
  PROVE  /\ index \in Indexes
         /\ request.k \in Nat \ {0}
         /\ request.mode \in Modes
         /\ request.reranker \in BOOLEAN
BY RequestAssumption DEF AnswerInv, Requests

LEMMA StageAt ==
  /\ Stage("embedding") = answer.stages[1]
  /\ Stage("dense") = answer.stages[2]
  /\ Stage("sparse") = answer.stages[3]
  /\ Stage("fusion") = answer.stages[4]
  /\ Stage("reranker") = answer.stages[5]
<1>1. /\ (CHOOSE i \in DOMAIN StageOrder : StageOrder[i] = "embedding") = 1
      /\ (CHOOSE i \in DOMAIN StageOrder : StageOrder[i] = "dense") = 2
      /\ (CHOOSE i \in DOMAIN StageOrder : StageOrder[i] = "sparse") = 3
      /\ (CHOOSE i \in DOMAIN StageOrder : StageOrder[i] = "fusion") = 4
      /\ (CHOOSE i \in DOMAIN StageOrder : StageOrder[i] = "reranker") = 5
  BY Names
<1> QED BY <1>1 DEF Stage

\* An answer's pipeline and the ranks its results carry, in numbers.
LEMMA AnswerFacts ==
  ASSUME AnswerInv, Answered
  PROVE  LET mode == request.mode
             reranker == request.reranker
             D == Dense(index, request.k, mode, reranker)
             S == Sparse(index, request.k, mode, reranker)
             C == Candidates(index, request.k, mode, reranker)
         IN  /\ Stage("embedding") = IF mode = "sparse" THEN Skipped("embedding")
                                     ELSE Ran("embedding", NotCounted, NotCounted)
             /\ Stage("dense") = IF mode = "sparse" THEN Skipped("dense")
                                 ELSE Ran("dense", Len(index.ids), Len(D))
             /\ Stage("sparse") = IF mode = "dense" THEN Skipped("sparse")
                                  ELSE Ran("sparse", Len(index.ids), Len(S))
             /\ Stage("fusion") = IF mode = "hybrid"
                                  THEN Ran("fusion", Len(FusedOrder(D, S)), Len(C))
                                  ELSE Skipped("fusion")
             /\ Stage("reranker") =
                  IF reranker THEN Ran("reranker", Len(C), Len(answer.results))
                  ELSE Skipped("reranker")
<1> DEFINE traced == RetrieveTraced(index, request.k, request.mode, request.reranker)
<1>1. answer.results = traced.results /\ answer.stages = FillSkipped(traced.stages)
  BY DEF AnswerInv
<1>2. request.mode \in Modes /\ request.reranker \in BOOLEAN
  BY Asked
<1> QED BY <1>1, <1>2, StageAt, Reports

\* The pipeline diagram tells the truth about the results beside it.
LEMMA FunnelHolds == AnswerInv => FunnelTruthful
<1> SUFFICES ASSUME AnswerInv, Answered PROVE FunnelTruthful
  BY DEF FunnelTruthful
<1> DEFINE mode == request.mode
           reranker == request.reranker
           D == Dense(index, request.k, mode, reranker)
           S == Sparse(index, request.k, mode, reranker)
           C == Candidates(index, request.k, mode, reranker)
           F == FusedOrder(D, S)
           R == answer.results
           N == Len(index.ids)
<1>1. /\ index \in Indexes /\ mode \in Modes /\ reranker \in BOOLEAN
      /\ request.k \in Nat /\ request.k \in Nat \ {0}
  BY Asked
<1>2. /\ Stage("embedding") = IF mode = "sparse" THEN Skipped("embedding")
                              ELSE Ran("embedding", NotCounted, NotCounted)
      /\ Stage("dense") = IF mode = "sparse" THEN Skipped("dense")
                          ELSE Ran("dense", N, Len(D))
      /\ Stage("sparse") = IF mode = "dense" THEN Skipped("sparse")
                           ELSE Ran("sparse", N, Len(S))
      /\ Stage("fusion") = IF mode = "hybrid" THEN Ran("fusion", Len(F), Len(C))
                           ELSE Skipped("fusion")
      /\ Stage("reranker") = IF reranker THEN Ran("reranker", Len(C), Len(R))
                             ELSE Skipped("reranker")
  BY AnswerFacts
<1>3. /\ N \in Nat /\ Len(D) \in Nat /\ Len(D) <= N /\ Len(S) \in Nat /\ Len(S) <= N
  BY <1>1, Windows, SearchLengths DEF Dense, Sparse
<1>4. /\ C \in Seq(Results(index)) /\ Len(C) <= N
      /\ mode = "dense" => Len(C) = Len(D)
      /\ mode = "sparse" => Len(C) = Len(S)
      /\ mode = "hybrid" => Len(F) \in Nat /\ Len(C) <= Len(F) /\ Len(F) <= N
      /\ ~reranker => Len(C) <= request.k
  <2> HIDE DEF mode, reranker
  <2>1. C \in Seq(Results(index)) /\ Len(C) <= N
    BY <1>1, CandidateFacts
  <2>2. mode = "dense" => Len(C) = Len(D)
    BY <1>1, CandidateFacts
  <2>3. mode = "sparse" => Len(C) = Len(S)
    BY <1>1, CandidateFacts
  <2>4. mode = "hybrid" => Len(F) \in Nat /\ Len(C) <= Len(F) /\ Len(F) <= N
    BY <1>1, CandidateFacts
  <2>5. ~reranker => Len(C) <= request.k
    BY <1>1, CandidateFacts
  <2> QED BY <2>1, <2>2, <2>3, <2>4, <2>5
<1>5. ASSUME NEW j \in DOMAIN C
      PROVE  /\ C[j].trace.reranker = None
             /\ C[j].trace.fused = IF mode = "hybrid" THEN j ELSE None
             /\ mode = "dense" => C[j].trace.dense = j /\ C[j].trace.sparse = None
             /\ mode = "sparse" => C[j].trace.sparse = j /\ C[j].trace.dense = None
             /\ mode = "hybrid" => /\ C[j].trace.dense \in 0 .. Len(D)
                                   /\ C[j].trace.sparse \in 0 .. Len(S)
             /\ C[j].trace \in Traces
             /\ j \in 1 .. Len(C)
  <2>1. C[j].trace \in Traces
    <3> HIDE DEF C
    <3> QED BY <1>4, ResultFields
  <2>2. j \in 1 .. Len(C)
    <3> HIDE DEF C
    <3> QED BY <1>4
  <2>3. /\ C[j].trace.reranker = None
        /\ C[j].trace.fused = IF mode = "hybrid" THEN j ELSE None
        /\ mode = "dense" => C[j].trace.dense = j /\ C[j].trace.sparse = None
        /\ mode = "sparse" => C[j].trace.sparse = j /\ C[j].trace.dense = None
        /\ mode = "hybrid" => /\ C[j].trace.dense \in 0 .. Len(D)
                              /\ C[j].trace.sparse \in 0 .. Len(S)
    <3> HIDE DEF mode, reranker
    <3>1. C[j].trace.reranker = None
      BY <1>1, CandidateFacts
    <3>2. C[j].trace.fused = IF mode = "hybrid" THEN j ELSE None
      <4>1. mode = "hybrid" => C[j].trace.fused = j
        BY <1>1, CandidateFacts
      <4>2. mode # "hybrid" => C[j].trace.fused = None
        BY <1>1, CandidateFacts
      <4> QED BY <4>1, <4>2
    <3>3. mode = "dense" => C[j].trace.dense = j /\ C[j].trace.sparse = None
      BY <1>1, CandidateFacts
    <3>4. mode = "sparse" => C[j].trace.sparse = j /\ C[j].trace.dense = None
      BY <1>1, CandidateFacts
    <3>5. mode = "hybrid" => /\ C[j].trace.dense \in 0 .. Len(D)
                             /\ C[j].trace.sparse \in 0 .. Len(S)
      BY <1>1, CandidateFacts
    <3> QED BY <3>1, <3>2, <3>3, <3>4, <3>5
  <2> QED BY <2>1, <2>2, <2>3
<1>6. /\ R \in Seq(Results(index))
      /\ Len(R) = IF request.k < Len(C) THEN request.k ELSE Len(C)
      /\ ~reranker => \A i \in DOMAIN R : i \in DOMAIN C /\ R[i] = C[i]
      /\ reranker => \A i \in DOMAIN R : \E j \in DOMAIN C :
           R[i].trace = [C[j].trace EXCEPT !.reranker = i]
  <2>1. R = RetrieveTraced(index, request.k, mode, reranker).results
    BY DEF AnswerInv
  <2> QED BY <1>1, <2>1, ResultFacts
<1> HIDE DEF D, S, C, F, R, N, mode, reranker
<1>7. /\ Len(C) \in Nat /\ Len(R) \in Nat /\ Len(R) <= Len(C)
      /\ ~reranker => Len(R) = Len(C)
      /\ DOMAIN R = 1 .. Len(R)
  BY <1>1, <1>4, <1>6
<1>8. ASSUME NEW i \in DOMAIN R
      PROVE  LET t == R[i].trace
             IN  /\ t.reranker = IF reranker THEN i ELSE None
                 /\ t.fused = IF mode # "hybrid" THEN None
                              ELSE IF reranker THEN t.fused ELSE i
                 /\ mode = "hybrid" => t.fused \in 1 .. Len(C)
                 /\ mode = "sparse" => t.dense = None
                 /\ mode # "sparse" => t.dense \in 0 .. Len(D)
                 /\ mode = "dense" /\ ~reranker => t.dense = i
                 /\ mode = "dense" => t.sparse = None
                 /\ mode # "dense" => t.sparse \in 0 .. Len(S)
                 /\ mode = "sparse" /\ ~reranker => t.sparse = i
  <2>1. CASE ~reranker
    BY <1>1, <1>4, <1>5, <1>6, <2>1 DEF Modes, None
  <2>2. CASE reranker
    <3>1. PICK j \in DOMAIN C : R[i].trace = [C[j].trace EXCEPT !.reranker = i]
      BY <1>6, <2>2
    <3>2. /\ R[i].trace.reranker = i
          /\ R[i].trace.dense = C[j].trace.dense
          /\ R[i].trace.sparse = C[j].trace.sparse
          /\ R[i].trace.fused = C[j].trace.fused
      BY <1>5, <3>1 DEF Traces
    <3> QED BY <1>1, <1>4, <1>5, <2>2, <3>2 DEF Modes, None
  <2> QED BY <2>1, <2>2
<1> DEFINE field == [dense |-> "dense", sparse |-> "sparse", fused |-> "fusion",
                     reranker |-> "reranker"]
           last == IF HasRun("reranker") THEN "reranker"
                   ELSE IF request.mode = "hybrid" THEN "fused"
                   ELSE request.mode
<1>9. /\ HasRun("embedding") = (mode # "sparse")
      /\ HasRun("dense") = (mode # "sparse")
      /\ HasRun("sparse") = (mode # "dense")
      /\ HasRun("fusion") = (mode = "hybrid")
      /\ HasRun("reranker") = reranker
  BY <1>1, <1>2 DEF HasRun, Ran, Skipped
<1>10. /\ mode # "sparse" => Stage("dense").in = N /\ Stage("dense").out = Len(D)
       /\ mode # "dense" => Stage("sparse").in = N /\ Stage("sparse").out = Len(S)
       /\ mode = "hybrid" => Stage("fusion").in = Len(F) /\ Stage("fusion").out = Len(C)
       /\ reranker => Stage("reranker").in = Len(C) /\ Stage("reranker").out = Len(R)
  BY <1>2 DEF Ran
<1>11. /\ Stage(field[last]).out = Len(R)
       /\ \A i \in DOMAIN R : R[i].trace[last] = i
  BY <1>1, <1>4, <1>7, <1>8, <1>9, <1>10 DEF Modes, mode
<1>12. ASSUME NEW f \in DOMAIN field
       PROVE  /\ HasRun(field[f]) => /\ Stage(field[f]).out <= Stage(field[f]).in
                                     /\ Stage(field[f]).in <= N
              /\ \A i \in DOMAIN R :
                  LET rank == R[i].trace[f]
                  IN  /\ rank # None => /\ HasRun(field[f])
                                        /\ rank <= Stage(field[f]).out
                      /\ (field[f] # "dense" /\ field[f] # "sparse"
                            /\ HasRun(field[f])) => rank # None
  <2>1. CASE f = "dense"
    <3>1. field[f] = "dense"
      BY <2>1
    <3>2. ASSUME NEW i \in DOMAIN R
          PROVE  R[i].trace[f] # None => mode # "sparse" /\ R[i].trace[f] <= Len(D)
      BY <1>3, <1>8, <2>1 DEF None
    <3>3. HasRun(field[f]) <=> mode # "sparse"
      BY <1>9, <3>1
    <3>4. mode # "sparse" => Stage(field[f]).in = N /\ Stage(field[f]).out = Len(D)
      BY <1>10, <3>1
    <3> HIDE DEF field
    <3> QED BY <1>3, <3>1, <3>2, <3>3, <3>4
  <2>2. CASE f = "sparse"
    <3>1. field[f] = "sparse"
      BY <2>2
    <3>2. ASSUME NEW i \in DOMAIN R
          PROVE  R[i].trace[f] # None => mode # "dense" /\ R[i].trace[f] <= Len(S)
      BY <1>3, <1>8, <2>2 DEF None
    <3>3. HasRun(field[f]) <=> mode # "dense"
      BY <1>9, <3>1
    <3>4. mode # "dense" => Stage(field[f]).in = N /\ Stage(field[f]).out = Len(S)
      BY <1>10, <3>1
    <3> HIDE DEF field
    <3> QED BY <1>3, <3>1, <3>2, <3>3, <3>4
  <2>3. CASE f = "fused"
    <3>1. field[f] = "fusion"
      BY <2>3
    <3>2. ASSUME NEW i \in DOMAIN R
          PROVE  /\ R[i].trace[f] # None => mode = "hybrid" /\ R[i].trace[f] <= Len(C)
                 /\ mode = "hybrid" => R[i].trace[f] # None
      BY <1>7, <1>8, <2>3 DEF None
    <3> HIDE DEF field
    <3> QED BY <1>4, <1>9, <1>10, <3>1, <3>2
  <2>4. CASE f = "reranker"
    BY <1>1, <1>4, <1>7, <1>8, <1>9, <1>10, <2>4 DEF Modes, None
  <2> QED BY <2>1, <2>2, <2>3, <2>4
<1> HIDE DEF field, last
<1> QED BY <1>9, <1>11, <1>12 DEF FunnelTruthful, R, N, mode, reranker, field, last

\* A pipeline that was answered shows, for any index, request and number of
\* candidates, the stages that ran, what each was given and turned out, and
\* ranks that are theirs.
THEOREM FunnelAlwaysTruthful == Spec => []FunnelTruthful
BY AnswerHolds, FunnelHolds, PTL

-----------------------------------------------------------------------------
(* Reranking.                                                              *)

\* The first chunks of the one search that is reranked are its candidates.
LEMMA BestIsCandidate ==
  ASSUME AnswerInv, request.reranker, request.mode # "hybrid",
         NEW c, Best(c, Multiplier * request.k)
  PROVE  LET C == Candidates(index, request.k, request.mode, TRUE)
         IN  \E j \in DOMAIN C : C[j].chunk = c
<1> DEFINE w == request.k * Multiplier
           N == Len(index.ids)
           D == DenseSearch(index, w)
           O == SparseOrder(index)
           S == SparseSearch(index, w)
           C == Candidates(index, request.k, request.mode, TRUE)
<1>1. /\ index \in Indexes /\ request.k \in Nat /\ request.mode \in Modes
      /\ Multiplier \in Nat /\ Multiplier * request.k = w /\ w \in Nat
  BY Asked, RetrievalAssumption
<1>2. Window(request.k, request.mode, TRUE) = w
  BY DEF Window, Width
<1>3. N \in Nat
  BY <1>1, IndexFacts
<1>4. PICK i \in 1 .. w :
        \/ /\ request.mode = "dense" /\ i <= Len(index.dense)
           /\ index.ids[index.dense[i]] = c
        \/ /\ request.mode = "sparse"
           /\ LET found == ChunksOf(SparseSearch(index, N))
              IN  i <= Len(found) /\ found[i] = c
  BY <1>1 DEF Best
<1>5. CASE request.mode = "dense"
  <2>1. C = D
    BY <1>2, <1>5 DEF Candidates, Dense
  <2>2. i <= N /\ index.ids[index.dense[i]] = c
    BY <1>1, <1>4, <1>5, IndexFacts
  <2>3. /\ D \in Seq(Results(index)) /\ Len(D) = IF w < N THEN w ELSE N
        /\ \A r \in DOMAIN D : D[r] = [chunk |-> index.ids[index.dense[r]], rank |-> r,
                                       trace |-> [NoTrace EXCEPT !.dense = r]]
    <3> HIDE DEF w
    <3> QED BY <1>1, DenseFacts
  <2> HIDE DEF D, w, N, C
  <2>4. i \in DOMAIN D
    BY <1>1, <1>3, <2>2, <2>3
  <2>5. D[i].chunk = c
    BY <2>2, <2>3, <2>4
  <2> QED BY <2>1, <2>4, <2>5 DEF C
<1>6. CASE request.mode = "sparse"
  <2> DEFINE A == SparseSearch(index, N)
  <2>1. C = S
    BY <1>2, <1>6 DEF Candidates, Sparse
  <2>2. i <= Len(ChunksOf(A)) /\ ChunksOf(A)[i] = c
    BY <1>4, <1>6
  <2>3. /\ S \in Seq(Results(index)) /\ Len(S) = IF w < Len(O) THEN w ELSE Len(O)
        /\ \A r \in DOMAIN S : S[r] = [chunk |-> index.ids[O[r]], rank |-> r,
                                       trace |-> [NoTrace EXCEPT !.sparse = r]]
    <3> HIDE DEF w
    <3> QED BY <1>1, SparseFacts
  <2>4. /\ A \in Seq(Results(index)) /\ Len(A) = IF N < Len(O) THEN N ELSE Len(O)
        /\ \A r \in DOMAIN A : A[r] = [chunk |-> index.ids[O[r]], rank |-> r,
                                       trace |-> [NoTrace EXCEPT !.sparse = r]]
    <3> HIDE DEF N
    <3> QED BY <1>1, <1>3, SparseFacts
  <2>5. Len(O) \in Nat /\ Len(O) <= N
    <3>1. O \in Seq(1 .. N) /\ Len(O) <= N
      BY <1>1, SparseOrderFacts
    <3> HIDE DEF O, N
    <3> QED BY <3>1
  <2> HIDE DEF S, A, O, w, N, C
  <2>6. Len(A) = Len(O) /\ DOMAIN A = 1 .. Len(O)
    BY <1>3, <2>4, <2>5
  <2>7. ChunksOf(A) = [r \in 1 .. Len(O) |-> A[r].chunk]
    BY <2>6 DEF ChunksOf
  <2>8. Len(ChunksOf(A)) = Len(O)
    <3> DEFINE T == {A[r].chunk : r \in 1 .. Len(O)}
    <3>1. ChunksOf(A) \in [1 .. Len(O) -> T]
      BY <2>7
    <3> HIDE DEF T
    <3> QED BY <2>5, <3>1, Listed
  <2>9. i \in 1 .. Len(O) /\ i \in DOMAIN S
    BY <1>1, <2>2, <2>3, <2>5, <2>8
  <2>10. A[i].chunk = c /\ A[i].chunk = index.ids[O[i]]
    BY <2>2, <2>4, <2>6, <2>7, <2>9
  <2>11. S[i].chunk = index.ids[O[i]]
    BY <2>3, <2>9
  <2> QED BY <2>1, <2>9, <2>10, <2>11 DEF C
<1> QED BY <1>1, <1>5, <1>6 DEF Modes

LEMMA PromotionHolds == AnswerInv => RerankerPromotes
<1> SUFFICES ASSUME AnswerInv, Answered, request.reranker, request.mode # "hybrid",
                    NEW c \in ToSet(index.ids), NEW d \in Returned,
                    Best(c, Multiplier * request.k), index.cross[c] > index.cross[d]
             PROVE  c \in Returned /\ Place(c) < Place(d)
  BY DEF RerankerPromotes
<1> DEFINE C == Candidates(index, request.k, request.mode, TRUE)
           R == answer.results
<1>1. /\ index \in Indexes /\ request.k \in Nat /\ request.mode \in Modes
      /\ request.reranker = TRUE
  BY Asked
<1>2. R = Rerank(index, C, request.k)
  <2> DEFINE b == request.reranker
             E == Candidates(index, request.k, request.mode, b)
  <2>1. R = RetrieveTraced(index, request.k, request.mode, b).results
    BY DEF AnswerInv
  <2>2. b \in BOOLEAN /\ b
    BY <1>1
  <2>3. C = E
    BY <1>1
  <2> HIDE DEF b
  <2>4. RetrieveTraced(index, request.k, request.mode, b).results =
          IF b THEN Rerank(index, E, request.k) ELSE FirstOf(E, request.k)
    <3>1. request.mode \in Modes /\ b \in BOOLEAN
      BY <1>1, <2>2
    <3> QED BY <3>1, StageList
  <2> HIDE DEF E, C, R
  <2> QED BY <2>1, <2>2, <2>3, <2>4
<1>3. C \in Seq(Results(index))
  BY <1>1, CandidateFacts
<1>4. PICK j \in DOMAIN C : C[j].chunk = c
  BY BestIsCandidate
<1> HIDE DEF C, R
<1>5. PICK i \in DOMAIN R : R[i].chunk = d
  BY DEF Returned, R
<1>6. /\ \A m, l \in DOMAIN R :
           index.cross[R[m].chunk] > index.cross[R[l].chunk] => m < l
      /\ \A l \in DOMAIN C, m \in DOMAIN R :
           index.cross[C[l].chunk] > index.cross[R[m].chunk] =>
             \E n \in DOMAIN R : R[n].chunk = C[l].chunk
  BY <1>1, <1>2, <1>3, RerankFacts
<1>7. PICK m \in DOMAIN R : R[m].chunk = c
  BY <1>4, <1>5, <1>6
<1>8. /\ Place(c) \in DOMAIN R /\ R[Place(c)].chunk = c
      /\ Place(d) \in DOMAIN R /\ R[Place(d)].chunk = d
  BY <1>5, <1>7 DEF Place, R
<1>9. c \in Returned
  BY <1>7 DEF Returned, R
<1> QED BY <1>6, <1>8, <1>9

\* Whatever the index, the request and the scores, a chunk of the widened
\* search that the cross-encoder prefers to a returned one is returned, and
\* before it.
THEOREM RerankerAlwaysPromotes == Spec => []RerankerPromotes
BY AnswerHolds, PromotionHolds, PTL

-----------------------------------------------------------------------------
(* Agreement.                                                              *)

\* With distinct ids, a chunk has one place in each search, and the lists that
\* are fused have it there or not at all.
LEMMA ChunkPlaces ==
  ASSUME index \in Indexes, Distinct, NEW w \in Nat, NEW c \in ToSet(index.ids)
  PROVE  LET D == DenseSearch(index, w)
             S == SparseSearch(index, w)
         IN  /\ DensePlace(c) \in Nat \ {0}
             /\ \A j \in DOMAIN D : D[j].chunk = c <=> j = DensePlace(c)
             /\ SparsePlace(c) \in Nat \ {0}
             /\ \A j \in DOMAIN S : S[j].chunk = c <=> j = SparsePlace(c)
<1> DEFINE N == Len(index.ids)
           D == DenseSearch(index, w)
           O == SparseOrder(index)
           S == SparseSearch(index, w)
           A == SparseSearch(index, N)
           all == ChunksOf(A)
<1>1. N \in Nat /\ DOMAIN index.ids = 1 .. N
  BY IndexFacts
<1>2. \A i, j \in 1 .. N : index.ids[i] = index.ids[j] => i = j
  BY <1>1 DEF Distinct, IsInjective
<1>3. PICK pos \in 1 .. N : index.ids[pos] = c
  BY <1>1 DEF ToSet
<1>4. /\ index.dense \in [1 .. N -> 1 .. N]
      /\ \A i, j \in 1 .. N : index.dense[i] = index.dense[j] => i = j
      /\ DOMAIN index.dense = 1 .. N
  BY IndexFacts
<1>5. DensePlace(c) \in 1 .. N /\ index.ids[index.dense[DensePlace(c)]] = c
  <2>1. \E r \in 1 .. N : index.dense[r] = pos
    BY DenseReaches
  <2> HIDE DEF N
  <2> QED BY <1>3, <1>4, <2>1 DEF DensePlace
<1>6. ASSUME NEW j \in DOMAIN D
      PROVE  D[j].chunk = c <=> j = DensePlace(c)
  <2>1. j \in 1 .. N /\ D[j].chunk = index.ids[index.dense[j]]
    BY DenseFacts
  <2> HIDE DEF D, N
  <2>2. index.dense[j] \in 1 .. N /\ index.dense[DensePlace(c)] \in 1 .. N
    BY <1>4, <1>5, <2>1
  <2> QED BY <1>2, <1>4, <1>5, <2>1, <2>2
<1>7. /\ O \in Seq(1 .. N) /\ Len(O) <= N
      /\ \A m, l \in DOMAIN O : O[m] = O[l] => m = l
  BY SparseOrderFacts
<1>8. Len(O) \in Nat /\ DOMAIN O = 1 .. Len(O) /\ \A m \in 1 .. Len(O) : O[m] \in 1 .. N
  <2> HIDE DEF O, N
  <2>1. Len(O) \in Nat /\ DOMAIN O = 1 .. Len(O)
    BY <1>7
  <2>2. \A m \in 1 .. Len(O) : O[m] \in 1 .. N
    BY <1>7, ElementOfSeq
  <2> QED BY <2>1, <2>2
<1>9. /\ A \in Seq(Results(index)) /\ Len(A) = IF N < Len(O) THEN N ELSE Len(O)
      /\ \A r \in DOMAIN A : r \in DOMAIN O /\ A[r].chunk = index.ids[O[r]]
  <2>1. /\ A \in Seq(Results(index)) /\ Len(A) = IF N < Len(O) THEN N ELSE Len(O)
        /\ \A r \in DOMAIN A : /\ r \in DOMAIN O
                               /\ A[r] = [chunk |-> index.ids[O[r]], rank |-> r,
                                          trace |-> [NoTrace EXCEPT !.sparse = r]]
    <3> HIDE DEF N
    <3> QED BY <1>1, SparseFacts
  <2> HIDE DEF A, O, N
  <2> QED BY <2>1
<1>10. /\ S \in Seq(Results(index))
       /\ \A r \in DOMAIN S : r \in DOMAIN O /\ S[r].chunk = index.ids[O[r]]
  <2>1. /\ S \in Seq(Results(index))
        /\ \A r \in DOMAIN S : /\ r \in DOMAIN O
                               /\ S[r] = [chunk |-> index.ids[O[r]], rank |-> r,
                                          trace |-> [NoTrace EXCEPT !.sparse = r]]
    BY SparseFacts
  <2> HIDE DEF S, O, N
  <2> QED BY <2>1
<1> HIDE DEF N, O, D, S, A
<1>11. /\ DOMAIN A = 1 .. Len(O)
       /\ all = [r \in 1 .. Len(O) |-> index.ids[O[r]]]
  <2>1. Len(A) = Len(O)
    <3>1. Len(O) <= N
      BY <1>7
    <3>2. Len(A) = IF N < Len(O) THEN N ELSE Len(O)
      BY <1>9
    <3>3. N \in Nat /\ Len(O) \in Nat
      BY <1>1, <1>8
    <3> QED BY <3>1, <3>2, <3>3
  <2>2. DOMAIN A = 1 .. Len(O)
    BY <1>9, <2>1
  <2> QED BY <1>9, <2>2 DEF ChunksOf
<1> DEFINE T == {index.ids[O[r]] : r \in 1 .. Len(O)}
<1>12. Len(all) = Len(O) /\ DOMAIN all = 1 .. Len(O) /\ ToSet(all) = T
  <2>1. all \in [1 .. Len(O) -> T]
    BY <1>11
  <2>2. Len(all) = Len(O)
    <3> HIDE DEF T, all
    <3> QED BY <1>8, <2>1, Listed
  <2> QED BY <1>11, <2>2 DEF ToSet
<1>13. SparsePlace(c) = IF c \in ToSet(all) THEN CHOOSE i \in DOMAIN all : all[i] = c
                        ELSE Len(all) + 1
  BY DEF SparsePlace, A, N
<1> HIDE DEF all
<1>14. CASE c \in T
  <2>1. \E r \in DOMAIN all : all[r] = c
    BY <1>11, <1>12, <1>14
  <2>2. SparsePlace(c) \in 1 .. Len(O) /\ all[SparsePlace(c)] = c
    BY <1>12, <1>13, <1>14, <2>1
  <2>3. index.ids[O[SparsePlace(c)]] = c
    BY <1>11, <2>2
  <2>4. ASSUME NEW j \in DOMAIN S PROVE S[j].chunk = c <=> j = SparsePlace(c)
    <3>1. j \in 1 .. Len(O) /\ S[j].chunk = index.ids[O[j]]
      BY <1>8, <1>10
    <3> QED BY <1>2, <1>7, <1>8, <2>2, <2>3, <3>1
  <2>5. SparsePlace(c) \in Nat \ {0}
    BY <1>8, <2>2
  <2> QED BY <1>1, <1>5, <1>6, <2>4, <2>5 DEF D, S
<1>15. CASE c \notin T
  <2>1. SparsePlace(c) = Len(O) + 1
    BY <1>12, <1>13, <1>15
  <2>2. ASSUME NEW j \in DOMAIN S PROVE S[j].chunk = c <=> j = SparsePlace(c)
    <3>1. j \in 1 .. Len(O) /\ S[j].chunk = index.ids[O[j]]
      BY <1>8, <1>10
    <3> QED BY <1>8, <1>15, <2>1, <3>1
  <2>3. SparsePlace(c) \in Nat \ {0}
    BY <1>8, <2>1
  <2> QED BY <1>1, <1>5, <1>6, <2>2, <2>3 DEF D, S
<1> QED BY <1>14, <1>15

\* A chunk that both searches rank no lower, and the dense one higher, is met
\* before the other and gets at least its fused score.
LEMMA BetterVoted ==
  ASSUME NEW T, NEW D \in Seq(T), NEW c, NEW d, NEW p \in Nat \ {0}, NEW q \in Nat \ {0},
         p <= q,
         \A j \in DOMAIN D : D[j].chunk = c <=> j = p,
         \A j \in DOMAIN D : D[j].chunk = d <=> j = q
  PROVE  Votes(d, D) <= Votes(c, D)
<1>1. Len(D) \in Nat /\ DOMAIN D = 1 .. Len(D)
  OBVIOUS
<1>2. Votes(c, D) \in Nat
  BY VotesFacts
<1>3. CASE q \in DOMAIN D
  <2>1. p \in DOMAIN D
    BY <1>1, <1>3
  <2>2. Votes(c, D) = Weight(p)
    BY <2>1, VotesFacts
  <2>3. Votes(d, D) = Weight(q)
    BY <1>3, VotesFacts
  <2> QED BY <2>2, <2>3, Weights
<1>4. CASE q \notin DOMAIN D
  <2>1. \A j \in DOMAIN D : D[j].chunk # d
    BY <1>4
  <2>2. Votes(d, D) = 0
    BY <2>1, VotesFacts
  <2> QED BY <1>2, <2>2
<1> QED BY <1>3, <1>4

LEMMA FusionFacts ==
  ASSUME NEW x \in Indexes,
         NEW D \in Seq(Results(x)), NEW S \in Seq(Results(x))
  PROVE  LET F == FusedOrder(D, S)
             M == Met(D, S)
         IN  /\ \A m, l \in DOMAIN F : F[m] = F[l] => m = l
             /\ \A i \in DOMAIN M : \E m \in DOMAIN F : F[m] = M[i]
             /\ \A m \in DOMAIN F : \E i \in DOMAIN M : F[m] = M[i]
             /\ \A m, l \in DOMAIN F :
                  (/\ Fused(F[m], D, S) >= Fused(F[l], D, S)
                   /\ \E i \in DOMAIN M : M[i] = F[m] /\ \A j \in 1 .. i : M[j] # F[l])
                    => m < l
             /\ M \in Seq(DOMAIN x.cross) /\ Len(M) = Len(D) + Len(S)
             /\ \A i \in DOMAIN D : M[i] = D[i].chunk
             /\ \A i \in DOMAIN S : M[Len(D) + i] = S[i].chunk
<1>1. /\ \A i \in DOMAIN D : D[i].chunk \in DOMAIN x.cross
      /\ \A i \in DOMAIN S : S[i].chunk \in DOMAIN x.cross
  BY ResultFields
<1>2. Met(D, S) \in Seq(DOMAIN x.cross)
  BY <1>1, MetFacts, NamedIn
<1>3. \A m, l \in DOMAIN FusedOrder(D, S) :
        FusedOrder(D, S)[m] = FusedOrder(D, S)[l] => m = l
  BY FusedOrderFacts
<1>4. \A i \in DOMAIN Met(D, S) :
        \E m \in DOMAIN FusedOrder(D, S) : FusedOrder(D, S)[m] = Met(D, S)[i]
  BY FusedOrderFacts
<1>5. \A m \in DOMAIN FusedOrder(D, S) :
        \E i \in DOMAIN Met(D, S) : FusedOrder(D, S)[m] = Met(D, S)[i]
  BY FusedOrderFacts
<1>6. \A m, l \in DOMAIN FusedOrder(D, S) :
        (/\ Fused(FusedOrder(D, S)[m], D, S) >= Fused(FusedOrder(D, S)[l], D, S)
         /\ \E i \in DOMAIN Met(D, S) :
              /\ Met(D, S)[i] = FusedOrder(D, S)[m]
              /\ \A j \in 1 .. i : Met(D, S)[j] # FusedOrder(D, S)[l])
          => m < l
  BY FusedOrderFacts
<1>7. Len(Met(D, S)) = Len(D) + Len(S)
  BY MetFacts
<1>8. \A i \in DOMAIN D : Met(D, S)[i] = D[i].chunk
  BY MetFacts
<1>9. \A i \in DOMAIN S : Met(D, S)[Len(D) + i] = S[i].chunk
  BY MetFacts
<1> QED BY <1>2, <1>3, <1>4, <1>5, <1>6, <1>7, <1>8, <1>9

LEMMA AgreementHolds == AnswerInv => AgreementKept
<1> SUFFICES ASSUME AnswerInv, Answered, Distinct, request.mode = "hybrid",
                    ~request.reranker,
                    NEW c \in ToSet(index.ids), NEW d \in Returned,
                    DensePlace(c) < DensePlace(d), SparsePlace(c) <= SparsePlace(d)
             PROVE  c \in Returned /\ Place(c) < Place(d)
  BY DEF AgreementKept
<1> DEFINE w == request.k * Multiplier
           D == DenseSearch(index, w)
           S == SparseSearch(index, w)
           F == FusedOrder(D, S)
           M == Met(D, S)
           C == Fuse(D, S, request.k)
           R == answer.results
           dc == DensePlace(c)
           dd == DensePlace(d)
           sc == SparsePlace(c)
           sd == SparsePlace(d)
<1>1. index \in Indexes /\ request.k \in Nat /\ request.mode \in Modes /\ w \in Nat
  BY Asked, RetrievalAssumption
<1>2. R = FirstOf(C, request.k)
  <2> DEFINE b == request.reranker
             E == Candidates(index, request.k, request.mode, b)
  <2>1. R = RetrieveTraced(index, request.k, request.mode, b).results
    BY DEF AnswerInv
  <2>2. b \in BOOLEAN /\ ~b
    BY Asked
  <2>3. Window(request.k, request.mode, b) = w
    BY DEF Window
  <2>4. E = C
    BY <2>3 DEF Candidates, Dense, Sparse
  <2> HIDE DEF b
  <2>5. RetrieveTraced(index, request.k, request.mode, b).results =
          IF b THEN Rerank(index, E, request.k) ELSE FirstOf(E, request.k)
    BY <1>1, <2>2, StageList
  <2> HIDE DEF E, C, R
  <2> QED BY <2>1, <2>2, <2>4, <2>5
<1>3. /\ D \in Seq(Results(index)) /\ S \in Seq(Results(index))
      /\ Len(D) \in Nat /\ DOMAIN D = 1 .. Len(D)
      /\ Len(S) \in Nat /\ DOMAIN S = 1 .. Len(S)
  <2>1. D \in Seq(Results(index)) /\ S \in Seq(Results(index))
    BY <1>1, DenseFacts, SparseFacts
  <2> HIDE DEF D, S
  <2> QED BY <2>1
<1>4. /\ \A i \in DOMAIN D : D[i].chunk \in DOMAIN index.cross
      /\ \A i \in DOMAIN S : S[i].chunk \in DOMAIN index.cross
  <2> HIDE DEF D, S
  <2> QED BY <1>3, ResultFields
<1> HIDE DEF w, D, S
<1>5. /\ C \in Seq(Results(index))
      /\ Len(C) = IF request.k < Len(F) THEN request.k ELSE Len(F)
      /\ \A i \in DOMAIN C : i \in DOMAIN F /\ C[i].chunk = F[i]
      /\ F \in Seq(DOMAIN index.cross)
  <2> DEFINE k == request.k
  <2>1. k \in Nat
    BY <1>1
  <2> HIDE DEF k
  <2>2. F \in Seq(DOMAIN index.cross)
    BY <1>1, <1>3, <2>1, FuseFacts
  <2>4. Fuse(D, S, k) \in Seq(Results(index))
    BY <1>1, <1>3, <2>1, FuseFacts
  <2>5. Len(Fuse(D, S, k)) = IF k < Len(F) THEN k ELSE Len(F)
    BY <1>1, <1>3, <2>1, FuseFacts, SMTT(40)
  <2>3. \A i \in DOMAIN Fuse(D, S, k) : i \in DOMAIN F /\ Fuse(D, S, k)[i].chunk = F[i]
    BY <1>1, <1>3, <2>1, FuseFacts
  <2> QED BY <2>2, <2>3, <2>4, <2>5 DEF k
<1>6. /\ \A m, l \in DOMAIN F : F[m] = F[l] => m = l
      /\ \A i \in DOMAIN M : \E m \in DOMAIN F : F[m] = M[i]
      /\ \A m \in DOMAIN F : \E i \in DOMAIN M : F[m] = M[i]
      /\ \A m, l \in DOMAIN F :
           (/\ Fused(F[m], D, S) >= Fused(F[l], D, S)
            /\ \E i \in DOMAIN M : M[i] = F[m] /\ \A j \in 1 .. i : M[j] # F[l])
             => m < l
  BY <1>1, <1>3, FusionFacts
<1>7. /\ M \in Seq(DOMAIN index.cross) /\ Len(M) = Len(D) + Len(S)
      /\ \A i \in DOMAIN D : M[i] = D[i].chunk
      /\ \A i \in DOMAIN S : M[Len(D) + i] = S[i].chunk
  BY <1>1, <1>3, FusionFacts
<1> HIDE DEF F, M, C, R
<1>8. /\ DOMAIN M = 1 .. (Len(D) + Len(S))
      /\ Len(F) \in Nat /\ DOMAIN F = 1 .. Len(F)
      /\ DOMAIN C = 1 .. Len(C)
  BY <1>5, <1>7
<1>9. /\ R \in Seq(Results(index)) /\ Len(R) = IF request.k < Len(C) THEN request.k ELSE Len(C)
      /\ \A i \in DOMAIN R : i \in DOMAIN C /\ R[i] = C[i]
  <2> DEFINE k == request.k
  <2>1. k \in Nat
    BY <1>1
  <2> HIDE DEF k
  <2>2. R = FirstOf(C, k) /\ C \in Seq(Results(index))
    BY <1>2, <1>5 DEF k
  <2>3. /\ R \in Seq(Results(index)) /\ Len(R) = IF k < Len(C) THEN k ELSE Len(C)
        /\ \A i \in DOMAIN R : i \in DOMAIN C /\ R[i] = C[i]
    <3> DEFINE V == Results(index)
    <3> HIDE DEF V
    <3>1. C \in Seq(V)
      BY <2>2 DEF V
    <3>2. /\ FirstOf(C, k) \in Seq(V)
          /\ Len(FirstOf(C, k)) = IF k < Len(C) THEN k ELSE Len(C)
          /\ DOMAIN FirstOf(C, k) = {i \in DOMAIN C : i <= k}
          /\ \A i \in DOMAIN FirstOf(C, k) : FirstOf(C, k)[i] = C[i]
      BY <2>1, <3>1, Cut
    <3> QED BY <2>2, <3>2 DEF V
  <2> QED BY <2>3 DEF k
<1>10. /\ DOMAIN R = {i \in DOMAIN F : i <= request.k}
       /\ \A i \in DOMAIN R : R[i].chunk = F[i]
  <2>1. DOMAIN R = 1 .. Len(R)
    BY <1>9
  <2>2. Len(R) = IF request.k < Len(F) THEN request.k ELSE Len(F)
    BY <1>1, <1>5, <1>8, <1>9
  <2>3. DOMAIN R = {i \in DOMAIN F : i <= request.k}
    BY <1>1, <1>8, <2>1, <2>2
  <2> QED BY <1>5, <1>9, <2>3
<1>11. PICK q \in DOMAIN R : R[q].chunk = d
  BY DEF Returned, R
<1>12. q \in DOMAIN F /\ F[q] = d
  BY <1>10, <1>11
<1>13. d \in ToSet(index.ids)
  <2>1. PICK i \in DOMAIN M : M[i] = d
    BY <1>6, <1>12
  <2>2. \A j \in DOMAIN D : D[j].chunk \in ToSet(index.ids)
    <3> TAKE j \in DOMAIN D
    <3>1. j \in 1 .. Len(index.ids) /\ D[j].chunk = index.ids[index.dense[j]]
      BY <1>1, DenseFacts DEF D
    <3>2. index.dense[j] \in DOMAIN index.ids
      BY <1>1, <3>1, IndexFacts
    <3> QED BY <3>1, <3>2 DEF ToSet
  <2>3. \A j \in DOMAIN S : S[j].chunk \in ToSet(index.ids)
    <3> TAKE j \in DOMAIN S
    <3> DEFINE O == SparseOrder(index)
    <3>1. j \in DOMAIN O /\ S[j].chunk = index.ids[O[j]]
      BY <1>1, SparseFacts DEF S
    <3>2. O \in Seq(1 .. Len(index.ids)) /\ DOMAIN index.ids = 1 .. Len(index.ids)
      BY <1>1, SparseOrderFacts, IndexFacts
    <3> HIDE DEF O
    <3>3. O[j] \in DOMAIN index.ids
      BY <3>1, <3>2
    <3> QED BY <3>1, <3>3 DEF ToSet
  <2>4. CASE i <= Len(D)
    <3>1. i \in DOMAIN D
      BY <1>3, <1>8, <2>4
    <3> QED BY <1>7, <2>1, <2>2, <3>1
  <2>5. CASE ~(i <= Len(D))
    <3>1. i - Len(D) \in DOMAIN S /\ Len(D) + (i - Len(D)) = i
      BY <1>3, <1>8, <2>5
    <3> QED BY <1>7, <2>1, <2>3, <3>1
  <2> QED BY <2>4, <2>5
<1>14. /\ dc \in Nat \ {0} /\ dd \in Nat \ {0} /\ sc \in Nat \ {0} /\ sd \in Nat \ {0}
       /\ \A j \in DOMAIN D : D[j].chunk = c <=> j = dc
       /\ \A j \in DOMAIN D : D[j].chunk = d <=> j = dd
       /\ \A j \in DOMAIN S : S[j].chunk = c <=> j = sc
       /\ \A j \in DOMAIN S : S[j].chunk = d <=> j = sd
  BY <1>1, <1>13, ChunkPlaces DEF D, S
<1>15. dc < dd /\ sc <= sd
  OBVIOUS
<1> HIDE DEF dc, dd, sc, sd
<1>16. Fused(c, D, S) >= Fused(d, D, S)
  <2>1. dc <= dd
    BY <1>14, <1>15
  <2>2. Votes(d, D) <= Votes(c, D)
    BY <1>3, <1>14, <2>1, BetterVoted
  <2>3. Votes(d, S) <= Votes(c, S)
    BY <1>3, <1>14, <1>15, BetterVoted
  <2>4. /\ Votes(c, D) \in Nat /\ Votes(c, S) \in Nat
        /\ Votes(d, D) \in Nat /\ Votes(d, S) \in Nat
    BY <1>3, VotesFacts
  <2> QED BY <2>2, <2>3, <2>4 DEF Fused
<1>17. \E i \in DOMAIN M : M[i] = c /\ \A j \in 1 .. i : M[j] # d
  <2>1. CASE dc \in DOMAIN D
    <3>1. dc \in DOMAIN M /\ M[dc] = c
      <4>1. dc \in DOMAIN M
        BY <1>3, <1>8, <2>1
      <4>2. D[dc].chunk = c
        BY <1>14, <2>1
      <4> QED BY <1>7, <2>1, <4>1, <4>2
    <3>2. ASSUME NEW j \in 1 .. dc PROVE M[j] # d
      <4>1. j \in DOMAIN D /\ j # dd
        BY <1>3, <1>14, <1>15, <2>1
      <4> QED BY <1>7, <1>14, <4>1
    <3> QED BY <3>1, <3>2
  <2>2. CASE dc \notin DOMAIN D
    <3>1. dd \notin DOMAIN D
      BY <1>3, <1>14, <1>15, <2>2
    <3>2. PICK i \in DOMAIN M : M[i] = d
      BY <1>6, <1>12
    <3>3. ~(i <= Len(D))
      <4> SUFFICES ASSUME i <= Len(D) PROVE FALSE
        OBVIOUS
      <4>1. i \in DOMAIN D
        BY <1>3, <1>8
      <4> QED BY <1>7, <1>14, <3>1, <3>2, <4>1
    <3>4. i - Len(D) \in DOMAIN S /\ Len(D) + (i - Len(D)) = i
      BY <1>3, <1>8, <3>3
    <3>5. sd \in DOMAIN S
      <4>1. S[i - Len(D)].chunk = d
        BY <1>7, <3>2, <3>4
      <4> QED BY <1>14, <3>4, <4>1
    <3>6. sc \in DOMAIN S
      BY <1>3, <1>14, <1>15, <3>5
    <3>7. S[sc].chunk = c /\ S[sd].chunk = d
      BY <1>14, <3>5, <3>6
    <3>8. c # d
      BY <1>14, <1>15 DEF dc, dd
    <3>9. sc < sd
      <4>1. sc # sd
        BY <3>7, <3>8
      <4> QED BY <1>14, <1>15, <4>1
    <3>10. Len(D) + sc \in DOMAIN M /\ M[Len(D) + sc] = c
      BY <1>3, <1>7, <1>8, <3>6, <3>7
    <3>11. ASSUME NEW j \in 1 .. Len(D) + sc PROVE M[j] # d
      <4>1. CASE j <= Len(D)
        <5>1. j \in DOMAIN D /\ j # dd
          BY <1>3, <3>1, <4>1
        <5> QED BY <1>7, <1>14, <5>1
      <4>2. CASE ~(j <= Len(D))
        <5>1. /\ j - Len(D) \in DOMAIN S /\ Len(D) + (j - Len(D)) = j
              /\ j - Len(D) # sd
          BY <1>3, <1>14, <3>6, <3>9, <4>2
        <5>2. S[j - Len(D)].chunk # d
          BY <1>14, <5>1
        <5> QED BY <1>7, <5>1, <5>2
      <4> QED BY <4>1, <4>2
    <3> QED BY <3>10, <3>11
  <2> QED BY <2>1, <2>2
<1>18. PICK p \in DOMAIN F : F[p] = c
  BY <1>6, <1>17
<1>19. p < q
  BY <1>6, <1>12, <1>16, <1>17, <1>18
<1>20. p \in DOMAIN R
  BY <1>1, <1>8, <1>10, <1>11, <1>12, <1>18, <1>19
<1>21. R[p].chunk = c
  BY <1>10, <1>18, <1>20
<1>22. /\ Place(c) \in DOMAIN R /\ R[Place(c)].chunk = c
       /\ Place(d) \in DOMAIN R /\ R[Place(d)].chunk = d
  BY <1>11, <1>20, <1>21 DEF Place, R
<1>23. Place(c) = p /\ Place(d) = q
  <2>1. \A m, l \in DOMAIN R : R[m].chunk = R[l].chunk => m = l
    BY <1>6, <1>10
  <2> QED BY <1>11, <1>20, <1>21, <1>22, <2>1
<1>24. c \in Returned
  BY <1>20, <1>21 DEF Returned, R
<1> QED BY <1>19, <1>23, <1>24

\* Whatever the windows cut off, fusion never goes against its two searches.
THEOREM AgreementAlwaysKept == Spec => []AgreementKept
BY AnswerHolds, AgreementHolds, PTL
=============================================================================
