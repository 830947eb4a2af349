-------------------------- MODULE EvaluationProofs --------------------------
(***************************************************************************)
(* Theorems about Evaluation, for any dataset, any versions of the index,  *)
(* any values of top-K to sweep, and any budget and costs.                 *)
(***************************************************************************)
EXTENDS Evaluation, FiniteSetTheorems, TLAPS

-----------------------------------------------------------------------------
(* The matrix.                                                             *)

\* The place of a cell says which loop variables it has.
LEMMA CellIndex ==
  ASSUME NEW L \in Nat \ {0}, NEW x \in 0 .. 6 * L - 1
  PROVE  /\ x \div (2 * L) \in 0 .. 2
         /\ (x \div 2) % L \in 0 .. L - 1
         /\ x = 2 * (L * (x \div (2 * L)) + ((x \div 2) % L)) + (x % 2)
<1> DEFINE y == x \div 2
           z == y \div L
<1>1. x \in Nat /\ y \in Nat /\ x = 2 * y + (x % 2) /\ 2 * y <= x
  OBVIOUS
<1>2. x \div (2 * L) = z
  BY <1>1
<1>3. y = L * z + (y % L) /\ z \in Nat /\ y % L \in 0 .. L - 1
  BY <1>1
<1>4. z \in 0 .. 2
  <2>1. y < 3 * L
    BY <1>1
  <2> HIDE DEF y, z
  <2>2. L * z < L * 3
    BY <1>1, <1>3, <2>1
  <2>3. CASE z >= 3
    <3>1. L * z >= L * 3
      BY <1>3, <2>3
    <3> QED BY <1>3, <2>2, <3>1
  <2> QED BY <1>3, <2>3
<1> HIDE DEF z
<1> QED BY <1>1, <1>2, <1>3, <1>4

LEMMA SweptFacts ==
  /\ Len(SweptTopK) \in Nat \ {0}
  /\ DOMAIN SweptTopK = 1 .. Len(SweptTopK)
  /\ MatrixSize = 6 * Len(SweptTopK)
  /\ MatrixSize \in Nat /\ DOMAIN Matrix = 1 .. MatrixSize
<1>1. SweptTopK \in Seq(Nat \ {0}) /\ SweptTopK # <<>>
  BY EvaluationAssumption
<1>2. Len(SweptTopK) \in Nat \ {0} /\ DOMAIN SweptTopK = 1 .. Len(SweptTopK)
  BY <1>1
<1>3. MatrixSize = 6 * Len(SweptTopK)
  <2>1. Len(Retrievers) = 3
    BY DEF Retrievers
  <2> QED BY <1>2, <2>1 DEF MatrixSize
<1> QED BY <1>2, <1>3 DEF Matrix

LEMMA KeysDiffer ==
  ASSUME NEW k1, NEW m1, NEW r1 \in BOOLEAN,
         NEW k2, NEW m2, NEW r2 \in BOOLEAN,
         Key(k1, m1, r1) = Key(k2, m2, r2)
  PROVE  k1 = k2 /\ m1 = m2 /\ r1 = r2
  BY DEF Key

\* No configuration is in the matrix twice.
LEMMA CellsDiffer ==
  ASSUME NEW i \in 1 .. MatrixSize, NEW j \in 1 .. MatrixSize,
         Matrix[i] = Matrix[j]
  PROVE  i = j
<1> DEFINE L == Len(SweptTopK)
           K(n) == ((n - 1) \div 2) % L
           M(n) == (n - 1) \div (2 * L)
           R(n) == n % 2 = 0
<1>1. \A n \in 1 .. MatrixSize :
        Matrix[n] = Key(SweptTopK[K(n) + 1], Retrievers[M(n) + 1], R(n))
  BY SweptFacts DEF Matrix
<1>2. \A n \in 1 .. MatrixSize :
        /\ M(n) \in 0 .. 2 /\ K(n) \in 0 .. L - 1
        /\ n - 1 = 2 * (L * M(n) + K(n)) + ((n - 1) % 2)
  <2> TAKE n \in 1 .. MatrixSize
  <2>1. L \in Nat \ {0} /\ n - 1 \in 0 .. 6 * L - 1
    BY SweptFacts
  <2> QED BY <2>1, CellIndex
<1> HIDE DEF K, M, R
<1>3. /\ SweptTopK[K(i) + 1] = SweptTopK[K(j) + 1]
      /\ Retrievers[M(i) + 1] = Retrievers[M(j) + 1]
      /\ R(i) = R(j)
  <2>1. Key(SweptTopK[K(i) + 1], Retrievers[M(i) + 1], R(i)) =
          Key(SweptTopK[K(j) + 1], Retrievers[M(j) + 1], R(j))
    BY <1>1
  <2>2. R(i) \in BOOLEAN /\ R(j) \in BOOLEAN
    BY DEF R
  <2> QED BY <2>1, <2>2, KeysDiffer
<1>4. K(i) = K(j)
  <2>1. K(i) + 1 \in DOMAIN SweptTopK /\ K(j) + 1 \in DOMAIN SweptTopK
    BY <1>2, SweptFacts
  <2>2. K(i) + 1 = K(j) + 1
    BY <1>3, <2>1, EvaluationAssumption DEF IsInjective
  <2>3. K(i) \in Int /\ K(j) \in Int
    BY <1>2, SweptFacts
  <2> QED BY <2>2, <2>3
<1>5. M(i) = M(j)
  <2>1. M(i) \in 0 .. 2 /\ M(j) \in 0 .. 2
    BY <1>2
  <2> QED BY <1>3, <2>1 DEF Retrievers
<1>6. (i - 1) % 2 = (j - 1) % 2
  <2>1. i \in Nat /\ j \in Nat
    BY SweptFacts
  <2>2. \A n \in Nat : /\ n % 2 = 0 => (n - 1) % 2 = 1
                       /\ n % 2 # 0 => (n - 1) % 2 = 0
    OBVIOUS
  <2>3. (i % 2 = 0) <=> (j % 2 = 0)
    BY <1>3 DEF R
  <2> QED BY <2>1, <2>2, <2>3
<1>7. i - 1 = j - 1
  BY <1>2, <1>4, <1>5, <1>6
<1> QED BY <1>7, SweptFacts

-----------------------------------------------------------------------------
(* The invariant.                                                          *)

\* The cells the sweep has passed when it comes to the n-th.
Passed(n) == {Matrix[i] : i \in 1 .. n - 1}

Types ==
  /\ at \in 0 .. MatrixSize + 1
  /\ left \in Int
  /\ pending \in Nat
  /\ changes \in Nat

\* Every cell passed was reported from the cache or counted as pending.
SweepInv ==
  at > 0 =>
    /\ cells \subseteq Passed(at) /\ IsFiniteSet(cells)
    /\ cells \subseteq DOMAIN cache
    /\ Cardinality(cells) + pending = at - 1
    /\ pending = 0 => cells = Passed(at)

\* Without a rebuild the cache holds what would be measured now.
CacheInv ==
  changes = 0 =>
    \A key \in DOMAIN cache : cache[key] = Measured[<<loaded, disk, key>>]

\* Two cells of the matrix that score differently on the index.
Differ ==
  \E c, d \in Range(Matrix) :
    Measured[<<loaded, disk, c>>].mrr # Measured[<<loaded, disk, d>>].mrr

ResponseInv ==
  response.status = 200 =>
    /\ Cardinality(response.cells) + response.pending = MatrixSize
    /\ response.cached => response.cells = Range(Matrix)
    /\ response.discriminating => response.cached
    /\ changes = 0 /\ response.cached => (response.discriminating <=> Differ)

IInv == Types /\ SweepInv /\ CacheInv /\ ResponseInv

\* One more cell is passed, and was not passed before.
LEMMA PassOne ==
  ASSUME NEW n \in 1 .. MatrixSize
  PROVE  /\ Passed(n + 1) = Passed(n) \cup {Matrix[n]}
         /\ Matrix[n] \notin Passed(n)
<1>1. n \in Nat /\ MatrixSize \in Nat /\ n + 1 - 1 = n
  BY SweptFacts
<1>2. \A i \in 1 .. n + 1 - 1 : i \in 1 .. n - 1 \/ i = n
  BY <1>1
<1>3. \A i \in 1 .. n - 1 : i \in 1 .. n + 1 - 1 /\ i \in 1 .. MatrixSize
                              /\ i # n
  BY <1>1
<1>4. n \in 1 .. n + 1 - 1
  BY <1>1
<1>5. Matrix[n] \notin Passed(n)
  BY <1>3, CellsDiffer DEF Passed
<1> QED BY <1>2, <1>3, <1>4, <1>5 DEF Passed

LEMMA PassAll ==
  /\ Passed(1) = {}
  /\ Passed(MatrixSize + 1) = Range(Matrix)
<1>1. MatrixSize \in Nat /\ DOMAIN Matrix = 1 .. MatrixSize
  BY SweptFacts
<1>2. 1 .. 1 - 1 = {} /\ MatrixSize + 1 - 1 = MatrixSize
  BY <1>1
<1> QED BY <1>1, <1>2 DEF Passed, Range

LEMMA InitInv == Init => IInv
<1> SUFFICES ASSUME Init PROVE IInv
  OBVIOUS
<1>1. Types
  BY SweptFacts DEF Init, Types
<1>2. SweepInv /\ CacheInv
  BY DEF Init, SweepInv, CacheInv
<1>3. ResponseInv
  BY DEF Init, ResponseInv, NoResponse
<1> QED BY <1>1, <1>2, <1>3 DEF IInv

\* What was measured stays as it was measured.
LEMMA StoreKeeps ==
  ASSUME CacheInv, NEW key, Store(key), UNCHANGED <<loaded, disk, changes>>
  PROVE  CacheInv' /\ DOMAIN cache' = DOMAIN cache \cup {key}
  BY DEF CacheInv, Store

LEMMA CacheStays ==
  ASSUME CacheInv, UNCHANGED <<loaded, disk, cache, changes>>
  PROVE  CacheInv'
  BY DEF CacheInv

LEMMA ResponseStays ==
  ASSUME ResponseInv, UNCHANGED <<loaded, disk, response, changes>>
  PROVE  ResponseInv'
<1>1. Differ' <=> Differ
  BY DEF Differ
<1>2. response' = response /\ changes' = changes
  OBVIOUS
<1>3. /\ response'.status = response.status /\ response'.cells = response.cells
      /\ response'.pending = response.pending
      /\ (response'.cached <=> response.cached)
      /\ (response'.discriminating <=> response.discriminating)
  BY <1>2
<1> QED BY <1>1, <1>2, <1>3, Zenon DEF ResponseInv

\* The sweep reports the cell it is at.
LEMMA ReportKeeps ==
  ASSUME Types, SweepInv, Sweeping, Report,
         DOMAIN cache \subseteq DOMAIN cache', Cell \in DOMAIN cache'
  PROVE  SweepInv' /\ at' \in 0 .. MatrixSize + 1
<1>1. /\ at \in 1 .. MatrixSize /\ at \in Nat /\ MatrixSize \in Nat
      /\ at' = at + 1 /\ pending' = pending /\ pending \in Nat
      /\ cells' = cells \cup {Matrix[at]} /\ Matrix[at] \in DOMAIN cache'
  BY SweptFacts DEF Sweeping, Report, Cell, Types
<1>2. /\ cells \subseteq Passed(at) /\ IsFiniteSet(cells)
      /\ cells \subseteq DOMAIN cache
      /\ Cardinality(cells) + pending = at - 1
      /\ pending = 0 => cells = Passed(at)
  BY <1>1 DEF SweepInv
<1>3. /\ Passed(at + 1) = Passed(at) \cup {Matrix[at]}
      /\ Matrix[at] \notin cells
  BY <1>1, <1>2, PassOne
<1>4. IsFiniteSet(cells') /\ Cardinality(cells') = Cardinality(cells) + 1
  BY <1>1, <1>2, <1>3, FS_AddElement
<1>5. Cardinality(cells) \in Nat
  BY <1>2, FS_CardinalityType
<1>6. Cardinality(cells') + pending' = at' - 1
  BY <1>1, <1>2, <1>4, <1>5
<1>7. cells' \subseteq Passed(at') /\ (pending' = 0 => cells' = Passed(at'))
  BY <1>1, <1>2, <1>3
<1> QED BY <1>1, <1>2, <1>4, <1>6, <1>7 DEF SweepInv

LEMMA AskStep ==
  ASSUME IInv, NEW key, Ask(key)
  PROVE  IInv'
<1>1. /\ at = 0
      /\ Store(key) \/ UNCHANGED cache
      /\ UNCHANGED <<loaded, disk, at, left, cells, pending, response,
                  changes>>
  BY DEF Ask, Idle
<1>2. CacheInv'
  BY <1>1, StoreKeeps DEF IInv, CacheInv
<1>3. Types'
  BY <1>1 DEF IInv, Types
<1>4. SweepInv'
  BY <1>1 DEF SweepInv
<1>5. ResponseInv'
  BY <1>1, ResponseStays DEF IInv
<1> QED BY <1>2, <1>3, <1>4, <1>5 DEF IInv

LEMMA SweepStartStep ==
  ASSUME IInv, SweepStart
  PROVE  IInv'
<1>1. /\ at' = 1 /\ left' = Budget /\ cells' = {} /\ pending' = 0
      /\ UNCHANGED <<loaded, disk, cache, response, changes>>
  BY DEF SweepStart
<1>2. Types'
  BY <1>1, SweptFacts, EvaluationAssumption DEF IInv, Types
<1>3. SweepInv'
  BY <1>1, PassAll, FS_EmptySet DEF SweepInv
<1>4. CacheInv' /\ ResponseInv'
  BY <1>1, CacheStays, ResponseStays DEF IInv
<1> QED BY <1>2, <1>3, <1>4 DEF IInv

LEMMA SweepCachedStep ==
  ASSUME IInv, SweepCached
  PROVE  IInv'
<1>1. /\ Sweeping /\ Report /\ Cell \in DOMAIN cache
      /\ UNCHANGED <<cache, left, response, loaded, disk, changes, pending>>
  BY DEF SweepCached, Unchanging, Report
<1>2. SweepInv' /\ at' \in 0 .. MatrixSize + 1
  BY <1>1, ReportKeeps DEF IInv
<1>3. Types'
  BY <1>1, <1>2, SweptFacts DEF IInv, Types
<1>4. CacheInv' /\ ResponseInv'
  BY <1>1, CacheStays, ResponseStays DEF IInv
<1> QED BY <1>2, <1>3, <1>4 DEF IInv

LEMMA SweepMeasureStep ==
  ASSUME IInv, SweepMeasure
  PROVE  IInv'
<1>1. /\ Sweeping /\ Report /\ Store(Cell)
      /\ \E cost \in 1 .. MaxCost : left' = left - cost
      /\ UNCHANGED <<response, loaded, disk, changes, pending>>
  BY DEF SweepMeasure, Unchanging, Report
<1>2. CacheInv' /\ DOMAIN cache' = DOMAIN cache \cup {Cell}
  BY <1>1, StoreKeeps DEF IInv
<1>3. SweepInv' /\ at' \in 0 .. MatrixSize + 1
  BY <1>1, <1>2, ReportKeeps DEF IInv
<1>4. Types'
  BY <1>1, <1>3, SweptFacts, EvaluationAssumption DEF IInv, Types
<1>5. ResponseInv'
  BY <1>1, ResponseStays DEF IInv
<1> QED BY <1>2, <1>3, <1>4, <1>5 DEF IInv

LEMMA SweepFailStep ==
  ASSUME IInv, SweepFail
  PROVE  IInv'
<1>1. /\ at' = 0 /\ response' = Refused(FailureStatus)
      /\ UNCHANGED <<cache, left, cells, pending, loaded, disk, changes>>
  BY DEF SweepFail, Unchanging
<1>2. response'.status # 200
  BY <1>1 DEF Refused, NoResponse, FailureStatus
<1>3. Types' /\ SweepInv' /\ CacheInv'
  BY <1>1, SweptFacts DEF IInv, Types, SweepInv, CacheInv
<1>4. ResponseInv'
  BY <1>2 DEF ResponseInv
<1> QED BY <1>3, <1>4 DEF IInv

LEMMA SweepLeaveStep ==
  ASSUME IInv, SweepLeave
  PROVE  IInv'
<1>1. /\ at \in 1 .. MatrixSize /\ at \in Nat /\ MatrixSize \in Nat
      /\ at' = at + 1 /\ pending' = pending + 1 /\ pending \in Nat
      /\ UNCHANGED <<cache, left, cells, response, loaded, disk, changes>>
  BY SweptFacts DEF SweepLeave, Sweeping, Leave, Unchanging, IInv, Types
<1>2. /\ cells \subseteq Passed(at) /\ IsFiniteSet(cells)
      /\ cells \subseteq DOMAIN cache
      /\ Cardinality(cells) + pending = at - 1
  BY <1>1 DEF IInv, SweepInv
<1>3. Passed(at) \subseteq Passed(at + 1)
  BY <1>1, PassOne
<1>4. Cardinality(cells) \in Nat
  BY <1>2, FS_CardinalityType
<1>5. Cardinality(cells') + pending' = at' - 1 /\ pending' # 0
  BY <1>1, <1>2, <1>4
<1>6. SweepInv'
  BY <1>1, <1>2, <1>3, <1>5 DEF SweepInv
<1>7. Types'
  BY <1>1 DEF IInv, Types
<1>8. CacheInv' /\ ResponseInv'
  BY <1>1, CacheStays, ResponseStays DEF IInv
<1> QED BY <1>6, <1>7, <1>8 DEF IInv

\* More than one reciprocal rank among the cells is two that differ.
LEMMA SomeDiffer ==
  ASSUME IsFiniteSet(cells)
  PROVE  Cardinality(DistinctMrr) > 1 <=>
           \E c, d \in cells : cache[c].mrr # cache[d].mrr
<1> DEFINE f == [key \in cells |-> cache[key].mrr]
<1>1. IsFiniteSet(DistinctMrr)
  <2>1. f \in Surjection(cells, DistinctMrr)
    BY DEF DistinctMrr, Surjection
  <2> HIDE DEF f
  <2> QED BY <2>1, FS_Surjection
<1>2. Cardinality(DistinctMrr) \in Nat
  BY <1>1, FS_CardinalityType
<1>3. Cardinality(DistinctMrr) = 0 <=> DistinctMrr = {}
  BY <1>1, FS_EmptySet
<1>4. Cardinality(DistinctMrr) = 1 <=> \E x : DistinctMrr = {x}
  BY <1>1, FS_Singleton
<1>5. Cardinality(DistinctMrr) > 1 <=>
        DistinctMrr # {} /\ ~ \E x : DistinctMrr = {x}
  BY <1>2, <1>3, <1>4
<1>6. ASSUME DistinctMrr # {}, ~ \E x : DistinctMrr = {x}
      PROVE  \E x, y \in DistinctMrr : x # y
  <2>1. PICK x : x \in DistinctMrr
    BY <1>6
  <2>2. DistinctMrr # {x}
    BY <1>6
  <2>3. PICK y \in DistinctMrr : y # x
    BY <2>1, <2>2
  <2> QED BY <2>1, <2>3
<1>7. ASSUME NEW x \in DistinctMrr, NEW y \in DistinctMrr, x # y
      PROVE  DistinctMrr # {} /\ ~ \E z : DistinctMrr = {z}
  BY <1>7
<1>8. Cardinality(DistinctMrr) > 1 <=> \E x, y \in DistinctMrr : x # y
  BY <1>5, <1>6, <1>7
<1> QED BY <1>8 DEF DistinctMrr

LEMMA SweepEndStep ==
  ASSUME IInv, SweepEnd
  PROVE  IInv'
<1>1. /\ at = MatrixSize + 1 /\ at > 0 /\ MatrixSize \in Nat /\ at' = 0
      /\ UNCHANGED <<cache, left, cells, pending, loaded, disk, changes>>
      /\ response' = [status |-> 200, cells |-> cells, pending |-> pending,
                      cached |-> pending = 0,
                      discriminating |-> pending = 0
                                           /\ Cardinality(DistinctMrr) > 1]
  BY SweptFacts DEF SweepEnd, Unchanging, IInv, Types
<1>2. /\ IsFiniteSet(cells) /\ cells \subseteq DOMAIN cache
      /\ Cardinality(cells) + pending = MatrixSize
      /\ pending = 0 => cells = Range(Matrix)
  BY <1>1, PassAll DEF IInv, SweepInv
<1>3. Types' /\ SweepInv' /\ CacheInv'
  BY <1>1, SweptFacts DEF IInv, Types, SweepInv, CacheInv
<1>4. ResponseInv'
  <2>1. response'.cells = cells /\ response'.pending = pending
    BY <1>1
  <2>2. response'.cached <=> pending = 0
    BY <1>1
  <2>3. response'.discriminating <=>
          pending = 0 /\ Cardinality(DistinctMrr) > 1
    BY <1>1
  <2>4. ASSUME changes = 0, pending = 0
        PROVE  Cardinality(DistinctMrr) > 1 <=> Differ
    <3>1. \A c \in cells : cache[c] = Measured[<<loaded, disk, c>>]
      BY <1>2, <2>4 DEF IInv, CacheInv
    <3> QED BY <1>2, <2>4, <3>1, SomeDiffer DEF Differ
  <2>5. Differ' <=> Differ
    BY <1>1 DEF Differ
  <2> QED BY <1>1, <1>2, <2>1, <2>2, <2>3, <2>4, <2>5 DEF ResponseInv
<1> QED BY <1>3, <1>4 DEF IInv

LEMMA ChangeStep ==
  ASSUME IInv, Rebuild \/ Restart
  PROVE  IInv'
<1>1. /\ changes' = changes + 1 /\ changes \in Nat /\ UNCHANGED response
      /\ \/ UNCHANGED <<cache, at, left, cells, pending>>
         \/ at' = 0 /\ pending' = 0 /\ left' = 0
  BY DEF Rebuild, Restart, IInv, Types
<1>2. Types' /\ changes' # 0
  BY <1>1, SweptFacts DEF IInv, Types
<1>3. SweepInv'
  BY <1>1 DEF IInv, SweepInv
<1>4. CacheInv' /\ ResponseInv'
  BY <1>1, <1>2 DEF IInv, CacheInv, ResponseInv
<1> QED BY <1>2, <1>3, <1>4 DEF IInv

LEMMA NextInv == IInv /\ [Next]_vars => IInv'
<1>1. ASSUME IInv, UNCHANGED vars PROVE IInv'
  <2>1. UNCHANGED <<loaded, disk, cache, at, left, cells, pending, response,
                    changes>>
    BY <1>1 DEF vars
  <2>2. Types'
    BY <1>1, <2>1 DEF IInv, Types
  <2>3. SweepInv'
    BY <1>1, <2>1 DEF IInv, SweepInv
  <2>4. CacheInv' /\ ResponseInv'
    BY <1>1, <2>1, CacheStays, ResponseStays DEF IInv
  <2> QED BY <2>2, <2>3, <2>4 DEF IInv
<1> QED
  BY <1>1, AskStep, SweepStartStep, SweepCachedStep, SweepMeasureStep,
     SweepFailStep, SweepLeaveStep, SweepEndStep, ChangeStep
  DEF Next

\* The cells of a sweep are counted, what is cached is what was measured.
THEOREM InvariantHolds == Spec => []IInv
<1> QED BY InitInv, NextInv, PTL DEF Spec

\* The matrix is never presented as more than it is (evaluation.py, the sweep
\* of /benchmarks and the response it builds), whatever the cells cost and
\* however often the index is rebuilt or the process restarted.
THEOREM AlwaysTrue == Spec => []ResponseTrue
<1>1. IInv => ResponseTrue
  <2> SUFFICES ASSUME IInv PROVE ResponseTrue
    OBVIOUS
  <2>1. ~Idle => Cardinality(cells) + pending = at - 1
                  /\ cells \subseteq DOMAIN cache
    BY SweptFacts DEF IInv, Types, SweepInv, Idle
  <2> QED BY <2>1 DEF ResponseTrue, IInv, ResponseInv, Differ
<1> QED BY <1>1, InvariantHolds, PTL

\* A call runs over its budget by less than one measurement, a budget not
\* being negative (evaluation.py, the deadline of /benchmarks).
THEOREM CallsBounded ==
  ASSUME Budget \in Nat
  PROVE  Spec => []BoundedCall
<1> DEFINE Inv == left \in Int /\ BoundedCall
<1>1. Init => Inv
  BY EvaluationAssumption DEF Init, BoundedCall
<1>2. Inv /\ [Next]_vars => Inv'
  <2> SUFFICES ASSUME Inv, [Next]_vars PROVE Inv'
    OBVIOUS
  <2> USE EvaluationAssumption DEF BoundedCall
  <2>1. CASE SweepStart
    BY <2>1 DEF SweepStart
  <2>2. CASE SweepMeasure
    BY <2>2 DEF SweepMeasure, InTime
  <2>3. CASE Restart
    BY <2>3 DEF Restart
  <2>4. CASE UNCHANGED left
    BY <2>4
  <2> QED
    BY <2>1, <2>2, <2>3, <2>4
    DEF Next, vars, Ask, SweepCached, SweepFail, SweepLeave, SweepEnd, Rebuild
<1>3. Inv => BoundedCall
  OBVIOUS
<1> QED BY <1>1, <1>2, <1>3, PTL DEF Spec
=============================================================================
