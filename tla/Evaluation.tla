----------------------------- MODULE Evaluation -----------------------------
(***************************************************************************)
(* GET /evaluation and GET /benchmarks: retrieval quality over the         *)
(* labelled dataset, remembered in a cache of the process.                 *)
(*                                                                         *)
(* Both handlers run on the event loop without awaiting anything, so they  *)
(* are serial; what runs beside them is an offline rebuild of the index,   *)
(* which the labels are resolved against on every measurement while the    *)
(* chunks come from the retriever loaded before.  A version of the index   *)
(* is given by what each question meets in it and by the chunks in which   *)
(* each span of each label is found.                                       *)
(*                                                                         *)
(* Time is counted in ticks; only a measurement takes any.  Latencies are  *)
(* left out of the metrics, which are sums over the questions in units of  *)
(* 1 / Unit (the code's means, times the size of the dataset).             *)
(***************************************************************************)
EXTENDS Retrieval, Functions
LOCAL INSTANCE SequencesExt
LOCAL INSTANCE FiniteSetsExt

CONSTANTS
  Questions,      \* the labelled dataset
  Versions,       \* versions of the offline index
  Missing,        \* no index on disk
  Index,          \* version -> question -> the index as the question meets it
  Labels,         \* version -> question -> the spans, each the set of the
                  \*   chunks that contain it
  Measured,       \* what every measurement gives, tabulated
  SweptTopK,      \* _BENCHMARK_TOP_K, a sequence
  AskedTopK,      \* values of top_k that /evaluation is asked for
  Budget,         \* _BENCHMARK_BUDGET_SECONDS, in ticks
  MaxCost,        \* bound: ticks a measurement takes
  MaxAsked,       \* bound: requests to /evaluation
  MaxRebuilds     \* bound: rebuilds and restarts

ASSUME EvaluationAssumption ==
  /\ Missing \notin Versions
  /\ MaxCost \in Nat \ {0}
  /\ SweptTopK \in Seq(Nat \ {0})
  /\ SweptTopK # <<>> /\ IsInjective(SweptTopK)
  /\ Budget \in Int
  /\ MaxAsked \in Nat
  /\ MaxRebuilds \in Nat

VARIABLES
  loaded,     \* the version the retriever was loaded from
  disk,       \* the version in the index files, or Missing
  cache,      \* _cache: measured configuration -> its metrics
  at,         \* cell the running sweep looks at next; 0 when none runs
  left,       \* deadline - time.monotonic() of that sweep
  cells,      \* configurations that sweep has reported so far
  pending,    \* cells it left for another call
  response,   \* the last answer of /benchmarks
  shown,      \* the page's data?.pending: that of the last answer which was
              \*   no error, 0 before there is one
  asked,      \* requests to /evaluation so far
  changes     \* rebuilds and restarts so far

vars == <<loaded, disk, cache, at, left, cells, pending, response, shown,
          asked, changes>>

-----------------------------------------------------------------------------
(* ChunkResolver and DatasetLoader.                                        *)

\* resolve: exactly one chunk contains the span, or the label is wrong.
Resolves(span) == Cardinality(span) = 1

\* resolve_all over every question of the dataset.
LabelsHold(version) ==
  \A q \in Questions :
    /\ Labels[version][q] # <<>>
    /\ \A i \in DOMAIN Labels[version][q] : Resolves(Labels[version][q][i])

Expected(version, q) == UNION Range(Labels[version][q])

(* metrics.py, in units of 1 / Unit.                                       *)
Unit == 12

PrecisionAtK(found, relevant, k) ==
  (Unit * Cardinality({i \in DOMAIN FirstOf(found, k) : found[i] \in relevant}))
    \div k

RecallAtK(found, relevant) ==
  (Unit * Cardinality(Range(found) \cap relevant)) \div Cardinality(relevant)

HitRate(found, relevant) ==
  IF Range(found) \cap relevant # {} THEN Unit ELSE 0

ReciprocalRank(found, relevant) ==
  LET ranks == {i \in DOMAIN found : found[i] \in relevant}
  IN  IF ranks = {} THEN 0 ELSE Unit \div Min(ranks)

-----------------------------------------------------------------------------
(* RetrievalEvaluator.evaluate, for one configuration.                     *)

Key(k, mode, reranker) == [k |-> k, mode |-> mode, reranker |-> reranker]
Keys == [k : AskedTopK \cup Range(SweptTopK), mode : Modes, reranker : BOOLEAN]

Measure(memory, files, key) ==
  LET Found(q) == ChunksOf(RetrieveTraced(Index[memory][q], key.k, key.mode,
                                          key.reranker).results)
      Total(Metric(_, _)) ==
        LET Add(q, sum) == sum + Metric(Found(q), Expected(files, q))
        IN  FoldSet(Add, 0, Questions)
      Precision(found, relevant) == PrecisionAtK(found, relevant, key.k)
  IN  [precision |-> Total(Precision),
       recall    |-> Total(RecallAtK),
       hit       |-> Total(HitRate),
       mrr       |-> Total(ReciprocalRank)]

\* Every measurement there can be: index in memory, labels on disk,
\* configuration.  The table of the constant is the one computed here.
Measurements ==
  [m \in Versions \X {v \in Versions : LabelsHold(v)} \X Keys |->
    Measure(m[1], m[2], m[3])]

ASSUME MeasuredAssumption == Measured = Measurements

\* The cells of the matrix in the order of the three loops.
Retrievers == <<"dense", "sparse", "hybrid">>
MatrixSize == Len(Retrievers) * Len(SweptTopK) * 2

Matrix ==
  [i \in 1 .. MatrixSize |->
    Key(SweptTopK[(((i - 1) \div 2) % Len(SweptTopK)) + 1],
        Retrievers[(i - 1) \div (2 * Len(SweptTopK)) + 1],
        i % 2 = 0)]

-----------------------------------------------------------------------------
(* The handlers.                                                           *)

Idle == at = 0
NoResponse == [status |-> 0, cells |-> {}, pending |-> 0,
               cached |-> FALSE, discriminating |-> FALSE]
Refused(status) == [NoResponse EXCEPT !.status = status]

\* _load_dataset raises 503 without the index and a plain error, a 500, for a
\* label that does not resolve.
Loads == disk # Missing /\ LabelsHold(disk)
FailureStatus == IF disk = Missing THEN 503 ELSE 500

\* Mutant of Store: what was measured is returned and forgotten.
StoreNothing(key) == UNCHANGED cache

Store(key) ==
  cache' = [k \in DOMAIN cache \cup {key} |->
             IF k = key THEN Measured[<<loaded, disk, key>>] ELSE cache[k]]

\* GET /evaluation, through _cached.
Ask(key) ==
  /\ Idle
  /\ asked < MaxAsked
  /\ asked' = asked + 1
  /\ IF key \notin DOMAIN cache /\ Loads THEN Store(key) ELSE UNCHANGED cache
  /\ UNCHANGED <<loaded, disk, at, left, cells, pending, response, shown,
                 changes>>

\* GET /benchmarks: the deadline is set and the sweep begins.
SweepStart ==
  /\ Idle
  /\ at' = 1
  /\ left' = Budget
  /\ cells' = {}
  /\ pending' = 0
  /\ UNCHANGED <<loaded, disk, cache, response, shown, asked, changes>>

Sweeping == at \in 1 .. MatrixSize
Cell == Matrix[at]

Report ==
  /\ cells' = cells \cup {Cell}
  /\ at' = at + 1
  /\ UNCHANGED pending

Unchanging == UNCHANGED <<loaded, disk, asked, changes>>

\* A cell measured before is reported again, past the deadline too.
SweepCached ==
  /\ Sweeping
  /\ Cell \in DOMAIN cache
  /\ Report
  /\ UNCHANGED <<cache, left, response, shown>>
  /\ Unchanging

\* Mutant of InTime: the deadline is looked at between retrievers only.
InTimePerRetriever == left > 0 \/ at % (2 * Len(SweptTopK)) # 1

\* time.monotonic() < deadline.
InTime == left > 0

\* A cell not measured yet is measured while the budget lasts ...
SweepMeasure ==
  /\ Sweeping
  /\ Cell \notin DOMAIN cache
  /\ InTime
  /\ Loads
  /\ Store(Cell)
  /\ Report
  /\ \E cost \in 1 .. MaxCost : left' = left - cost
  /\ UNCHANGED <<response, shown>>
  /\ Unchanging

\* ... which fails the whole call when the dataset does not load: what was
\* measured stays in the cache.
SweepFail ==
  /\ Sweeping \/ at > MatrixSize
  /\ Sweeping => Cell \notin DOMAIN cache /\ InTime
  /\ ~Loads
  /\ response' = Refused(FailureStatus)
  /\ at' = 0
  /\ UNCHANGED <<cache, left, cells, pending, shown>>
  /\ Unchanging

\* Mutant of Leave: the cell is left out, but not counted.
LeaveUncounted ==
  /\ at' = at + 1
  /\ UNCHANGED pending

Leave ==
  /\ at' = at + 1
  /\ pending' = pending + 1

\* ... and left for the next call afterwards.
SweepLeave ==
  /\ Sweeping
  /\ Cell \notin DOMAIN cache
  /\ ~InTime
  /\ Leave
  /\ UNCHANGED <<cache, left, cells, response, shown>>
  /\ Unchanging

DistinctMrr == {cache[key].mrr : key \in cells}

\* The dataset is loaded once more for its size, and the answer returned.
SweepEnd ==
  /\ at > MatrixSize
  /\ Loads
  /\ response' = [status |-> 200,
                  cells |-> cells,
                  pending |-> pending,
                  cached |-> pending = 0,
                  discriminating |-> pending = 0
                                       /\ Cardinality(DistinctMrr) > 1]
  /\ shown' = pending
  /\ at' = 0
  /\ UNCHANGED <<cache, left, cells, pending>>
  /\ Unchanging

\* An offline script writes another index, or removes it.
Rebuild ==
  /\ changes < MaxRebuilds
  /\ disk' \in (Versions \cup {Missing}) \ {disk}
  /\ changes' = changes + 1
  /\ UNCHANGED <<loaded, cache, at, left, cells, pending, response, shown,
                 asked>>

\* The process restarts, and loads the index it finds.
Restart ==
  /\ changes < MaxRebuilds
  /\ disk # Missing
  /\ loaded' = disk
  /\ cache' = <<>>
  /\ at' = 0
  /\ cells' = {}
  /\ pending' = 0
  /\ left' = 0
  /\ changes' = changes + 1
  /\ UNCHANGED <<disk, response, shown, asked>>

Init ==
  /\ loaded \in Versions
  /\ disk = loaded
  /\ cache = <<>>
  /\ at = 0
  /\ left = 0
  /\ cells = {}
  /\ pending = 0
  /\ response = NoResponse
  /\ shown = 0
  /\ asked = 0
  /\ changes = 0

SweepStep == SweepCached \/ SweepMeasure \/ SweepFail \/ SweepLeave \/ SweepEnd

Next ==
  \/ \E k \in AskedTopK, mode \in Modes, reranker \in BOOLEAN :
       Ask(Key(k, mode, reranker))
  \/ SweepStart \/ SweepCached \/ SweepMeasure \/ SweepFail \/ SweepLeave
  \/ SweepEnd
  \/ Rebuild \/ Restart

Spec == Init /\ [][Next]_vars

Complete == response.status = 200 /\ response.pending = 0

\* A page that stays open asks again as long as the answer it shows left cells
\* pending (refetchInterval in use-platform.ts).  The query keeps that answer
\* when a later call fails.  A page whose first call was refused shows none
\* and does not ask again by itself.
Polling == SweepStart /\ shown > 0

\* A handler that runs goes on, and so does a page that polls; nothing makes
\* anyone open the page.
FairSpec == Spec /\ WF_vars(SweepStep) /\ WF_vars(Polling)

-----------------------------------------------------------------------------
(* Properties.                                                             *)

TypeOK ==
  /\ loaded \in Versions
  /\ disk \in Versions \cup {Missing}
  /\ DOMAIN cache \subseteq Keys
  /\ Range(cache) \subseteq [precision : Nat, recall : Nat, hit : Nat, mrr : Nat]
  /\ at \in 0 .. MatrixSize + 1
  /\ left \in Int
  /\ cells \subseteq Range(Matrix)
  /\ pending \in 0 .. MatrixSize
  /\ shown \in 0 .. MatrixSize
  /\ asked \in 0 .. MaxAsked
  /\ changes \in 0 .. MaxRebuilds

\* One call stays bounded: it runs over its budget by less than one
\* measurement, whatever the cells cost and whatever is cached already.
BoundedCall == left > -MaxCost

\* What the cache holds was all measured on the index that is loaded and on
\* the labels as they are now.
Current ==
  disk # Missing /\ \A key \in DOMAIN cache :
    <<loaded, disk, key>> \in DOMAIN Measured
      /\ cache[key] = Measured[<<loaded, disk, key>>]

\* The matrix is never presented as more than it is: cells and pending ones
\* add up to the sweep, nothing is reported that was not measured, a matrix
\* that calls itself complete holds every configuration, and it calls itself
\* discriminating exactly when some two configurations do score differently
\* on the index (as far as that index did not change under the cache).
ResponseTrue ==
  /\ ~Idle => /\ Cardinality(cells) + pending = at - 1
              /\ cells \subseteq DOMAIN cache
  /\ response.status = 200 =>
       /\ Cardinality(response.cells) + response.pending = MatrixSize
       /\ response.cached => response.cells = Range(Matrix)
       /\ response.discriminating => response.cached
       /\ (changes = 0 /\ response.cached) =>
            (response.discriminating <=>
               \E c, d \in Range(Matrix) :
                 Measured[<<loaded, disk, c>>].mrr
                   # Measured[<<loaded, disk, d>>].mrr)

\* A page that was shown a part of the matrix gets to see all of it, although
\* no call measures all of it and whatever fails on the way, unless the index
\* goes away or its labels stay wrong.
MatrixCompletes == <>[]Loads => (shown > 0 ~> Complete)

-----------------------------------------------------------------------------
(* What the code does not ensure; see the README.                          *)

\* evaluation.py:58: "Results are a pure function of (dataset, index,
\* config)", so that what is cached is what would be measured now.
CacheIsCurrent == disk = Missing \/ Current
=============================================================================
