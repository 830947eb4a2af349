----------------------------- MODULE Retrieval -----------------------------
(***************************************************************************)
(* What one question retrieves from a loaded index, as a function: the     *)
(* dense and sparse searches, their fusion by reciprocal rank, the         *)
(* cross-encoder, and the report of the stages that ran.                   *)
(*                                                                         *)
(* An index, as far as one question can tell, is a record                  *)
(*   ids    - the chunk id at each position; ids may repeat,               *)
(*   dense  - the positions by falling similarity to the question (an      *)
(*            order, as FAISS may break ties either way),                  *)
(*   sparse - the BM25 score of each position,                             *)
(*   cross  - the cross-encoder's score of each chunk.                     *)
(* Scores are whole numbers: only their order matters, except for the      *)
(* fused ones, which are counted in units of 1 / Scale.                    *)
(***************************************************************************)
EXTENDS Integers, Sequences, FiniteSets

CONSTANTS
  Multiplier,     \* candidate_multiplier
  RRFK            \* _RRF_K

ASSUME RetrievalAssumption ==
  /\ Multiplier \in Nat \ {0}
  /\ RRFK \in Nat

Modes == {"dense", "sparse", "hybrid"}

Scale == 1000000000
None == 0                      \* a stage that did not rank a chunk
NotCounted == -1               \* candidates_in, candidates_out: None

FirstOf(s, k) == SubSeq(s, 1, IF k < Len(s) THEN k ELSE Len(s))
ChunksOf(results) == [i \in DOMAIN results |-> results[i].chunk]

\* Python's stable sort with reverse=True: positions by falling score, equal
\* scores as they come.  The nth has n - 1 before it.
Outranks(score, i, j) ==
  score[i] > score[j] \/ (score[i] = score[j] /\ i < j)
Ahead(S, score, j) == {i \in S : Outranks(score, i, j)}
Falling(S, score) ==
  [n \in 1 .. Cardinality(S) |->
    CHOOSE j \in S : Cardinality(Ahead(S, score, j)) = n - 1]

(* RetrievalTrace: the rank each stage gave.                               *)
NoTrace == [dense |-> None, sparse |-> None, fused |-> None, reranker |-> None]

(* PipelineStage, without its latency.                                     *)
StageOrder ==
  <<"embedding", "dense", "sparse", "fusion", "reranker", "generation">>

Ran(name, in, out) == [name |-> name, status |-> "ok", in |-> in, out |-> out]
Skipped(name) ==
  [name |-> name, status |-> "skipped", in |-> NotCounted, out |-> NotCounted]

\* fill_skipped: every stage, the last report of a name winning.
FillSkipped(stages) ==
  [i \in DOMAIN StageOrder |->
    LET reports == {j \in DOMAIN stages : stages[j].name = StageOrder[i]}
    IN  IF reports = {} THEN Skipped(StageOrder[i])
        ELSE stages[CHOOSE j \in reports : \A m \in reports : m <= j]]

-----------------------------------------------------------------------------
(* Retriever.retrieve_traced over FAISSStore.search, which never asks for  *)
(* more than the index holds, so that no slot is unfilled.                 *)

DenseSearch(index, k) ==
  LET found == FirstOf(index.dense, k)
  IN  [r \in DOMAIN found |->
        [chunk |-> index.ids[found[r]],
         rank  |-> r,
         trace |-> [NoTrace EXCEPT !.dense = r]]]

DenseStages(index, results) ==
  << Ran("embedding", NotCounted, NotCounted),
     Ran("dense", Len(index.ids), Len(results)) >>

\* BM25Store.search: sorted by score and cut off where it is no longer
\* positive, which leaves the positions that score, in that order.
SparseOrder(index) ==
  Falling({i \in DOMAIN index.ids : index.sparse[i] > 0}, index.sparse)

SparseSearch(index, k) ==
  LET found == FirstOf(SparseOrder(index), k)
  IN  [r \in DOMAIN found |->
        [chunk |-> index.ids[found[r]],
         rank  |-> r,
         trace |-> [NoTrace EXCEPT !.sparse = r]]]

SparseStage(index, results) == Ran("sparse", Len(index.ids), Len(results))

-----------------------------------------------------------------------------
(* The fusion of HybridRetriever.retrieve_traced.                          *)

Weight(rank) == Scale \div (RRFK + rank)

\* Where results rank a chunk; more than once if its id repeats.
RanksOf(chunk, results) ==
  {r \in DOMAIN results : results[r].chunk = chunk}

\* The last rank recorded for a chunk, as the loops overwrite.
LastRank(chunk, results) ==
  LET ranks == RanksOf(chunk, results)
  IN  IF ranks = {} THEN None ELSE CHOOSE r \in ranks : \A s \in ranks : s <= r

\* What the loop over one list adds to the score of a chunk.
Votes(chunk, results) ==
  LET vote == [r \in DOMAIN results |->
                IF results[r].chunk = chunk THEN Weight(r) ELSE 0]
      sum[n \in 0 .. Len(results)] ==
        IF n = 0 THEN 0 ELSE sum[n - 1] + vote[n]
  IN  sum[Len(results)]

\* Mutant of Fused: the sparse vote replaces the dense one.
FusedOverwriting(chunk, dense, sparse) ==
  IF RanksOf(chunk, sparse) # {} THEN Votes(chunk, sparse)
                                 ELSE Votes(chunk, dense)

\* rrf_scores: every occurrence in either list adds its vote.
Fused(chunk, dense, sparse) == Votes(chunk, dense) + Votes(chunk, sparse)

\* sorted_ids: by fused score, ties in the order in which the ids were met.
FusedOrder(dense, sparse) ==
  LET met   == ChunksOf(dense) \o ChunksOf(sparse)
      first == {i \in DOMAIN met : \A j \in 1 .. i - 1 : met[j] # met[i]}
      order == Falling(first, [i \in first |-> Fused(met[i], dense, sparse)])
  IN  [n \in DOMAIN order |-> met[order[n]]]

Fuse(dense, sparse, k) ==
  LET order == FirstOf(FusedOrder(dense, sparse), k)
  IN  [i \in DOMAIN order |->
        [chunk |-> order[i],
         rank  |-> i,
         trace |-> [NoTrace EXCEPT !.dense = LastRank(order[i], dense),
                                   !.sparse = LastRank(order[i], sparse),
                                   !.fused = i]]]

\* Mutant of FusionStage: the sum of both lists, not their union.
FusionStageSumming(dense, sparse, results) ==
  Ran("fusion", Len(dense) + Len(sparse), Len(results))

FusionStage(dense, sparse, results) ==
  Ran("fusion", Len(FusedOrder(dense, sparse)), Len(results))

-----------------------------------------------------------------------------
(* CrossEncoderReranker.rerank and _maybe_rerank.                          *)

Rerank(index, results, k) ==
  LET cross == [i \in DOMAIN results |-> index.cross[results[i].chunk]]
      best  == FirstOf(Falling(DOMAIN results, cross), k)
  IN  [i \in DOMAIN best |->
        [chunk |-> results[best[i]].chunk,
         rank  |-> i,
         trace |-> [results[best[i]].trace EXCEPT !.reranker = i]]]

MaybeRerank(index, results, stages, k, reranker) ==
  IF ~reranker
  THEN [results |-> FirstOf(results, k), stages |-> stages]
  ELSE LET reranked == Rerank(index, results, k)
       IN  [results |-> reranked,
            stages  |-> Append(stages,
                               Ran("reranker", Len(results), Len(reranked)))]

\* Mutant of Width: the reranker gets what would be returned anyway.
WidthOfTopK(k, reranker) == k

\* How many candidates a single stage is asked for.
Width(k, reranker) == IF reranker THEN k * Multiplier ELSE k

\* HybridRetriever.retrieve_traced, for top_k at least 1.
RetrieveTraced(index, k, mode, reranker) ==
  CASE mode = "dense" ->
         LET dense == DenseSearch(index, Width(k, reranker))
         IN  MaybeRerank(index, dense, DenseStages(index, dense), k, reranker)
    [] mode = "sparse" ->
         LET sparse == SparseSearch(index, Width(k, reranker))
         IN  MaybeRerank(index, sparse,
                         <<Skipped("embedding"), SparseStage(index, sparse)>>,
                         k, reranker)
    [] mode = "hybrid" ->
         LET dense   == DenseSearch(index, k * Multiplier)
             sparse  == SparseSearch(index, k * Multiplier)
             results == Fuse(dense, sparse, k)
         IN  MaybeRerank(index, results,
                         DenseStages(index, dense) \o
                           << SparseStage(index, sparse),
                              FusionStage(dense, sparse, results) >>,
                         k, reranker)
=============================================================================
