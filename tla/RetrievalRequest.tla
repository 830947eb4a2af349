-------------------------- MODULE RetrievalRequest --------------------------
(***************************************************************************)
(* One request against any index of a set: RAGService.search, or the       *)
(* retrieval of a question, with the top-K, mode and reranker it asks for. *)
(* Requests change nothing that a later one reads: the reranker that the   *)
(* first to ask for one builds is the one the others would build.          *)
(***************************************************************************)
EXTENDS Retrieval, SequencesExt

CONSTANTS
  Indexes,        \* indexes a question may meet
  TopK            \* values of top_k asked for

ASSUME RequestAssumption == TopK \subseteq Nat \ {0}

\* FAISS ranks every position once, and every chunk has its scores.
IsIndex(x) ==
  LET positions == DOMAIN x.ids
  IN  /\ x.ids \in Seq(DOMAIN x.cross)
      /\ x.dense \in [positions -> positions]
      /\ IsInjective(x.dense)
      /\ x.sparse \in [positions -> Int]
      /\ x.cross \in [DOMAIN x.cross -> Int]

ASSUME IndexAssumption == \A x \in Indexes : IsIndex(x)

VARIABLES
  index,      \* the index loaded
  request,    \* what is asked: top_k, mode, reranker
  answer      \* what comes back: results and stages; empty before

vars == <<index, request, answer>>

Requests == [k : TopK, mode : Modes, reranker : BOOLEAN]
Unanswered == [results |-> <<>>, stages |-> <<>>]

Init ==
  /\ index \in Indexes
  /\ request \in Requests
  /\ answer = Unanswered

\* retrieve_traced, then fill_skipped on the way out.
Retrieve ==
  /\ answer = Unanswered
  /\ LET traced == RetrieveTraced(index, request.k, request.mode,
                                  request.reranker)
     IN  answer' = [results |-> traced.results,
                    stages  |-> FillSkipped(traced.stages)]
  /\ UNCHANGED <<index, request>>

Next == Retrieve

Spec == Init /\ [][Next]_vars

-----------------------------------------------------------------------------
(* Properties.                                                             *)

Answered == answer # Unanswered
Returned == {answer.results[i].chunk : i \in DOMAIN answer.results}
Place(c) == CHOOSE i \in DOMAIN answer.results : answer.results[i].chunk = c
Stage(name) == answer.stages[CHOOSE i \in DOMAIN StageOrder :
                               StageOrder[i] = name]
HasRun(name) == Stage(name).status = "ok"
Distinct == IsInjective(index.ids)

\* Position of a chunk in the whole order of either search, one past its end
\* when the search does not find it.
DensePlace(c) == CHOOSE i \in DOMAIN index.dense : index.ids[index.dense[i]] = c
SparsePlace(c) ==
  LET all == ChunksOf(SparseSearch(index, Len(index.ids)))
  IN  IF c \in ToSet(all) THEN CHOOSE i \in DOMAIN all : all[i] = c
                          ELSE Len(all) + 1

\* Fusion never goes against its two inputs: a chunk that the dense search
\* ranks above another and the sparse search ranks no lower comes first in a
\* hybrid answer, whatever the candidate windows cut off.  (The ids of the
\* index are distinct.)
AgreementKept ==
  (Answered /\ Distinct /\ request.mode = "hybrid" /\ ~request.reranker) =>
    \A c \in ToSet(index.ids), d \in Returned :
      (/\ DensePlace(c) < DensePlace(d)
       /\ SparsePlace(c) <= SparsePlace(d))
        => c \in Returned /\ Place(c) < Place(d)

\* The pipeline diagram tells the truth about the results beside it: the last
\* stage that ranked returned what is shown and in its order, no stage turns
\* out more than it was given or than there are chunks, and a result carries
\* a rank of a stage only if that stage ran and turned out that many.
FunnelTruthful ==
  Answered =>
    LET field == [dense |-> "dense", sparse |-> "sparse", fused |-> "fusion",
                  reranker |-> "reranker"]
        last == IF HasRun("reranker") THEN "reranker"
                ELSE IF request.mode = "hybrid" THEN "fused"
                ELSE request.mode
    IN  /\ Stage(field[last]).out = Len(answer.results)
        /\ \A i \in DOMAIN answer.results : answer.results[i].trace[last] = i
        /\ HasRun("reranker") = request.reranker
        /\ HasRun("embedding") = (request.mode # "sparse")
        /\ \A f \in DOMAIN field :
             /\ HasRun(field[f]) => /\ Stage(field[f]).out <= Stage(field[f]).in
                                    /\ Stage(field[f]).in <= Len(index.ids)
             /\ \A i \in DOMAIN answer.results :
                  LET rank == answer.results[i].trace[f]
                  IN  /\ rank # None => /\ HasRun(field[f])
                                        /\ rank <= Stage(field[f]).out
                      /\ (field[f] # "dense" /\ field[f] # "sparse"
                            /\ HasRun(field[f])) => rank # None

Best(c, width) ==
  \E i \in 1 .. width :
    \/ request.mode = "dense" /\ i <= Len(index.dense)
                              /\ index.ids[index.dense[i]] = c
    \/ request.mode = "sparse"
       /\ LET found == ChunksOf(SparseSearch(index, Len(index.ids)))
          IN  i <= Len(found) /\ found[i] = c

\* Reranking a single search promotes from below the cut: any of its first
\* Multiplier * top_k chunks that the cross-encoder prefers to a chunk in the
\* answer is itself in the answer, before it.
RerankerPromotes ==
  (Answered /\ request.reranker /\ request.mode # "hybrid") =>
    \A c \in ToSet(index.ids), d \in Returned :
      (Best(c, Multiplier * request.k) /\ index.cross[c] > index.cross[d])
        => c \in Returned /\ Place(c) < Place(d)

-----------------------------------------------------------------------------
(* What comments say and the code does not do; see the README.             *)

\* "Handing it exactly top_k can only permute what the first stage already
\* chose" (hybrid_retriever.py:178): the reranker of a hybrid query promotes
\* from below the cut too.
HybridRerankerPromotes ==
  (Answered /\ request.reranker /\ request.mode = "hybrid" /\ Distinct) =>
    \A c, d \in ToSet(index.ids) :
      (/\ d \in Returned
       /\ DensePlace(c) <= Multiplier * request.k
       /\ index.cross[c] > index.cross[d])
        => c \in Returned

\* Fusion with an id indexed twice: AgreementKept without its proviso.
AgreementKeptAlways ==
  (Answered /\ request.mode = "hybrid" /\ ~request.reranker) =>
    \A c \in ToSet(index.ids), d \in Returned :
      (/\ DensePlace(c) < DensePlace(d)
       /\ SparsePlace(c) <= SparsePlace(d))
        => c \in Returned /\ Place(c) < Place(d)
=============================================================================
