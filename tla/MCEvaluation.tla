---------------------------- MODULE MCEvaluation ----------------------------
EXTENDS Evaluation, TLC
CONSTANTS a, b, c, p, q, plain, tied, wrong

View(dense, sparse, best) ==
  [ids    |-> <<a, b, c>>,
   dense  |-> dense,
   sparse |-> sparse,
   cross  |-> [i \in {a, b, c} |-> IF i = best THEN 1 ELSE 0]]

\* In "plain" the configurations differ, in "tied" they all score the same,
\* and in "wrong" a span is found in two chunks.
MCIndex ==
  [v \in {plain, tied, wrong} |->
    IF v = tied
    THEN [i \in {p, q} |-> View(<<1, 2, 3>>, <<3, 2, 1>>, a)]
    ELSE (p :> View(<<1, 2, 3>>, <<0, 1, 2>>, b))
           @@ (q :> View(<<2, 3, 1>>, <<1, 1, 0>>, c))]

MCLabels ==
  [v \in {plain, tied, wrong} |->
    (p :> << {a} >>)
      @@ (q :> CASE v = plain -> << {b}, {c} >>
                 [] v = tied  -> << {a}, {a} >>
                 [] v = wrong -> << {b}, {a, c} >>)]

\* What the twelve configurations score, worked out by hand from the above:
\* precision, recall, hit rate and reciprocal rank for top-1, top-1 reranked,
\* top-2 and top-2 reranked.  "wrong" has the chunks of "plain" and no
\* labels.
Scores ==
  [memory \in {"plain", "tied"}, files \in {"plain", "tied"} |->
    CASE memory = "plain" /\ files = "plain" ->
           [dense  |-> << <<24, 18, 24, 24>>, <<12, 6, 12, 12>>,
                          <<18, 24, 24, 24>>, <<18, 24, 24, 18>> >>,
            sparse |-> << <<0, 0, 0, 0>>, <<0, 0, 0, 0>>,
                          <<6, 6, 12, 6>>, <<6, 6, 12, 6>> >>,
            hybrid |-> << <<12, 6, 12, 12>>, <<12, 6, 12, 12>>,
                          <<6, 6, 12, 12>>, <<6, 6, 12, 12>> >>]
      [] memory = "plain" /\ files = "tied" ->
           [dense  |-> << <<12, 12, 12, 12>>, <<0, 0, 0, 0>>,
                          <<6, 12, 12, 12>>, <<6, 12, 12, 6>> >>,
            sparse |-> << <<12, 12, 12, 12>>, <<12, 12, 12, 12>>,
                          <<6, 12, 12, 12>>, <<6, 12, 12, 12>> >>,
            hybrid |-> << <<0, 0, 0, 0>>, <<0, 0, 0, 0>>,
                          <<6, 12, 12, 6>>, <<6, 12, 12, 6>> >>]
      [] memory = "tied" ->
           LET each == IF files = "plain"
                       THEN << <<12, 12, 12, 12>>, <<12, 12, 12, 12>>,
                               <<12, 18, 24, 18>>, <<12, 18, 24, 18>> >>
                       ELSE << <<24, 24, 24, 24>>, <<24, 24, 24, 24>>,
                               <<12, 24, 24, 24>>, <<12, 24, 24, 24>> >>
           IN  [dense |-> each, sparse |-> each, hybrid |-> each]]

Name(version) == IF version = tied THEN "tied" ELSE "plain"

MCMeasured ==
  [m \in {plain, tied, wrong} \X {plain, tied} \X Keys |->
    LET row == Scores[Name(m[1]), Name(m[2])][m[3].mode]
                 [2 * m[3].k - (IF m[3].reranker THEN 0 ELSE 1)]
    IN  [precision |-> row[1], recall |-> row[2], hit |-> row[3],
         mrr |-> row[4]]]

MCSweptTopK == <<1, 2>>
=============================================================================
