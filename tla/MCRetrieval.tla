---------------------------- MODULE MCRetrieval ----------------------------
EXTENDS RetrievalRequest
CONSTANTS a, b, c, d

MCCross == {[i \in {a, b, c, d} |-> IF i = a THEN x ELSE IF i = b THEN y
                                     ELSE IF i = c THEN 2 ELSE 1] :
             x \in 0 .. 3, y \in {1, 3}}

\* Four positions: all chunks distinct, or the first one indexed again at the
\* end with the same text and so the same score; the dense order free but for
\* its first position being 1 or 2.
MCIndexes ==
  {i \in [ids    : {<<a, b, c, d>>, <<a, b, c, a>>},
          dense  : {p \in [1 .. 4 -> 1 .. 4] :
                      p[1] <= 2 /\ \A m, n \in 1 .. 4 : m # n => p[m] # p[n]},
          sparse : [1 .. 4 -> 0 .. 2],
          cross  : MCCross] :
     i.ids[1] = i.ids[4] => i.sparse[1] = i.sparse[4]}
=============================================================================
