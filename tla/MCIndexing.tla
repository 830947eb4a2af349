----------------------------- MODULE MCIndexing -----------------------------
(* Instances of Indexing for TLC: two or three uploads, two of them of the *)
(* same bytes.                                                             *)
EXTENDS Indexing, TLC

CONSTANTS d1, d2, d3, x, y

\* d1 and d2 are two uploads of the same file, d3 is another file.
MCContent == [d \in Docs |-> IF d = d3 THEN y ELSE x]

\* d1 and d2 may be swapped.
MCSymmetry == Permutations({d1, d2})
=============================================================================
