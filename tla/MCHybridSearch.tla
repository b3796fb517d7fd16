--------------------------- MODULE MCHybridSearch ----------------------------
(* A store with two chunks of code and one document. *)
EXTENDS Relevance, TLC

CONSTANTS a, b, d

Code == Chunk \ Doc
Symmetry == Permutations(Code)

(* Values of k that are replaced, and values that cut the results.            *)
MCTopK == {-1, 0, 1, 2}
=============================================================================
