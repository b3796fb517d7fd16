---------------------------- MODULE MCEmbedCache ----------------------------
(* Runs of the program over one cache directory. *)
EXTENDS EmbedCache

CONSTANTS p1, p2, w1, w2, t1, m1, zero
=============================================================================
