----------------------------- MODULE MCCozoStore ----------------------------
(* Small instances of CozoStore for TLC. *)
EXTENDS CozoStore, TLC

CONSTANTS w1, w2, r1, r2, c1, c2, k1

(* The second version has lost the parameter and the skill of the first. *)
MCParamsOf == <<1, 0>>
MCSkillsOf == <<{k1}, {}>>

Symmetry == Permutations(Writer) \cup Permutations(Reader) \cup Permutations(Chunk)
=============================================================================
