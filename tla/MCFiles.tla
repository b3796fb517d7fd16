------------------------------ MODULE MCFiles -------------------------------
(* Small files for TLC: every sequence of lines up to LastLine. *)
EXTENDS Files
=============================================================================
