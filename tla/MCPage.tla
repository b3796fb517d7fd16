------------------------------- MODULE MCPage -------------------------------
(* A page with two questions, in front of one or two backends. *)
EXTENDS Page

CONSTANTS q1, q2, i1, i2
=============================================================================
