------------------------------ MODULE MCServer ------------------------------
(* A server loaded with both backends, and a name it does not know. *)
EXTENDS Server, TLC

CONSTANTS r1, r2

MCToLoad == <<"sqlite", "cozo">>
=============================================================================
