---------------------------- MODULE MCLifecycle -----------------------------
(* Small instances of the index's life for TLC. *)
EXTENDS Lifecycle, TLC

CONSTANTS s1, s2, outer, inner, moved, x, y

(* A module that contains a routine, and an empty file.  Then the routine is   *)
(* moved to that file, and called from the module, whose row is written again; *)
(* the old routine's row is left over, so that the call has two targets.  A   *)
(* run may read one file before the edit and the other after it.             *)
Module(called) ==
  [id |-> outer, file |-> 1, start |-> 1, end |-> 9, t |-> "module",
   name |-> x, calls |-> called, mentions |-> {}]
Routine(i, f, first) ==
  [id |-> i, file |-> f, start |-> first, end |-> first + 2, t |-> "subroutine",
   name |-> y, calls |-> {}, mentions |-> {}]
MCChunksOf ==
  <<{Module({}), Routine(inner, 1, 3)}, {Module({y}), Routine(moved, 2, 1)}>>
MCListed == <<{1, 2}, {1, 2}>>

Symmetry == Permutations(Session)
=============================================================================
