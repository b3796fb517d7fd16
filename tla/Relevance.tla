------------------------------ MODULE Relevance ------------------------------
(***************************************************************************)
(* scoreQuery (internal/rag/relevance.go): how many of the expected results  *)
(* a search has found.  A judgment is the set of chunks that judgeMatch       *)
(* accepts for it; one name may stand for several, the parts of a unit that   *)
(* was split among them.                                                     *)
(***************************************************************************)
EXTENDS HybridSearch

(* Fault: a judgment may be met again. *)
OpenAlways(expected, met, c) == {i \in DOMAIN expected : c \in expected[i]}

(* The judgments that chunk c can still meet.                                *)
Open(expected, met, c) == {i \in DOMAIN expected \ met : c \in expected[i]}

First(S) == CHOOSE i \in S : \A j \in S : i <= j

(* Each result, best first, meets the first judgment that is open to it, and  *)
(* counts as a hit.                                                          *)
Scored(results, expected) ==
  LET h[n \in 0 .. Len(results)] ==
        IF n = 0 THEN [met |-> {}, hits |-> 0]
        ELSE LET open == Open(expected, h[n - 1].met, results[n].id)
             IN IF open = {} THEN h[n - 1]
                ELSE [met |-> h[n - 1].met \cup {First(open)}, hits |-> h[n - 1].hits + 1]
  IN h

Hits(results, expected) == Scored(results, expected)[Len(results)].hits

-----------------------------------------------------------------------------
(* Properties. *)

Judgments == UNION {[1 .. n -> SUBSET Chunk] : n \in 1 .. 2}

(* Can every judgment in J be given a result of its own.                     *)
Assignable(results, expected, J) ==
  \E f \in [J -> DOMAIN results] :
    /\ \A i \in J : results[f[i]].id \in expected[i]
    /\ \A i, j \in J : f[i] = f[j] => i = j

Best(results, expected) ==
  LET sizes == {Cardinality(J) : J \in {J \in SUBSET DOMAIN expected :
                                          Assignable(results, expected, J)}}
  IN CHOOSE n \in sizes : \A m \in sizes : m <= n

(* Hits pair results with judgments, each at most once: precision and recall  *)
(* never exceed one, nor what the best pairing would give.  Going through     *)
(* them greedily loses at most half of the best, and none where no result    *)
(* meets two judgments: so half a recall never means that nothing was found. *)
HitsArePairs ==
  Ok => \A expected \in Judgments :
    LET hits == Hits(res, expected)
        best == Best(res, expected)
        apart == \A i, j \in DOMAIN expected : \A n \in DOMAIN res :
                   res[n].id \in expected[i] \cap expected[j] => i = j
    IN /\ hits <= best /\ best <= 2 * hits
       /\ apart => hits = best
=============================================================================
