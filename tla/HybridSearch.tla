---------------------------- MODULE HybridSearch -----------------------------
(***************************************************************************)
(* One hybrid search: SQLiteStore.HybridSearch (internal/rag/store_sqlite.go) *)
(* and the fallback of CozoStore.HybridSearch (store_cozo.go), over FuseRRF   *)
(* and applyDocBoost (rrf.go) and mergeDocResults.  SQLite's halves take the  *)
(* store's read lock one after the other, so that another goroutine or        *)
(* another process may upsert in between; CozoDB's run under one lock, which   *)
(* keeps off the goroutines of this process only.                            *)
(*                                                                         *)
(* What a query matches and how the index scores it is the database's, and    *)
(* is a choice here: a ranking is any order of some of the rows.              *)
(***************************************************************************)
EXTENDS Integers, Sequences, FiniteSets, Functions

CONSTANTS
  Chunk,        \* chunk identifiers
  Doc,          \* those of type "doc"
  TopK,         \* values of k a caller may ask for
  LastVersion   \* bound: versions of a row

ASSUME SearchAssumption ==
  /\ Doc \subseteq Chunk
  /\ IsFiniteSet(Chunk)
  /\ TopK \subseteq Int
  /\ LastVersion \in Nat \ {0}

VARIABLES
  table,        \* the version of each row, 0 if it is absent
  graphStore,   \* is the store CozoDB
  k, overview,  \* the caller's k, and the class of the query
  pc,           \* progress of the search
  vec, key, docs,   \* what each read has returned, best first
  res,          \* the results, best first
  outcome       \* "none" before the return; then "ok", "error" or "panic"

query == <<graphStore, k, overview>>
vars == <<table, query, pc, vec, key, docs, res, outcome>>

Row == [id : Chunk, v : 1 .. LastVersion]

(* Fault: an entry of the index is returned although its row is gone. *)
StoredOrNot == Chunk

Stored == {c \in Chunk : table[c] # 0}

TypeOK ==
  /\ table \in [Chunk -> 0 .. LastVersion]
  /\ graphStore \in BOOLEAN /\ overview \in BOOLEAN
  /\ k \in TopK
  /\ pc \in {"vector", "keyword", "fuse", "boost", "docs", "returned"}
  /\ \A list \in {vec, key, docs, res} : list \in Seq(Row)
  /\ outcome \in {"none", "ok", "error", "panic"}

Init ==
  /\ table \in [Chunk -> 0 .. 1]
  /\ graphStore \in BOOLEAN /\ overview \in BOOLEAN
  /\ k \in TopK
  /\ pc = "vector"
  /\ vec = <<>> /\ key = <<>> /\ docs = <<>> /\ res = <<>>
  /\ outcome = "none"

-----------------------------------------------------------------------------
(* Rankings. *)

Least(m, n) == IF m < n THEN m ELSE n

(* The first n of the identifiers in S, in some order. *)
Ranking(S, n) == Injection(1 .. Least(n, Cardinality(S)), S)

(* The rows of a ranking, as they are in the table now. *)
Rows(q) == [i \in DOMAIN q |-> [id |-> q[i], v |-> table[q[i]]]]

Ids(list) == {list[i].id : i \in DOMAIN list}
Pos(list, c) == CHOOSE i \in DOMAIN list : list[i].id = c

(* The searches replace a k that is not positive. *)
SearchLimit(n) == IF n <= 0 THEN 5 ELSE n

(* 1 / (60 + i) in units that make it an integer for the lists compared here. *)
Product[n \in 0 .. Cardinality(Chunk)] == IF n = 0 THEN 1 ELSE (60 + n) * Product[n - 1]
Unit == Product[Cardinality(Chunk)]

Share(list, c) == IF c \in Ids(list) THEN Unit \div (60 + Pos(list, c)) ELSE 0

(* Fault: the second list overwrites the score of the first. *)
ScoreOfLast(c) == IF c \in Ids(key) THEN Share(key, c) ELSE Share(vec, c)

Score(c) == Share(vec, c) + Share(key, c)

(* Fault: k is used as it comes. *)
FuseLimitUnchecked == k

FuseLimit == IF k <= 0 THEN 5 ELSE k

(* Fault: the row that was read first is kept. *)
FusedRowFirst(c) == IF c \in Ids(vec) THEN vec[Pos(vec, c)] ELSE key[Pos(key, c)]

(* The keyword list is gone through last, and its row is kept. *)
FusedRow(c) == IF c \in Ids(key) THEN key[Pos(key, c)] ELSE vec[Pos(vec, c)]

(* The orders of S by descending weight, cut at n; equal weights come in any  *)
(* order, that of the map and of a sort that is not stable.                   *)
Sorted(S, weight(_), n) ==
  {q \in Ranking(S, n) :
     /\ \A i, j \in DOMAIN q : i < j => weight(q[i]) >= weight(q[j])
     /\ \A c \in S \ Range(q), i \in DOMAIN q : weight(q[i]) >= weight(c)}

-----------------------------------------------------------------------------
(* Another goroutine or process stores a new version of a row. *)
Upsert ==
  /\ \E c \in Chunk :
       /\ table[c] < LastVersion
       /\ table' = [table EXCEPT ![c] = @ + 1]
  /\ UNCHANGED <<query, pc, vec, key, docs, res, outcome>>

Return(o) == pc' = "returned" /\ outcome' = o

(* A scan of every row, sorted by similarity; CozoDB asks an approximate index, *)
(* which may find fewer.                                                     *)
VectorSearch ==
  /\ pc = "vector"
  /\ \E M \in IF graphStore THEN SUBSET Stored ELSE {Stored} :
       \E q \in Ranking(M, SearchLimit(3 * k)) : vec' = Rows(q)
  /\ pc' = "keyword"
  /\ UNCHANGED <<table, query, key, docs, res, outcome>>

(* The rows that match, by bm25. *)
KeywordSearch ==
  /\ pc = "keyword"
  /\ \E M \in SUBSET Stored : \E q \in Ranking(M, SearchLimit(3 * k)) : key' = Rows(q)
  /\ pc' = "fuse"
  /\ UNCHANGED <<table, query, vec, docs, res, outcome>>

(* An error of either ends the search. *)
ReadFails ==
  /\ pc \in {"vector", "keyword"}
  /\ Return("error")
  /\ UNCHANGED <<table, query, vec, key, docs, res>>

(* FuseRRF; a slice with a negative bound would panic. *)
Fuse ==
  /\ pc = "fuse"
  /\ IF FuseLimit < 0 THEN Return("panic") /\ UNCHANGED res
     ELSE /\ \E q \in Sorted(Ids(vec) \cup Ids(key), Score, FuseLimit) :
               res' = [i \in DOMAIN q |-> FusedRow(q[i])]
          /\ IF ~overview THEN Return("ok")
             ELSE pc' = (IF graphStore THEN "boost" ELSE "docs") /\ UNCHANGED outcome
  /\ UNCHANGED <<table, query, vec, key, docs>>

(* applyDocBoost, by half as much again; the results are k at most already.   *)
Boost ==
  /\ pc = "boost"
  /\ LET weight(c) == IF c \in Doc THEN 3 * Score(c) ELSE 2 * Score(c)
     IN \E q \in Sorted(Ids(res), weight, Len(res)) :
          res' = [i \in DOMAIN q |-> FusedRow(q[i])]
  /\ Return("ok")
  /\ UNCHANGED <<table, query, vec, key, docs>>

(* SQL's LIMIT: a negative one is none. *)
SqlLimit(n) == IF n < 0 THEN Cardinality(Chunk) ELSE n

(* Fault: a chunk found by both is merged in twice. *)
MergedTwice(found) == found \o res

(* Some positions in a list, in their order. *)
InOrder(S) ==
  CHOOSE p \in [1 .. Cardinality(S) -> S] : \A i, j \in DOMAIN p : i < j => p[i] < p[j]

(* mergeDocResults: the docs, then the results that are not among them.       *)
Merged(found) ==
  LET other == {i \in DOMAIN res : res[i].id \notin Ids(found)}
  IN found \o [i \in 1 .. Cardinality(other) |-> res[InOrder(other)[i]]]

(* docSearch, whose error is ignored, and the merge of what it found. *)
DocSearch ==
  /\ pc = "docs"
  /\ \E M \in SUBSET (Stored \cap Doc) : \E q \in Ranking(M, SqlLimit(k)) :
       LET found == Rows(q)
           all == Merged(found)
       IN /\ docs' = found
          /\ IF found = <<>> \/ Len(all) <= k THEN
               Return("ok") /\ res' = (IF found = <<>> THEN res ELSE all)
             ELSE IF k < 0 THEN Return("panic") /\ UNCHANGED res
             ELSE Return("ok") /\ res' = SubSeq(all, 1, k)
  /\ UNCHANGED <<table, query, vec, key>>

Returned == pc = "returned" /\ UNCHANGED vars

Next ==
  \/ Upsert \/ VectorSearch \/ KeywordSearch \/ ReadFails
  \/ Fuse \/ Boost \/ DocSearch \/ Returned

Spec == Init /\ [][Next]_vars

-----------------------------------------------------------------------------
(* Properties. *)

Ok == outcome = "ok"

(* No result is older than what the search itself has read: where an upsert   *)
(* came between two of its reads, the newer row is shown.                     *)
NewestRead ==
  Ok => \A i \in DOMAIN res : \A list \in {vec, key, docs} : \A j \in DOMAIN list :
          list[j].id = res[i].id => list[j].v <= res[i].v

(* A chunk that both halves found is never behind, or cut off for, one that   *)
(* only one of them found, wherever the two stood in their lists: as long as  *)
(* the lists have no more than 61 entries, which a k of up to 20 ensures.     *)
BothBeatOne ==
  Ok /\ ~overview /\ Len(vec) <= 61 /\ Len(key) <= 61 =>
    \A c \in Ids(vec) \cap Ids(key) :
      \A d \in Ids(res) : d \notin Ids(vec) \cap Ids(key) =>
        c \in Ids(res) /\ Pos(res, c) < Pos(res, d)

(* The results are a ranking: no chunk twice, k at most, and fewer than k     *)
(* only if nothing that was found is missing.                                 *)
ResultIsRanking ==
  Ok =>
    /\ \A i, j \in DOMAIN res : res[i].id = res[j].id => i = j
    /\ Len(res) <= FuseLimit
    /\ Len(res) < FuseLimit => Ids(vec) \cup Ids(key) \cup Ids(docs) \subseteq Ids(res)

(* The one way to a panic is a negative k with an overview query that has     *)
(* documents to merge; everywhere else a k that is not positive is replaced.  *)
PanicsOnNegativeK == outcome = "panic" => k < 0 /\ overview /\ docs # <<>>
=============================================================================
