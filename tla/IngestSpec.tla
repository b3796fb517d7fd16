----------------------------- MODULE IngestSpec -----------------------------
(***************************************************************************)
(* What Pipeline.IngestRepo promises its caller, without goroutines or      *)
(* channels: rows of the store are written while the call runs and never    *)
(* after it has returned, and the pair it returns says the truth about      *)
(* them.  The expiry of the context weakens the promise, as it does in the  *)
(* code: chunks that were already sent may then be missing.                 *)
(***************************************************************************)
EXTENDS Integers

CONSTANTS
  Total,          \* chunks in the repository, numbered in file order
  EdgeStore       \* does the store keep graph edges

Chunk == 1 .. Total

VARIABLES
  ctx,            \* "live" or "done"
  failed,         \* has some row been refused by the store
  count, ret,     \* the values returned; ret is "none" before that
  db, graph       \* the rows, and the rows the edges were computed from

vars == <<ctx, failed, count, ret, db, graph>>

Indexed(rows) == {c \in Chunk : rows[c] # "absent"}

Init ==
  /\ ctx = "live"
  /\ failed = FALSE
  /\ count = 0
  /\ ret = "none"
  /\ db \in [Chunk -> {"absent", "old"}]
  /\ graph \in {{}, Indexed(db)}

Expire ==
  /\ ctx = "live"
  /\ ctx' = "done"
  /\ UNCHANGED <<failed, count, ret, db, graph>>

StoreRow ==
  /\ ret = "none"
  /\ \E c \in Chunk : db' = [db EXCEPT ![c] = "stored"]
  /\ UNCHANGED <<ctx, failed, count, ret, graph>>

RefuseRow ==
  /\ ret = "none"
  /\ \E c \in Chunk : \E row \in {db[c], "partial"} : db' = [db EXCEPT ![c] = row]
  /\ failed' = TRUE
  /\ UNCHANGED <<ctx, count, ret, graph>>

(* The count returned is of rows that are in the store, unless the context  *)
(* expired or a row was refused; success means that none was refused and    *)
(* that all were counted, and leaves the edges computed from every row.     *)
Return ==
  /\ ret = "none"
  /\ \E e \in {"ok", "rejected", "cancelled", "read", "upsert", "backpressure", "edges"},
        n \in 0 .. Total :
       /\ ret' = e
       /\ count' = n
       /\ ctx = "live" /\ ~failed => \A c \in 1 .. n : db[c] = "stored"
       /\ e = "ok" => ~failed /\ n = Total
       /\ graph' = IF e = "ok" /\ EdgeStore THEN Indexed(db) ELSE graph
  /\ UNCHANGED <<ctx, failed, db>>

Next == Expire \/ StoreRow \/ RefuseRow \/ Return

Spec == Init /\ [][Next]_vars
=============================================================================
