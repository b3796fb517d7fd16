----------------------------- MODULE EmbedCache -----------------------------
(***************************************************************************)
(* CachedEmbedder (internal/rag/embedder_cached.go) around an HTTPEmbedder   *)
(* (embedder_http.go): one file per text, read without a lock, written under *)
(* the embedder's mutex by os.WriteFile, which truncates and then writes.    *)
(* The pipeline's workers share one embedder; processes share the directory. *)
(*                                                                         *)
(* A vector is known by the model that computed it; Zero is the vector an     *)
(* HTTPEmbedder returns when the service fails.  The key of a file is the    *)
(* text alone, and all models here have the same dimension.                  *)
(***************************************************************************)
EXTENDS Naturals

CONSTANTS
  Process,      \* runs of the program that use the cache directory
  Worker,       \* goroutines of one run
  Text,
  Model,        \* models a run may be configured with
  Zero,         \* the zero vector
  FaultyDisk    \* may writing a cache file fail

ASSUME CacheAssumption ==
  /\ Zero \notin Model
  /\ {"absent", "torn"} \cap (Model \cup {Zero}) = {}
  /\ FaultyDisk \in BOOLEAN

Vector == Model \cup {Zero}

VARIABLES
  file,       \* file of each text: "absent", "torn" (wrong size), or a vector
  model,      \* the model each process was started with, or "off"
  mu,         \* holder of each process's mutex, or "free"
  pc, text,   \* progress of each goroutine, and the text it embeds
  vec,        \* the vector it computed
  got         \* every vector that Embed returned for a text, over all runs

vars == <<file, model, mu, pc, text, vec, got>>

None == "none"

TypeOK ==
  /\ file \in [Text -> Vector \cup {"absent", "torn"}]
  /\ model \in [Process -> Model \cup {"off"}]
  /\ mu \in [Process -> Worker \cup {"free"}]
  /\ pc \in [Process -> [Worker -> {"idle", "load", "compute", "lock", "truncate", "write"}]]
  /\ text \in [Process -> [Worker -> Text \cup {None}]]
  /\ vec \in [Process -> [Worker -> Vector \cup {None}]]
  /\ got \in [Text -> SUBSET (Vector \cup {"torn"})]

Init ==
  /\ file = [t \in Text |-> "absent"]
  /\ model = [p \in Process |-> "off"]
  /\ mu = [p \in Process |-> "free"]
  /\ pc = [p \in Process |-> [w \in Worker |-> "idle"]]
  /\ text = [p \in Process |-> [w \in Worker |-> None]]
  /\ vec = [p \in Process |-> [w \in Worker |-> None]]
  /\ got = [t \in Text |-> {}]

At(p, w, l) == model[p] # "off" /\ pc[p][w] = l
Goto(p, w, l) == pc' = [pc EXCEPT ![p][w] = l]

(* Embed returns v. *)
Return(p, w, v) ==
  /\ got' = [got EXCEPT ![text[p][w]] = @ \cup {v}]
  /\ text' = [text EXCEPT ![p][w] = None]
  /\ vec' = [vec EXCEPT ![p][w] = None]
  /\ Goto(p, w, "idle")

-----------------------------------------------------------------------------
Start(p) ==
  /\ model[p] = "off"
  /\ \E m \in Model : model' = [model EXCEPT ![p] = m]
  /\ UNCHANGED <<file, mu, pc, text, vec, got>>

(* The process ends or is killed at any point; its files stay as they are. *)
Stop(p) ==
  /\ model[p] # "off"
  /\ model' = [model EXCEPT ![p] = "off"]
  /\ mu' = [mu EXCEPT ![p] = "free"]
  /\ pc' = [pc EXCEPT ![p] = [w \in Worker |-> "idle"]]
  /\ text' = [text EXCEPT ![p] = [w \in Worker |-> None]]
  /\ vec' = [vec EXCEPT ![p] = [w \in Worker |-> None]]
  /\ UNCHANGED <<file, got>>

Call(p, w) ==
  /\ At(p, w, "idle")
  /\ \E t \in Text : text' = [text EXCEPT ![p][w] = t]
  /\ Goto(p, w, "load")
  /\ UNCHANGED <<file, model, mu, vec, got>>

(* Fault: any file that can be read is a hit. *)
LoadAnySize(p, w) ==
  /\ At(p, w, "load")
  /\ LET f == file[text[p][w]] IN
       IF f = "absent" THEN Goto(p, w, "compute") /\ UNCHANGED <<text, vec, got>>
                       ELSE Return(p, w, f)
  /\ UNCHANGED <<file, model, mu>>

(* Fault: a vector of zeroes counts as a miss, so that the service is asked again. *)
LoadSkipsZero(p, w) ==
  /\ At(p, w, "load")
  /\ LET f == file[text[p][w]] IN
       IF f \in Vector \ {Zero} THEN Return(p, w, f)
                                ELSE Goto(p, w, "compute") /\ UNCHANGED <<text, vec, got>>
  /\ UNCHANGED <<file, model, mu>>

(* loadCached: a file of another size than the dimension asks for is a miss. *)
Load(p, w) ==
  /\ At(p, w, "load")
  /\ LET f == file[text[p][w]] IN
       IF f \in Vector THEN Return(p, w, f)
                       ELSE Goto(p, w, "compute") /\ UNCHANGED <<text, vec, got>>
  /\ UNCHANGED <<file, model, mu>>

(* inner.Embed: the model's vector, or zeroes if the service fails. *)
Compute(p, w) ==
  /\ At(p, w, "compute")
  /\ \E v \in {model[p], Zero} : vec' = [vec EXCEPT ![p][w] = v]
  /\ Goto(p, w, "lock")
  /\ UNCHANGED <<file, model, mu, text, got>>

Lock(p, w) ==
  /\ At(p, w, "lock")
  /\ mu[p] = "free"
  /\ mu' = [mu EXCEPT ![p] = w]
  /\ Goto(p, w, "truncate")
  /\ UNCHANGED <<file, model, text, vec, got>>

Truncate(p, w) ==
  /\ At(p, w, "truncate")
  /\ file' = [file EXCEPT ![text[p][w]] = "torn"]
  /\ Goto(p, w, "write")
  /\ UNCHANGED <<model, mu, text, vec, got>>

(* Fault: a file that cannot be opened makes Embed return no vector. *)
OpenFailsEmpty(p, w) ==
  /\ FaultyDisk
  /\ At(p, w, "truncate")
  /\ mu' = [mu EXCEPT ![p] = "free"]
  /\ Return(p, w, None)
  /\ UNCHANGED <<file, model>>

(* The error of WriteFile is dropped: the file could not be opened ... *)
OpenFails(p, w) ==
  /\ FaultyDisk
  /\ At(p, w, "truncate")
  /\ mu' = [mu EXCEPT ![p] = "free"]
  /\ Return(p, w, vec[p][w])
  /\ UNCHANGED <<file, model>>

Written(p, w) == {vec[p][w]} \cup (IF FaultyDisk THEN {"torn"} ELSE {})

(* Fault: a write that failed returns without releasing the mutex. *)
WriteKeepsLock(p, w) ==
  /\ At(p, w, "write")
  /\ \E f \in Written(p, w) :
       /\ file' = [file EXCEPT ![text[p][w]] = f]
       /\ mu' = [mu EXCEPT ![p] = IF f = "torn" THEN w ELSE "free"]
  /\ Return(p, w, vec[p][w])
  /\ UNCHANGED model

(* ... or not written in full. *)
Write(p, w) ==
  /\ At(p, w, "write")
  /\ \E f \in Written(p, w) : file' = [file EXCEPT ![text[p][w]] = f]
  /\ mu' = [mu EXCEPT ![p] = "free"]
  /\ Return(p, w, vec[p][w])
  /\ UNCHANGED model

Step(p, w) ==
  \/ Load(p, w) \/ Compute(p, w) \/ Lock(p, w)
  \/ Truncate(p, w) \/ OpenFails(p, w) \/ Write(p, w)

Next ==
  \E p \in Process :
    \/ Start(p) \/ Stop(p)
    \/ \E w \in Worker : Call(p, w) \/ Step(p, w)

Safety == Init /\ [][Next]_vars

(* A call of Embed that was made is carried on while the process runs.  The  *)
(* mutex is handed to waiters in turn.                                       *)
Spec ==
  /\ Safety
  /\ \A p \in Process, w \in Worker : WF_vars(Step(p, w)) /\ SF_vars(Lock(p, w))

-----------------------------------------------------------------------------
(* Properties. *)

(* The file of t is whole, and no call that missed it is still under way.     *)
Settled(t) ==
  /\ file[t] \in Vector
  /\ \A p \in Process, w \in Worker :
       text[p][w] = t => pc[p][w] \notin {"compute", "lock", "truncate", "write"}

(* No goroutine is ever given part of a vector: a file a crash or a full      *)
(* disk left torn, or one that is being rewritten, is a miss.                *)
NeverServesTorn == \A t \in Text : "torn" \notin got[t]

(* Once settled, a text stays so, whatever calls of whichever runs and models  *)
(* follow, and all of them return the one vector: a lookup that finds it, be   *)
(* it of another model or all zeroes, leads to no computation and no write.    *)
CachedStays ==
  [][\A t \in Text : Settled(t) =>
       /\ Settled(t)'
       /\ file'[t] = file[t]
       /\ got'[t] \ got[t] \subseteq {file[t]}]_vars

(* A call of Embed returns unless its process ends, a failing write          *)
(* included: the mutex is always released.                                   *)
EmbedReturns ==
  \A p \in Process, w \in Worker : (pc[p][w] # "idle") ~> (pc[p][w] = "idle")

(* The comment on CachedEmbedder: the cache guarantees deterministic,         *)
(* reproducible embeddings across runs.  Within one configuration, two calls  *)
(* for a text may still get different vectors, one of them zeroes.           *)
Reproducible == \A t \in Text : \A u, v \in got[t] : u = v
=============================================================================
