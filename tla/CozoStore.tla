----------------------------- MODULE CozoStore ------------------------------
(***************************************************************************)
(* CozoStore (internal/rag/store_cozo.go) under concurrent calls.  A chunk   *)
(* is spread over three relations, so that Upsert writes it with several     *)
(* statements and a search reads it with three; the store's RWMutex is what   *)
(* makes either look like one step.  HybridSearch, when its Datalog query    *)
(* fails, falls back on two searches that take the read lock once more.      *)
(*                                                                         *)
(* The mutex is Go's: a goroutine that asks for the write lock keeps new      *)
(* readers out from then on, and gets the lock when the readers inside have  *)
(* left.                                                                     *)
(***************************************************************************)
EXTENDS Naturals, Sequences, FiniteSets

CONSTANTS
  Writer,       \* goroutines that call Upsert or BuildEdges
  Reader,       \* goroutines that search
  Chunk,        \* chunk identifiers
  ParamsOf,     \* ParamsOf[v]: number of parameters in version v of a chunk
  SkillsOf,     \* SkillsOf[v]: its skills
  FailingDb     \* may a statement fail

Version == DOMAIN ParamsOf
Goroutine == Writer \cup Reader
Nobody == "nobody"

ASSUME StoreAssumption ==
  /\ ParamsOf \in Seq(Nat)
  /\ DOMAIN SkillsOf = Version
  /\ FailingDb \in BOOLEAN
  /\ Writer \cap Reader = {}
  /\ Nobody \notin Writer \cup Chunk

VARIABLES
  overlap,    \* do searches overlap with ingestion; this program's never do
  nodes,      \* relation nodes: the version each chunk was put from, 0 if absent
  params,     \* relation node_params: per chunk and index, the version put there
  skills,     \* relation node_skills: per chunk, a set of skills
  broken,     \* the chunks whose last Upsert failed
  graph,      \* the chunks whose edges relation edges holds
  writer,     \* the goroutine that holds or awaits the write lock
  held,       \* read locks held by each goroutine
  pc,         \* progress of each goroutine
  job,        \* the chunk and version each writer upserts
  snap,       \* the rows a BuildEdges call has read
  hybrid,     \* is the search a HybridSearch
  fallback,   \* what a hybrid search has fallen back to: "no", "vector", "keyword"
  hits,       \* the identifiers the index query of a search returned
  res         \* the chunks a search has put together

rows == <<overlap, nodes, params, skills, broken>>
lock == <<writer, held>>
search == <<hybrid, fallback, hits, res>>
vars == <<rows, graph, lock, pc, job, snap, search>>

NoJob == [c |-> Nobody, v |-> 0]
NoRow == [node |-> 0, params |-> <<>>, skills |-> {}]

WriterPc == {"idle", "lock", "wait", "node", "rmParams", "params", "rmSkills", "skills",
             "rlock", "scan", "elock", "ewait", "edges"}
ReaderPc == {"idle", "rlock", "query", "nodes", "params", "skills", "runlock"}
AllSkills == UNION {SkillsOf[v] : v \in Version}
ParamRows == Seq(Version)

(* A chunk as far as a search has loaded it. *)
Partial == [node : Version \cup {0}, params : ParamRows, skills : SUBSET AllSkills]

TypeOK ==
  /\ overlap \in BOOLEAN
  /\ nodes \in [Chunk -> Version \cup {0}]
  /\ params \in [Chunk -> ParamRows]
  /\ skills \in [Chunk -> SUBSET AllSkills]
  /\ broken \in SUBSET Chunk
  /\ graph \in SUBSET Chunk
  /\ writer \in Writer \cup {Nobody}
  /\ held \in [Goroutine -> 0 .. 2]
  /\ \A w \in Writer : pc[w] \in WriterPc
  /\ \A r \in Reader : pc[r] \in ReaderPc
  /\ job \in [Writer -> [c : Chunk, v : Version] \cup {NoJob}]
  /\ snap \in [Writer -> SUBSET Chunk]
  /\ hybrid \in [Reader -> BOOLEAN]
  /\ fallback \in [Reader -> {"no", "vector", "keyword"}]
  /\ hits \in [Reader -> SUBSET Chunk]
  /\ res \in [Reader -> [Chunk -> Partial]]

Init ==
  /\ overlap \in BOOLEAN
  /\ nodes = [c \in Chunk |-> 0]
  /\ params = [c \in Chunk |-> <<>>]
  /\ skills = [c \in Chunk |-> {}]
  /\ broken = {}
  /\ graph = {}
  /\ writer = Nobody
  /\ held = [g \in Goroutine |-> 0]
  /\ pc = [g \in Goroutine |-> "idle"]
  /\ job = [w \in Writer |-> NoJob]
  /\ snap = [w \in Writer |-> {}]
  /\ hybrid = [r \in Reader |-> FALSE]
  /\ fallback = [r \in Reader |-> "no"]
  /\ hits = [r \in Reader |-> {}]
  /\ res = [r \in Reader |-> [c \in Chunk |-> NoRow]]

Stored == {c \in Chunk : nodes[c] # 0}
Goto(g, l) == pc' = [pc EXCEPT ![g] = l]

-----------------------------------------------------------------------------
(* sync.RWMutex. *)

(* Lock, in two steps: announce, and wait for the readers to leave.          *)
Announce(w) == writer = Nobody /\ writer' = w /\ UNCHANGED held
Acquired(w) == writer = w /\ \A g \in Goroutine : held[g] = 0
Unlock(w) == writer' = Nobody /\ UNCHANGED held

RLock(g) == writer = Nobody /\ held' = [held EXCEPT ![g] = @ + 1] /\ UNCHANGED writer
RUnlock(g) == held' = [held EXCEPT ![g] = @ - 1] /\ UNCHANGED writer

-----------------------------------------------------------------------------
(* Upsert. *)

(* The program's ingestion ends before it searches. *)
MayWrite == overlap \/ \A r \in Reader : pc[r] = "idle"

MaySearch == overlap \/ \A w \in Writer : pc[w] = "idle"

CallUpsert(w) ==
  /\ pc[w] = "idle"
  /\ MayWrite
  /\ \E c \in Chunk, v \in Version : job' = [job EXCEPT ![w] = [c |-> c, v |-> v]]
  /\ Goto(w, "lock")
  /\ UNCHANGED <<rows, graph, lock, snap, search>>

UpsertLocks(w) ==
  /\ \/ pc[w] = "lock" /\ Announce(w) /\ Goto(w, "wait")
     \/ pc[w] = "wait" /\ Acquired(w) /\ Goto(w, "node") /\ UNCHANGED lock
  /\ UNCHANGED <<rows, graph, job, snap, search>>

PutNode(w) ==
  /\ pc[w] = "node"
  /\ nodes' = [nodes EXCEPT ![job[w].c] = job[w].v]
  /\ Goto(w, "rmParams")
  /\ UNCHANGED <<overlap, params, skills, broken, graph, lock, job, snap, search>>

(* Fault: the parameters of the version before are left in place. *)
ClearParamsNot(w) ==
  /\ pc[w] = "rmParams"
  /\ Goto(w, "params")
  /\ UNCHANGED <<rows, graph, lock, job, snap, search>>

(* ":rm" of no rows is the error that is tolerated. *)
ClearParams(w) ==
  /\ pc[w] = "rmParams"
  /\ params' = [params EXCEPT ![job[w].c] = <<>>]
  /\ Goto(w, "params")
  /\ UNCHANGED <<overlap, nodes, skills, broken, graph, lock, job, snap, search>>

PutParam(w) ==
  /\ pc[w] = "params"
  /\ IF Len(params[job[w].c]) < ParamsOf[job[w].v]
     THEN params' = [params EXCEPT ![job[w].c] = Append(@, job[w].v)] /\ UNCHANGED pc
     ELSE Goto(w, "rmSkills") /\ UNCHANGED params
  /\ UNCHANGED <<overlap, nodes, skills, broken, graph, lock, job, snap, search>>

ClearSkills(w) ==
  /\ pc[w] = "rmSkills"
  /\ skills' = [skills EXCEPT ![job[w].c] = {}]
  /\ Goto(w, "skills")
  /\ UNCHANGED <<overlap, nodes, params, broken, graph, lock, job, snap, search>>

PutSkill(w) ==
  /\ pc[w] = "skills"
  /\ \E k \in SkillsOf[job[w].v] \ skills[job[w].c] :
       skills' = [skills EXCEPT ![job[w].c] = @ \cup {k}]
  /\ UNCHANGED <<overlap, nodes, params, broken, graph, lock, pc, job, snap, search>>

UpsertReturns(w) ==
  /\ pc[w] = "skills"
  /\ SkillsOf[job[w].v] \subseteq skills[job[w].c]
  /\ broken' = broken \ {job[w].c}
  /\ Unlock(w)
  /\ job' = [job EXCEPT ![w] = NoJob]
  /\ Goto(w, "idle")
  /\ UNCHANGED <<overlap, nodes, params, skills, graph, snap, search>>

(* Any statement may fail; the ones before it stay.  Only the first leaves   *)
(* the chunk as it was.                                                      *)
UpsertFails(w) ==
  /\ FailingDb
  /\ pc[w] \in {"node", "rmParams", "params", "rmSkills", "skills"}
  /\ broken' = IF pc[w] = "node" THEN broken ELSE broken \cup {job[w].c}
  /\ Unlock(w)
  /\ job' = [job EXCEPT ![w] = NoJob]
  /\ Goto(w, "idle")
  /\ UNCHANGED <<overlap, nodes, params, skills, graph, snap, search>>

-----------------------------------------------------------------------------
(* BuildEdges: a scan under the read lock, then UpsertEdges under the write   *)
(* lock.                                                                     *)

CallBuildEdges(w) ==
  /\ pc[w] = "idle"
  /\ MayWrite
  /\ Goto(w, "rlock")
  /\ UNCHANGED <<rows, graph, lock, job, snap, search>>

ScanLocks(w) ==
  /\ pc[w] = "rlock"
  /\ RLock(w)
  /\ Goto(w, "scan")
  /\ UNCHANGED <<rows, graph, job, snap, search>>

(* Fault: the read lock is kept until the call returns. *)
ScanKeepsLock(w) ==
  /\ pc[w] = "scan"
  /\ snap' = [snap EXCEPT ![w] = Stored]
  /\ Goto(w, IF Stored = {} THEN "idle" ELSE "elock")
  /\ UNCHANGED <<rows, graph, lock, job, search>>

(* Fault: the lock is given back by hand and by a deferred call. *)
ScanUnlocksTwice(w) ==
  /\ pc[w] = "scan"
  /\ held' = [held EXCEPT ![w] = @ - 2]
  /\ \/ /\ snap' = [snap EXCEPT ![w] = Stored]
        /\ Goto(w, IF Stored = {} THEN "idle" ELSE "elock")
     \/ FailingDb /\ Goto(w, "idle") /\ UNCHANGED snap
  /\ UNCHANGED <<rows, writer, graph, job, search>>

(* No row, no edge: then, and after a failed scan, nothing more is done.     *)
Scan(w) ==
  /\ pc[w] = "scan"
  /\ RUnlock(w)
  /\ \/ /\ snap' = [snap EXCEPT ![w] = Stored]
        /\ Goto(w, IF Stored = {} THEN "idle" ELSE "elock")
     \/ FailingDb /\ Goto(w, "idle") /\ UNCHANGED snap
  /\ UNCHANGED <<rows, graph, job, search>>

EdgesLock(w) ==
  /\ \/ pc[w] = "elock" /\ Announce(w) /\ Goto(w, "ewait")
     \/ pc[w] = "ewait" /\ Acquired(w) /\ Goto(w, "edges") /\ UNCHANGED lock
  /\ UNCHANGED <<rows, graph, job, snap, search>>

(* One statement puts all edges, or none. *)
PutEdges(w) ==
  /\ pc[w] = "edges"
  /\ \/ graph' = graph \cup snap[w]
     \/ FailingDb /\ UNCHANGED graph
  /\ snap' = [snap EXCEPT ![w] = {}]
  /\ Unlock(w)
  /\ Goto(w, "idle")
  /\ UNCHANGED <<rows, job, search>>

-----------------------------------------------------------------------------
(* VectorSearch, KeywordSearch and HybridSearch. *)

CallSearch(r) ==
  /\ pc[r] = "idle"
  /\ MaySearch
  /\ \E h \in BOOLEAN : hybrid' = [hybrid EXCEPT ![r] = h]
  /\ Goto(r, "rlock")
  /\ UNCHANGED <<rows, graph, lock, job, snap, fallback, hits, res>>

SearchLocks(r) ==
  /\ pc[r] = "rlock"
  /\ RLock(r)
  /\ Goto(r, "query")
  /\ UNCHANGED <<rows, graph, job, snap, search>>

(* Fault: the read lock covers the index query only. *)
QueryUnlocks(r) ==
  /\ pc[r] = "query"
  /\ RUnlock(r)
  /\ \E found \in SUBSET Stored :
       /\ hits' = [hits EXCEPT ![r] = found]
       /\ Goto(r, IF found = {} THEN "runlock" ELSE "nodes")
  /\ UNCHANGED <<rows, graph, job, snap, hybrid, fallback, res>>

(* The index query: identifiers of chunks that are in the store. *)
Query(r) ==
  /\ pc[r] = "query"
  /\ \E found \in SUBSET Stored :
       /\ hits' = [hits EXCEPT ![r] = found]
       /\ Goto(r, IF found = {} THEN "runlock" ELSE "nodes")
  /\ UNCHANGED <<rows, graph, lock, job, snap, hybrid, fallback, res>>

(* Every search returns, on an error too, through the deferred unlocks.      *)
Return(r) ==
  /\ held' = [held EXCEPT ![r] = 0]
  /\ UNCHANGED writer
  /\ hybrid' = [hybrid EXCEPT ![r] = FALSE]
  /\ fallback' = [fallback EXCEPT ![r] = "no"]
  /\ hits' = [hits EXCEPT ![r] = {}]
  /\ res' = [res EXCEPT ![r] = [c \in Chunk |-> NoRow]]
  /\ Goto(r, "idle")

(* The Datalog query of a hybrid search fails: search again, the read lock   *)
(* still held.                                                               *)
FallBack(r) ==
  /\ FailingDb
  /\ pc[r] = "query"
  /\ hybrid[r] /\ fallback[r] = "no"
  /\ fallback' = [fallback EXCEPT ![r] = "vector"]
  /\ Goto(r, "rlock")
  /\ UNCHANGED <<rows, graph, lock, job, snap, hybrid, hits, res>>

SearchFails(r) ==
  /\ FailingDb
  /\ pc[r] \in {"query", "nodes", "params", "skills"}
  /\ pc[r] = "query" => ~hybrid[r] \/ fallback[r] # "no"
  /\ Return(r)
  /\ UNCHANGED <<rows, graph, job, snap>>

(* loadNodes, one query after the other. *)
LoadNodes(r) ==
  /\ pc[r] = "nodes"
  /\ res' = [res EXCEPT ![r] = [c \in Chunk |->
               IF c \in hits[r] THEN [NoRow EXCEPT !.node = nodes[c]] ELSE @[c]]]
  /\ Goto(r, "params")
  /\ UNCHANGED <<rows, graph, lock, job, snap, hybrid, fallback, hits>>

LoadParams(r) ==
  /\ pc[r] = "params"
  /\ res' = [res EXCEPT ![r] = [c \in Chunk |->
               IF c \in hits[r] THEN [@[c] EXCEPT !.params = params[c]] ELSE @[c]]]
  /\ Goto(r, "skills")
  /\ UNCHANGED <<rows, graph, lock, job, snap, hybrid, fallback, hits>>

LoadSkills(r) ==
  /\ pc[r] = "skills"
  /\ res' = [res EXCEPT ![r] = [c \in Chunk |->
               IF c \in hits[r] THEN [@[c] EXCEPT !.skills = skills[c]] ELSE @[c]]]
  /\ Goto(r, "runlock")
  /\ UNCHANGED <<rows, graph, lock, job, snap, hybrid, fallback, hits>>

(* The vector half of a fallback is followed by the keyword half; anything   *)
(* else is the end of the call.                                              *)
SearchReturns(r) ==
  /\ pc[r] = "runlock"
  /\ IF fallback[r] = "vector"
     THEN /\ RUnlock(r)
          /\ fallback' = [fallback EXCEPT ![r] = "keyword"]
          /\ hits' = [hits EXCEPT ![r] = {}]
          /\ Goto(r, "rlock")
          /\ UNCHANGED <<hybrid, res>>
     ELSE Return(r)
  /\ UNCHANGED <<rows, graph, job, snap>>

-----------------------------------------------------------------------------
WriterStep(w) ==
  \/ UpsertLocks(w) \/ PutNode(w) \/ ClearParams(w) \/ PutParam(w)
  \/ ClearSkills(w) \/ PutSkill(w) \/ UpsertReturns(w) \/ UpsertFails(w)
  \/ ScanLocks(w) \/ Scan(w) \/ EdgesLock(w) \/ PutEdges(w)

ReaderStep(r) ==
  \/ SearchLocks(r) \/ Query(r) \/ FallBack(r) \/ SearchFails(r)
  \/ LoadNodes(r) \/ LoadParams(r) \/ LoadSkills(r) \/ SearchReturns(r)

Next ==
  \/ \E w \in Writer : CallUpsert(w) \/ CallBuildEdges(w) \/ WriterStep(w)
  \/ \E r \in Reader : CallSearch(r) \/ ReaderStep(r)

Spec == Init /\ [][Next]_vars

-----------------------------------------------------------------------------
(* Properties. *)

Row(c) == [node |-> nodes[c], params |-> params[c], skills |-> skills[c]]

RowOf(v) ==
  IF v = 0 THEN NoRow
  ELSE [node |-> v, params |-> [i \in 1 .. ParamsOf[v] |-> v], skills |-> SkillsOf[v]]

(* A chunk that no Upsert is writing, and whose last Upsert did not fail, has *)
(* the parameters and skills of one version: a new version leaves none of    *)
(* the old one behind, and no two writers mix theirs.                        *)
RowsAreWhole ==
  \A c \in Chunk :
    c \notin broken /\ (\A w \in Writer : job[w].c # c) => Row(c) = RowOf(nodes[c])

Loaded(r) == {c \in Chunk : res[r][c] # NoRow}

(* What a search returns is one state of the store, over all its chunks and   *)
(* through both halves of a fallback, and no chunk in it is half-written      *)
(* unless its Upsert failed.                                                 *)
ResultIsSnapshot ==
  \A r \in Reader : pc[r] = "runlock" =>
    \A c \in Loaded(r) :
      /\ res[r][c] = Row(c)
      /\ c \notin broken => res[r][c] = RowOf(nodes[c])

Waiting(g) ==
  \/ pc[g] \in {"lock", "elock", "rlock"} /\ writer # Nobody
  \/ pc[g] \in {"wait", "ewait"} /\ ~Acquired(g)

Busy == {g \in Goroutine : pc[g] # "idle"}

(* As the program calls it, searching only when ingestion is over, the store  *)
(* never blocks for good.  Under callers that overlap there is one way for    *)
(* all of them to wait for each other: a search has fallen back and asks for  *)
(* the read lock again while a writer awaits its turn.                       *)
OnlyFallBackBlocks ==
  (Busy # {} /\ \A g \in Busy : Waiting(g)) =>
    /\ overlap
    /\ \E r \in Reader : pc[r] = "rlock" /\ held[r] = 1 /\ fallback[r] # "no"
=============================================================================
