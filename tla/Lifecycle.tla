----------------------------- MODULE Lifecycle ------------------------------
(***************************************************************************)
(* The life of a persisted index across runs of the program (main in        *)
(* cmd/legacylens/main.go and the start-up half of runServer).  A session   *)
(* opens the index file, counts its rows, ingests the repository or reuses  *)
(* what it found, and then answers queries.  Sessions share the file, may   *)
(* overlap, and may end at any point: log.Fatalf, an interrupt or a crash    *)
(* all leave the file as it is.  IngestRepo appears here with the grain of   *)
(* IngestSpec: row by row, in any order, and then the edges.                 *)
(*                                                                         *)
(* RunBenchmark (internal/rag/benchmark.go) has an index file of its own, and *)
(* ingests several times in a row before it queries.                         *)
(***************************************************************************)
EXTENDS Naturals, Sequences, Edges

CONSTANTS
  Session,      \* runs of the program over the life of the index
  ChunksOf,     \* ChunksOf[v]: the chunks of the files of version v of the repository
  Listed,       \* Listed[v]: the files IngestRepo lists in it, empty ones too
  Short,        \* the names of fewer than three letters
  GraphStore,   \* is the backend CozoDB, which keeps edges
  Runs          \* how often a benchmark ingests

Version == DOMAIN ChunksOf
Absent == 0
Ids(chunks) == {c.id : c \in chunks}
Id == UNION {Ids(ChunksOf[v]) : v \in Version}
Chunk == UNION {ChunksOf[v] : v \in Version}

(* The chunk a row of version v under identifier i was written from.         *)
ChunkAt(i, v) == CHOOSE c \in ChunksOf[v] : c.id = i

File == UNION {Listed[v] : v \in Version}
FileAt(f, v) == {c \in ChunksOf[v] : c.file = f}

(* An identifier is made from file, name and lines: chunks that share one are *)
(* of different versions; their texts and types may differ, though a document *)
(* stays one.                                                                *)
ASSUME LifecycleAssumption ==
  /\ GraphStore \in BOOLEAN
  /\ Runs \in Nat \ {0}
  /\ Len(ChunksOf) \in Nat \ {0} /\ Version = 1 .. Len(ChunksOf)
  /\ DOMAIN Listed = Version
  /\ \A c \in Chunk : c.file \in File
  /\ \A v, w \in Version : \A c \in ChunksOf[v], d \in ChunksOf[w] : c.id = d.id =>
       /\ v = w => c = d
       /\ <<c.file, c.name, c.start, c.end>> = <<d.file, d.name, d.start, d.end>>
       /\ c.t = "doc" <=> d.t = "doc"

VARIABLES
  repo,       \* the version of the repository on disk
  bench,      \* is the index file a benchmark's
  rows,       \* the index file: the version each row was written from
  edges,      \* the index file: the edges
  pc, mode, reindex,  \* per session: progress, what it was started for, the -reindex flag
  left,       \* the ingestions a benchmark has still to start
  unread,     \* the files its ingestion has still to read
  seen,       \* the version of each file its last ingestion read, or Absent
  todo,       \* the chunks it has still to store
  dropped,    \* the chunks that it dropped past its -t deadline
  snap,       \* the rows BuildEdges read
  own,        \* history: the rows that have not changed since its ingestion wrote them
  overlapped, \* history: the sessions whose last ingestion ran beside another's
  complete    \* history: the chunks of all ingestions that stored every chunk they read

session == <<mode, reindex, left>>
disk == <<rows, edges>>
plan == <<unread, seen, todo, dropped>>
history == <<own, overlapped, complete>>
vars == <<repo, bench, disk, pc, session, plan, snap, history>>

(* What a session may be started for, and with; a benchmark, which takes no   *)
(* notice of -reindex, is started without.                                   *)
Modes == IF bench THEN {"bench"} ELSE {"query", "server"}
Flags == IF bench THEN {FALSE} ELSE BOOLEAN
Relation == {"contains", "calls", "documents"}
NoRows == [i \in Id |-> Absent]
Nothing == [f \in File |-> Absent]

TypeOK ==
  /\ repo \in Version
  /\ bench \in BOOLEAN
  /\ rows \in [Id -> Version \cup {Absent}]
  /\ edges \in SUBSET (Id \X Id \X Relation)
  /\ pc \in [Session -> {"off", "count", "ingest", "edges", "put", "serve"}]
  /\ mode \in [Session -> {"query", "server", "bench"}]
  /\ reindex \in [Session -> BOOLEAN]
  /\ left \in [Session -> 0 .. Runs]
  /\ unread \in [Session -> SUBSET File]
  /\ seen \in [Session -> [File -> Version \cup {Absent}]]
  /\ todo \in [Session -> SUBSET Id]
  /\ dropped \in [Session -> SUBSET Id]
  /\ snap \in [Session -> [Id -> Version \cup {Absent}]]
  /\ own \in [Session -> SUBSET Id]
  /\ overlapped \in SUBSET Session
  /\ complete \in SUBSET Id

Init ==
  /\ repo = 1
  /\ bench \in BOOLEAN
  /\ rows = NoRows
  /\ edges = {}
  /\ pc = [s \in Session |-> "off"]
  /\ mode = [s \in Session |-> "query"]
  /\ reindex = [s \in Session |-> FALSE]
  /\ left = [s \in Session |-> 0]
  /\ unread = [s \in Session |-> {}]
  /\ seen = [s \in Session |-> Nothing]
  /\ todo = [s \in Session |-> {}]
  /\ dropped = [s \in Session |-> {}]
  /\ snap = [s \in Session |-> NoRows]
  /\ own = [s \in Session |-> {}]
  /\ overlapped = {}
  /\ complete = {}

Indexed == {i \in Id : rows[i] # Absent}

(* The chunks of the files a session has read, each in the version it read.  *)
Ingested(s) == UNION {FileAt(f, seen[s][f]) : f \in {f \in File : seen[s][f] # Absent}}

-----------------------------------------------------------------------------
(* Somebody edits the repository, under a running ingestion too.             *)
Edit ==
  /\ repo + 1 \in Version
  /\ repo' = repo + 1
  /\ UNCHANGED <<bench, disk, pc, session, plan, snap, history>>

(* mustStore and Init, or mustBenchStore: the DDL creates what is missing and *)
(* deletes nothing.                                                          *)
Launch(s) ==
  /\ pc[s] = "off"
  /\ \E m \in Modes, r \in Flags :
       /\ mode' = [mode EXCEPT ![s] = m]
       /\ reindex' = [reindex EXCEPT ![s] = r]
  /\ pc' = [pc EXCEPT ![s] = "count"]
  /\ left' = [left EXCEPT ![s] = IF bench THEN Runs ELSE 0]
  /\ UNCHANGED <<repo, bench, disk, plan, snap, history>>

(* A benchmark does not count; the server takes no notice of -reindex.       *)
MustIngest(s) ==
  \/ mode[s] = "bench"
  \/ Indexed = {}
  \/ mode[s] = "query" /\ reindex[s]

Beside(s) == {q \in Session \ {s} : pc[q] = "ingest"}

(* Fault: a benchmark stores again the chunks that it read the first time.    *)
IngestAgain(s) ==
  /\ pc[s] = "count"
  /\ MustIngest(s) /\ dropped[s] = {}
  /\ pc' = [pc EXCEPT ![s] = "ingest"]
  /\ left' = [left EXCEPT ![s] = IF @ = 0 THEN 0 ELSE @ - 1]
  /\ IF seen[s] = Nothing
       THEN unread' = [unread EXCEPT ![s] = Listed[repo]] /\ todo' = todo
       ELSE unread' = unread /\ todo' = [todo EXCEPT ![s] = Ids(Ingested(s))]
  /\ own' = [own EXCEPT ![s] = {}]
  /\ overlapped' =
       IF Beside(s) = {} THEN overlapped \ {s} ELSE overlapped \cup Beside(s) \cup {s}
  /\ UNCHANGED <<repo, bench, disk, mode, reindex, seen, dropped, snap, complete>>

(* IngestRepo lists the files, and fails if there are none.  A benchmark's     *)
(* next ingestion fails at its first file if its deadline has passed: then it *)
(* can only End.                                                             *)
Ingest(s) ==
  /\ pc[s] = "count"
  /\ MustIngest(s) /\ dropped[s] = {}
  /\ Listed[repo] # {}
  /\ pc' = [pc EXCEPT ![s] = "ingest"]
  /\ left' = [left EXCEPT ![s] = IF @ = 0 THEN 0 ELSE @ - 1]
  /\ unread' = [unread EXCEPT ![s] = Listed[repo]]
  /\ seen' = [seen EXCEPT ![s] = Nothing]
  /\ own' = [own EXCEPT ![s] = {}]
  /\ overlapped' =
       IF Beside(s) = {} THEN overlapped \ {s} ELSE overlapped \cup Beside(s) \cup {s}
  /\ UNCHANGED <<repo, bench, disk, mode, reindex, todo, dropped, snap, complete>>

Reuse(s) ==
  /\ pc[s] = "count"
  /\ ~MustIngest(s)
  /\ pc' = [pc EXCEPT ![s] = "serve"]
  /\ UNCHANGED <<repo, bench, disk, session, plan, snap, history>>

(* A file is read as it is by now, while chunks of the files before it are   *)
(* still queued.  One that is gone by now is an error: End.                  *)
ReadFile(s) ==
  /\ pc[s] = "ingest"
  /\ \E f \in unread[s] :
       /\ unread' = [unread EXCEPT ![s] = @ \ {f}]
       /\ seen' = [seen EXCEPT ![s][f] = repo]
       /\ todo' = [todo EXCEPT ![s] = @ \cup Ids(FileAt(f, repo))]
  /\ UNCHANGED <<repo, bench, disk, pc, session, dropped, snap, history>>

StoreRow(s) ==
  /\ pc[s] = "ingest"
  /\ \E c \in Ingested(s) :
       /\ c.id \in todo[s]
       /\ rows' = [rows EXCEPT ![c.id] = seen[s][c.file]]
       /\ todo' = [todo EXCEPT ![s] = @ \ {c.id}]
       /\ own' = [q \in Session |->
                    IF q = s THEN own[q] \cup {c.id}
                    ELSE IF rows[c.id] = seen[s][c.file] THEN own[q] ELSE own[q] \ {c.id}]
  /\ UNCHANGED <<repo, bench, edges, pc, session, unread, seen, dropped, snap, overlapped, complete>>

AfterIngest(s) == IF left[s] > 0 THEN "count" ELSE "serve"
AfterRows(s) == IF GraphStore THEN "edges" ELSE AfterIngest(s)

(* Fault: ingestion counts as done while chunks are still queued. *)
RowsSent(s) ==
  /\ pc[s] = "ingest"
  /\ unread[s] = {}
  /\ pc' = [pc EXCEPT ![s] = AfterRows(s)]
  /\ complete' = IF dropped[s] = {} THEN complete \cup Ids(Ingested(s)) ELSE complete
  /\ UNCHANGED <<repo, bench, disk, session, plan, snap, own, overlapped>>

RowsDone(s) ==
  /\ pc[s] = "ingest"
  /\ unread[s] = {} /\ todo[s] = {}
  /\ pc' = [pc EXCEPT ![s] = AfterRows(s)]
  /\ complete' = IF dropped[s] = {} THEN complete \cup Ids(Ingested(s)) ELSE complete
  /\ UNCHANGED <<repo, bench, disk, session, plan, snap, own, overlapped>>

(* The -t deadline passes after the last file was read: the workers drop what *)
(* is queued, and if its last chunk was sent IngestRepo returns no error.  A  *)
(* server ingests without a deadline.                                        *)
DropQueued(s) ==
  /\ pc[s] = "ingest"
  /\ mode[s] # "server"
  /\ unread[s] = {} /\ todo[s] # {}
  /\ dropped' = [dropped EXCEPT ![s] = @ \cup todo[s]]
  /\ todo' = [todo EXCEPT ![s] = {}]
  /\ UNCHANGED <<repo, bench, disk, pc, session, unread, seen, snap, history>>

(* BuildEdges reads the rows under one lock and writes what it extracts from  *)
(* them under another, past the deadline too; edges of an earlier ingestion   *)
(* stay.                                                                     *)
ReadForEdges(s) ==
  /\ pc[s] = "edges"
  /\ snap' = [snap EXCEPT ![s] = rows]
  /\ pc' = [pc EXCEPT ![s] = "put"]
  /\ UNCHANGED <<repo, bench, disk, session, plan, history>>

Read(s) == {ChunkAt(i, snap[s][i]) : i \in {i \in Id : snap[s][i] # Absent}}

PutEdges(s) ==
  /\ pc[s] = "put"
  /\ \E found \in EdgeSets(Read(s), Short) : edges' = edges \cup found
  /\ pc' = [pc EXCEPT ![s] = AfterIngest(s)]
  /\ snap' = [snap EXCEPT ![s] = NoRows]
  /\ UNCHANGED <<repo, bench, rows, session, plan, history>>

(* A session ends: its query is answered, the server is stopped, or an error *)
(* or a crash ends it earlier.  Nothing on disk is rolled back.              *)
End(s) ==
  /\ pc[s] # "off"
  /\ pc' = [pc EXCEPT ![s] = "off"]
  /\ mode' = [mode EXCEPT ![s] = "query"]
  /\ reindex' = [reindex EXCEPT ![s] = FALSE]
  /\ left' = [left EXCEPT ![s] = 0]
  /\ unread' = [unread EXCEPT ![s] = {}]
  /\ seen' = [seen EXCEPT ![s] = Nothing]
  /\ todo' = [todo EXCEPT ![s] = {}]
  /\ dropped' = [dropped EXCEPT ![s] = {}]
  /\ snap' = [snap EXCEPT ![s] = NoRows]
  /\ own' = [own EXCEPT ![s] = {}]
  /\ overlapped' = overlapped \ {s}
  /\ UNCHANGED <<repo, bench, disk, complete>>

Next ==
  \/ Edit
  \/ \E s \in Session :
       \/ Launch(s) \/ Ingest(s) \/ Reuse(s)
       \/ ReadFile(s) \/ StoreRow(s) \/ RowsDone(s) \/ DropQueued(s)
       \/ ReadForEdges(s) \/ PutEdges(s) \/ End(s)

Spec == Init /\ [][Next]_vars

-----------------------------------------------------------------------------
(* Properties. *)

(* Answering(s): queries of session s reach the index.  CozoDB answers past   *)
(* the deadline as before it; SQLite gives an error.                         *)
Answering(s) == pc[s] = "serve" /\ (dropped[s] # {} => GraphStore)

(* Has s ingested, or does it reuse what it found?                           *)
HasIngested(s) == seen[s] # Nothing

(* What s ingested and did not drop, and those of it that are still as s wrote *)
(* them.                                                                     *)
Stored(s) == {c \in Ingested(s) : c.id \notin dropped[s]}
Kept(s) == {c \in Stored(s) : c.id \in own[s]}

Code == {c \in Chunk : c.t # "doc"}
Named(n) == {c.id : c \in {c \in Code : c.name = n}}

(* The names s can have resolved in what it ingested.                        *)
Known(s) == {c.name : c \in Stored(s) \cap Code} \ {NoName}

(* The graph holds every relation among the rows a session ingested: what    *)
(* contains them, where their calls go, and which code their documents name. *)
(* Of two chunks with one name, one left over by an earlier version perhaps, *)
(* either may be the target.                                                 *)
GraphIsServed(s) ==
  /\ ContainmentEdges(Kept(s)) \subseteq edges
  /\ \A c \in Kept(s) \cap Code : \A n \in (c.calls \cap Known(s)) \ {c.name} :
       \E t \in Named(n) : <<c.id, t, "calls">> \in edges
  /\ \A d \in Kept(s) \ Code : \A n \in (d.mentions \cap Known(s)) \ Short :
       \E t \in Named(n) :
         {<<d.id, t, "documents">>, <<t, d.id, "documents">>} \subseteq edges

(* A session that ingested answers from an index that has every chunk it read *)
(* except those it dropped, whatever earlier sessions left behind and others  *)
(* are doing: as recent as it read them, unless its ingestion ran beside       *)
(* another, and with the edges of all that nobody has changed since.  One      *)
(* that reuses the index answers from some rows, and from every chunk that     *)
(* was read by an ingestion which was not cut short.                          *)
IngestedIsServed ==
  \A s \in Session : Answering(s) =>
    /\ \A c \in Stored(s) :
         /\ c.id \in Indexed
         /\ rows[c.id] >= seen[s][c.file] \/ s \in overlapped
    /\ GraphStore => GraphIsServed(s)
    /\ ~HasIngested(s) => Indexed # {} /\ complete \subseteq Indexed

(* However ingestions, edits, interruptions and restarts interleave, no row    *)
(* is ever lost, and an older version of a chunk goes over a newer one only    *)
(* where the ingestion that writes it ran beside another.                     *)
NoRegression ==
  [][\A i \in Id :
       /\ i \in Indexed => i \in Indexed'
       /\ rows'[i] < rows[i] => \E s \in overlapped : i \in todo[s] \ todo'[s]]_vars

(* The help text: -reindex forces re-ingestion even if an index exists.       *)
ReindexForcesIngestion ==
  \A s \in Session : Answering(s) /\ reindex[s] => HasIngested(s)
=============================================================================
