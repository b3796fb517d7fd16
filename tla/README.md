# Verification of LegacyLens

LegacyLens indexes a Fortran repository into a vector store and answers
questions about it, from the command line or over HTTP. This directory holds
TLA+ specifications of its core, the TLC configurations that check them on small
instances, and TLAPS proofs for instances of any size. Paths below are relative
to the repository; `rag/` stands for `internal/rag/` and `main.go` for
`cmd/legacylens/main.go`.

Run a check with `tlc -config X.cfg MCx`, a proof with `tlapm XProofs.tla`.

## 1. Inventory

| Part | Code | State | Operations | Uses |
|---|---|---|---|---|
| Command line | `main.go` | flags, the deadline `-t` | count, ingest or reuse, query, print | pipeline, stores, engine |
| HTTP server | `main.go` (`runServer`) | `serverState`: loaded backends, the active one, a mutex; the shutdown channel | load, `/health`, `/api/switch`, `/api/search`, `/api/explain`, `/api/eval`, shut down on a signal | stores, engine |
| Web page | `static/index.html` | query box, mode, results shown | fetch and show answers, switch backend | server, over HTTP |
| Ingestion pipeline | `rag/pipeline.go` | channel of chunks, error channel, wait group | `IngestRepo` | chunkers, embedder, a store |
| Fortran chunker | `rag/chunker.go` | stack of open program units | `ChunkFile` | |
| Markdown chunker | `rag/chunker_md.go` | current section | `ChunkFile` | |
| Embedders | `rag/embedder*.go` | cache files, a mutex | `Embed` | an HTTP service or an ONNX runtime |
| CozoDB store | `rag/store_cozo.go` | relations `nodes`, `node_params`, `node_skills`, `edges`; an `RWMutex` | `Upsert`, `BuildEdges`, three searches, `Count`, `Close` | edges, fusion |
| SQLite store | `rag/store_sqlite.go` | table `chunks`, its full-text index; an `RWMutex` | `Upsert`, three searches, doc merging | fusion |
| Graph edges | `rag/edges.go` | none | name index, containment, call and documentation edges | |
| Rank fusion, query classes | `rag/rrf.go`, `rag/query_classify.go` | none | fuse two rankings, boost docs | |
| Engine, explanations, LLM | `rag/explain.go`, `rag/llm.go` | none | `Query`, `Explain`, one HTTP request | store, embedder, LLM service |
| Evaluation, benchmark | `rag/relevance.go`, `rag/benchmark.go` | reports | run query sets, percentiles | engine, pipeline |

Interactions. `main` opens a store, counts its rows and calls `IngestRepo` on an
empty one. `IngestRepo` is a producer, which reads and chunks files, and worker
goroutines, which embed and upsert what arrives on a bounded channel; workers
report errors on a second channel of capacity one and both watch the caller's
context. A store guards its rows with an `RWMutex`. All workers share one
embedder, all processes share the cache directory and the index file. Server
handlers run concurrently, each with the backend it found active when it
started; a goroutine that waits for SIGINT or SIGTERM drains them and closes the
stores.

What is hard about it: the producer's four-way `select` and the workers that
disappear on their first error; results that are decided before the workers have
ended; a context that expires between the last send and the last upsert; an
index that survives a crash in the middle of ingestion and is recognised by its
row count; handlers that outlive the stores they read; a read lock taken
recursively; files that are truncated before they are written; a stack that is
popped by any `end`. `PROJECT.json` lists these hazards at their lines.

What makes each part correct, in one sentence:

* Pipeline: it returns, whatever fails; what it counts is stored; a failure is
  reported; after it has returned nobody touches the store.
* Lifecycle: a session that ingested answers from what it ingested.
* Server: an answer is labelled with the backend it came from, no handler is cut
  off within the grace period, a signal ends the process with its stores closed.
* Embedding cache: it never returns part of a vector, and what is in it stays.
* CozoDB store: rows are of one version, a search sees one state, calls return.
* Listing and chunkers: each content is read once; each unit and each section is
  cut into its own lines, no file disappears, identifiers do not collide.
* Fusion and search: the k best of both rankings, equals in any order; bounds hold.
* Graph: it has every relation among the rows that were ingested.
* Evaluation: a result is counted for one judgment at most.
* Page: what is shown comes from one answer and is labelled with it; no control
  stays disabled.

## 2. Modules

| Module | Stands for | Abstracted |
|---|---|---|
| `IngestSpec` | what `IngestRepo` promises its caller | goroutines, channels |
| `Pipeline` | `NewPipeline` and `IngestRepo` | chunks are numbered in the order they are sent; listing and deduplicating files is an input; the backpressure timer may run out whenever the producer waits |
| `PipelineProofs`, `LifecycleProofs`, `ServerProofs`, `PageProofs`, `EmbedCacheProofs`, `CozoStoreProofs` | the theorems about the module they are named for | |
| `HybridSearchProofs` | the theorems about `HybridSearch` and `Relevance` | |
| `FilesProofs` | the theorems about `Chunker`, `MdChunker`, `Listing` and `Files` | |
| `Edges` | `edges.go` and the calls to it in `CozoStore.BuildEdges` | which names a chunk's text calls or mentions is part of the chunk |
| `Lifecycle` | `main`, the start-up of `runServer` and the ingestions of `RunBenchmark` over a persisted index, several sessions; composes with `Edges` | ingestion has the grain of `IngestSpec`; a row is the version it was written from |
| `Server` | `runServer` after its flags, `QueryEngine.Explain`, `GrokClient.Complete` | request bodies and JSON; a search is a read of the captured store, a completion is its end |
| `Page` | the script of `static/index.html`, in front of a server that others use | rendering; a question is the box and the mode together |
| `EmbedCache` | `CachedEmbedder` around `HTTPEmbedder` | a vector is the model that made it, or the zero vector; a file is absent, torn or a vector |
| `CozoStore` | `CozoStore`'s lock and statements | a row is the version it was put from; which rows an index query matches is a choice |
| `HybridSearch` | `SQLiteStore.HybridSearch`, the fallback of `CozoStore.HybridSearch`, `FuseRRF`, `applyDocBoost`, `mergeDocResults` | a ranking is any order of some of the rows; a row is a version; the class of the query is an input |
| `Relevance` | `scoreQuery`, on the results of `HybridSearch` | a judgment is the set of chunks it accepts |
| `Chunker` | `FortranChunker.ChunkFile` | a line is what the regular expressions make of it |
| `MdChunker` | `MarkdownChunker.ChunkFile` | a line is a heading of either level, a fence or text |
| `Listing` | `listFortranFiles`, `listMarkdownFiles`, `dedupFiles` | a path is its place in the walk and its length |
| `Files` | composes `Listing`, the two chunkers and `Edges` | |

Each `MCx` module extends module `x` with the constants of its runs; it replaces
no definition.

### Pipeline

`pc`, `file`, `count`, `ret` are the producer's place in `IngestRepo`, the index
in `files`, and the two results; `ret` is the *kind* of error. `ch` and `closed`
are the job channel, `errCh` the number of errors in the error channel,
`wpc[w]` and `hand[w]` a worker's place and the job it holds. `db` has a row per
chunk: absent, `old` (of an earlier ingestion), `partial` (a failed upsert of a
graph store), or `stored`. The arms of the producer's `select` are `SendChunk`,
`SendCancelled`, `SendSeesError` and `SendTimesOut`, free to be chosen whenever
they are ready, as in Go; `SendTimesOut` may be chosen with a slot free too, since
the timer may run out before the producer is scheduled again. The deferred or sequential clean-up
(`close(jobs)`, `wg.Wait()`) is `Wait`, and the poll of `errCh` after it is
`LateError` or `NoError`. The bound on all counters is `Total`, the number of
chunks of the repository.

### Lifecycle

Sessions share `rows` and `edges`, the index file. `MustIngest` is the decision
in `main` (count zero, or `-reindex`), in `runServer` (count zero only) and in
`RunBenchmark` (always). `Ingest` lists the files of the repository as it is by
then, and fails if there are none. `ReadFile` reads one of them as it is when its
turn comes, while chunks of the files before it are upserted (`StoreRow`). `Edit`
changes the repository at any time, also between two files of one ingestion, so
`seen` has a version per file, and sessions that overlap may upsert different
versions in any order. `End` may happen at any point: the process was killed, or
`log.Fatalf`, or it was done; nothing is rolled back.

`DropQueued` is the deadline of `-t` after the last send: the workers drop what is
queued, and `IngestRepo` builds the edges and returns no error. A query with CozoDB
then answers, since none of its searches looks at the context, and with SQLite gets
an error (`Answering`). A server ingests with `context.Background()`, without a
deadline.

`bench` says whether the file is the one of a benchmark, which `mustBenchStore`
keeps apart from that of the other modes: the sessions are then benchmarks, each
with `Runs` ingestions before it queries (`left`, `AfterIngest`). One whose
deadline has passed gets no further than the first file of its next ingestion.

`ReadForEdges` and `PutEdges` are the two locked halves of `BuildEdges`; between
them others may ingest. What is put is one of `EdgeSets` of the rows that were
read: the name index depends on the order in which the database returns them.

Three variables are history, which no action looks at: `own`, the rows that are as
the session's ingestion wrote them; `overlapped`, the sessions whose last ingestion
ran while another's did; `complete`, the chunks of the ingestions that stored all
they read. The properties need them to say whom they bind.

### Edges

Pure operators over a set of chunks. `NameIndexes` is the set of all indexes some
order of the rows leads to; `ContainmentEdges`, `CallEdges` and `DocEdges` are the
three extractions. `Lifecycle` uses them on chunks that are given, `Files` on the
chunks `Chunker` makes.

### Server

`main` is the goroutine of `runServer`, `sig` the one that waits for the signal,
`hpc[r]` the handler of request `r`. `Current` is `state.current()`: after it the
handler uses `cur[r]` only. An evaluation goes back to its store for every query
of its set, an explanation goes on to the language model (`After`). `expired[r]`
is `WriteTimeout`: a handler that takes longer writes to a connection that is
closed. The model's client gives up after the same 60 seconds, counted from
later, so that a template in place of a timed-out completion is never sent
(`Complete`). A signal that comes before `signal.Notify` kills the process; a
further signal is left out, since the channel takes it and nobody reads it. A search may fail on an
open store too (`EndRead`).
`Ended` allows the finished process, and the server nobody stops, to stutter.

### Page

`input`, `busy`, `select`, `status`, `shown` are what the user sees; `known` and
`switchable` the script's `serverBackend` and `switchable`. Each request (`health`,
`switch`, `ask[i]`) is sent, then handled by the server, which is no more than its
`active` backend here, then answered; it may fail before or after it was handled
(`HealthFails`, `SwitchFails`, `AskFails`). `Elsewhere` is another page that
switches the server; `astray` records that, and a lost answer to a switch, for the
property to except. The branch of `SwitchBackend` for a value that is the known
one is there because the code has it; the drop-down never gets there.

### EmbedCache

`Load` reads the file without the mutex, `Lock`, `Truncate` and `Write` are the
mutex and the two halves of `os.WriteFile`; another process may read, write or
be killed between any two of them (`Stop`). A failed request is the zero vector,
which is cached like any other.

### CozoStore

`writer` and `held` are the `RWMutex`: a writer announces itself, which keeps new
readers out, and then waits for the readers that are in. Each statement of
`Upsert` is a step, since a failure leaves those before it. `overlap`, chosen at
the start, says whether searches and ingestion overlap in time: in this program
they never do.

### HybridSearch

`vec`, `key` and `docs` are the lists of the three reads, each atomic under its
read lock, with `Upsert`s of other goroutines or processes between them. CozoDB's
approximate index may leave rows out of `vec`. `Sorted`
is the cut ranking of `FuseRRF`, in any order among equal scores, since the code
collects them from a map and sorts them without stability. Scores are integers: a
common multiple of 61, 62, ... in place of 1. `outcome = "panic"` is a slice with
a negative bound. `Relevance` scores the result against judgments: `Hits` is the
greedy loop of `scoreQuery`.

### Chunker

`src` is the file as classified so far and `joining` whether the line just read
ended with `&`. `OpenUnit`, `EndUnit`, `Declare`, `OtherLine` are the branches of
the loop; `glued` lines are ends such as `endsubroutine`, which the regular
expression would accept and the prefix test before it does not. `Split` cuts a
unit into parts of `MaxLines`.

### MdChunker, Listing, Files

`MdChunks` gives the chunks of a document as pairs of lines, `Jobs` the files
`IngestRepo` reads. Both are pure; `Files` applies them to every document and
every tree, which grow by a line or a file at a time. A behaviour of `Files` is of
one tree, one document or one Fortran file: the three stages share no state.
`Row` turns the chunks of `Chunker` into rows for `Edges`, so that containment, which
the code finds from line ranges, can be compared with the nesting its stack saw.

## 3. Runs

| Run | Instance | States | What it shows |
|---|---|---|---|
| `pipeline` | 2 workers, queue of 1, files with 1, 0 and 3 chunks, a graph store, any earlier index | 161,753 | the safety properties, the inductive invariant (which contains the type invariant), the refinement of `IngestSpec`, and that the call returns |
| `lifecycle` | 2 sessions, or 2 benchmarks of 2 ingestions; 2 versions of the repository: a module with a routine and an empty file, to which the routine moves | 1,700,727 | what a session that answers finds, with its graph; which rows may go back |
| `server` | 2 requests of any kind, 2 backends and a name that is not loaded | 40,112 | labels, closing, clean exit, a signal ends |
| `embed_cache` | 2 processes with 2 goroutines, 1 text, a faulty disk | 36,588 | no torn vector, what is settled stays and is what calls get, calls return |
| `cozo_store` | 2 writers, 1 reader, 2 chunks of 2 versions, failing statements, with and without overlap | 2,023,516 | whole rows, snapshots, and the only deadlock |
| `hybrid_search` | 2 chunks of code and a document in 2 versions, k from -1 to 2, both stores, both classes of query; 1 or 2 judgments | 277,119 | newest rows, both beats one, a ranking, when it panics, hits are pairs |
| `files` | every tree of up to 4 files of 2 contents; every Fortran file of up to 6 lines, limit of 2 lines, 2 unit types; every document of up to 6 lines, limit of 2 | 252,025 | listing, pairs, tiling, identifiers, declarations, containment |
| `page` | 2 questions, 2 requests under way, 2 backends, of which any may be loaded | 61,216 | labels, the known backend, controls come back |

Why these bounds are enough. The pipeline's interesting states need a full
channel, both workers busy, and one more chunk to send: four chunks, two
workers and one slot; a second file that yields nothing exercises the empty
inner loop, and reading may fail at any of the three. A third worker adds no
new kind of state, and the proofs cover it. Lifecycle faults need one session
that left something behind and one that finds it. A label can be wrong with one
request that reads and one that switches. A torn file needs a writer and a
reader in two processes; one text is enough, because texts share only the mutex,
and so is one model, because it differs from the zero vector a failed request
gives. The store needs two writers to mix rows, a reader between them, and two
chunks for a result that spans two states; the second version of a chunk has
lost the parameter and the skill of the first, so that a forgotten deletion
shows. A graph needs containment, a call, and a row left over from another version
that has the name of a new one: one module, one routine in two places. Two files
are read in either order, before and after an edit. Documents and names too short
to count are left to the proof and, their extraction, to `Edges`. Two judgments are the fewest that a result
can be torn between. On the page two answers can pass each other, and a switch
both. Three chunks give every relation two lists can have (in both, in one, in
none, in either order), and k of 1 and 2 cut them. Six lines hold two nested units with a declaration and a stray end,
and a unit of three parts; or a frontmatter, a long section with an introduction
and two subsections. Four files hold three of one content, of which two are
equally short, and one that is not Fortran between them.

Symmetry is used in `lifecycle` (sessions), `cozo_store` (writers, readers,
chunks) and `hybrid_search` (chunks of code), whose properties are invariants or, for `NoRegression`, a predicate on
single steps, and name no element of these sets. No run with a liveness property
uses it. Deadlock is checked everywhere except in `cozo_store`: with overlapping
callers the store really can deadlock, and `OnlyFallBackBlocks` says in which
single way.

### Fairness

* `Pipeline!FairSpec`: the producer and each worker keep running. `Embed` and
  `Upsert` return, because the HTTP client has a timeout and SQLite a busy
  timeout. The caller need not cancel, and no deadline need pass.
* `Server!Spec`: `runServer`, the shutdown goroutine, and the timer of the
  ten-second grace period. Handlers are under no obligation.
* `EmbedCache!Spec`: a call goes on while its process lives; `sync.Mutex` serves
  waiters in turn after a millisecond (its starvation mode), hence strong
  fairness for `Lock`.
* `Page!Spec`: a browser answers or fails every request in the end, since a
  connection that is gone is an error. The user and the server are under no
  obligation.

### Properties worth a note

* `NeverAbandoned` is why the producer cannot block for good although workers
  leave at their first error; `IngestReturns` is its liveness half.
* `CountedAreStored` (and `SuccessMeansStored`, which is proved) hold under a live
  context only. The refinement `ImplementsIngest` states the same escape
  abstractly.
* `IngestedIsServed` is about every session that answers, though others ingest
  different versions beside it, die in the middle and leave rows behind, and though
  its own deadline has passed. Every chunk it read is there, except those it dropped
  past the deadline. It is as recent as the session read it, unless another ran
  beside it and had read an older file: then whoever upserts last wins, as nothing in
  the code compares versions. The edges are asked of the rows nobody else has
  written since; the relations are recomputed without an index. Of two rows with one
  name either may be the target of a call, for the code takes the last of an
  unordered list. Old rows and edges do not go, and the property does not say so.
* A session that reuses the index has some rows, and has every chunk of each
  ingestion that was not cut short. It does *not* have the rest of one that was:
  whoever comes after an interrupted first run takes its part for the whole.
* `NoRegression` names the only way back: a row goes to an older version in the
  step of a session that ran beside another. Without the exception the run finds
  such a step.
* `CachedStays`: a text is settled when its file is whole and no miss for it is still
  under way. That it remains so rests on the lookup: whoever calls later finds the
  file, and so neither computes nor writes, even if the vector is of another model or
  all zeroes. While two misses are under way the file may still change (see the
  findings).
* `RowsAreWhole` excepts chunks whose last `Upsert` failed: there the mix of versions
  stays until the next one. `ResultIsSnapshot` rests on the lock, which is of one
  process; another that writes the same file may come between the queries of a search.
* `UnitsAreMatchedPairs` compares the stack with a definition that counts openings
  and ends, without a stack, and says that a file without pairs is one chunk. Lines
  are counted as they are after joining: an `end` that a `&`
  swallows is no end to the code, nor to the property.
* `NoReadAfterClose` and `LabelIsSource` cover switches too: a handler's store is
  loaded and stays its own.
* `OnlyFallBackBlocks`: `HybridSearch` falls back on `VectorSearch` and
  `KeywordSearch` while it holds the read lock they take again. A writer that
  announces itself in between blocks both for good. The program does not write
  while it searches, and the property says that then nothing blocks.
* `ContainmentIsNesting` is what holds of containment, `NestedIsContained` what is
  written of it (see the findings).
* `SectionsTile` names the lines of a document that are in no chunk: those before
  the first heading, and those between the heading of a long section and its first
  subsection.
* `HitsArePairs` compares the greedy loop with the best pairing: it may lose half
  of that, never more.
* `LabelIsShown` does not say that the answer to the last question is shown. It is
  not: of two answers the one that arrives last is. But its label is its own.
* `BothBeatOne` holds as long as 2/(60+n) > 1/61 for lists of n, which a k of up
  to 20 ensures; beyond that a chunk found by one half only may come first.
* `PanicsOnNegativeK`: every function replaces a k that is not positive, except
  `mergeDocResults`. A request to the server sets positive values
  only; the `-k` flag takes any.

## 4. Findings

Runs that expect a violation show where the code departs from what is written
about it.

* `lifecycle_reindex_server`: `-reindex` is ignored by the server.
* `embed_cache_reproducible`: two misses for one text may return different
  vectors, one of them zeroes, and either may be kept.
* `chunker_glued_end`: `endsubroutine` closes nothing, although the expression for
  ends is written to accept it.

* `files_contains_split`: a module longer than the limit is stored in parts, and a
  routine in it that crosses from one part to the next, or starts a part, has no
  containment edge.

Seen while modelling, and not contradicted by a document:

* if the deadline passes after the last chunk was sent, the workers drop what is
  queued, and `IngestRepo` returns the full count and no error; CozoDB answers the
  query from what there is;
* an interrupted or failed first run leaves rows that every later run takes for the
  index, because the count is all that is looked at;
* of two processes that ingest side by side while files change, the one that upserts
  last wins, with the older text perhaps;
* re-ingestion deletes neither the rows nor the edges of chunks that have gone, and
  a call may resolve to such a row, by its name;
* the cache key is the text alone, whatever the model;
* a page does not learn that another page has switched the server: it cannot switch
  to the backend it believes active, until it is loaded anew;
* with two questions under way the first answer enables the button and stops the
  spinner of both;
* a completion that times out is replaced by a template that comes too late for the
  server's `WriteTimeout`;
* the introduction of a long section of a document is in no chunk.

## 5. Proofs

Each proof module has one inductive invariant, a lemma for each of its conjuncts
with one step per action of `Next`, and theorems that read the properties off it.
None of the properties is inductive by itself; what the invariants add is what
the code relies on without saying so. All theorems hold for every value of the
constants that satisfies the module's named assumption; TLC evaluates the
assumptions in the runs.

| Module | Invariant | Theorems |
|---|---|---|
| `PipelineProofs` | `IInv` | type, `OneHolder`, `NeverAbandoned`, `CountedAreStored`, `SuccessMeansStored`, `FailureReported`, `EdgesCoverIndex`, `QuietAfterReturn`, `Refinement` |
| `LifecycleProofs` | `LInv` | type, `IngestedIsServed`, `NoRegression` |
| `ServerProofs` | `SInv` | type, `LabelIsSource`, `NoReadAfterClose`, `CleanExit` |
| `PageProofs` | `PInv` | type, `LabelIsShown`, `KnowsBackend` |
| `EmbedCacheProofs` | `CInv` | type, `NeverServesTorn`, `CachedStays` |
| `CozoStoreProofs` | `CInv` | type, `RowsAreWhole`, `ResultIsSnapshot`, `OnlyFallBackBlocks` |
| `HybridSearchProofs` | `IInv` | type, `NewestRead`, `BothBeatOne`, `ResultIsRanking`, `PanicsOnNegativeK`, `HitsArePairs` |
| `FilesProofs` | `CInv`, `TreeInv`, `MdInv` | type of the chunker, `UnitsAreMatchedPairs`, `PartsTile`, `IdsAreDistinct`, `DeclsAreInnermost`, `ContainmentIsNesting`, `EachIsReadOnce`, `SectionsTile` |

### The pipeline

`PipelineProofs` is about any number of workers, queue size and sequence of
files, with or without edges, from the assumptions `ConfigAssumption` and
`FilesAssumption`. `QuietAfterReturnAlways` is an action property, `Refinement`
is `Spec => ImplementsIngest`.

`IInv` has one conjunct per concern:

* `PositionInv`: the counter of chunks agrees with the place in the files, so that
  a nil error is the full count;
* `ControlInv`: while chunks are sent the channel is open and nothing is decided;
  after the wait all workers have ended;
* `WorkerInv`: why a worker stands where it stands; above all, a worker that
  *failed* has left its error in `errCh`, or the result is decided already;
* `QueueInv`: the channel is a window on the numbering, so that a chunk is in at
  most one place;
* `DeliveryInv`: what was received is stored or in a hand, as long as nothing
  failed and the context lives;
* `GraphInv`: edges are of rows that exist.

Each conjunct has a lemma (`TypeStep`, `PositionStep`, ...) with one step per
action of `Next`; `WindowSend` and `WindowReceive` are the two facts about
sequences, stated once. `Refinement` maps a step to a step of `IngestSpec` or to
a stutter: `Cancel` to `Expire`, `Upsert` to `StoreRow`, `UpsertFails` to
`RefuseRow`, and the step that reaches `returned` to `Return`; a result that is
chosen before `wg.Wait` is hidden by the mapping until then.

`TypeOK` and `SuccessMeansStored` are not properties of the run: `IInv`,
which it checks, contains the one and implies the other.

### The life of an index

`LInv` follows a chunk from the file a session reads to its edges, whatever others
do and whenever the files change:

* `RowInv`: a row, and what `BuildEdges` has read of it, is of a version that exists
  and has the chunk; the chunks of complete ingestions are in the index;
* `PlaceInvOf`: what the place of a session says of its files and chunks: none is read
  twice, nothing is to be stored after `RowsDone`, who reused the index found rows;
* `StoredInvOf`: what a session has read and neither has still to store nor dropped
  is in the index, and in what was read for the edges; what is its own is of the
  version it read;
* `OrderInvOf`: an ingestion that ran alone finds rows no newer than what it reads, and
  leaves none older; whoever ingests after it reads files at least as new. That is why
  the exception of `NoRegression` is the only one;
* `GraphInvOf`: once the edges are put, the rows that are the session's own are served.

`OrderStays` and `StoreRowStep` carry the order; `Growth` concludes that rows are not
lost, and go back under an overlapped session only. A row that is still the
session's own was so when `BuildEdges` read (`PutServes`). `ExtractServes` shows that
the edges of a set of chunks serve every part of it whatever name index was built; it
needs that a name of what the session stored is still in the index under whichever
row has taken the identifier (`SameId`), which is why `LifecycleAssumption` says that
chunks of one identifier have one name and that a document stays one.

### The server

`SInv`, from `ServerAssumption`: while backends load nothing else runs
(`LoadInv`); afterwards the active one is loaded (`ActiveInv`); stores are closed
after the drain only, and handlers go on into it only if the grace period ran
out (`ClosingInv`); what a handler has captured is loaded, and what it read is
from there (`HandlerInv`).

### The page

`PInv` needs no assumption: answers on their way carry what the server said
(`ReqInv`, `HealthInv`, `AskInv`), and while a switch is under way the drop-down
is disabled, so that there is no second one to be answered out of order
(`SwitchInv`).

### The cache

`CInv` of `EmbedCacheProofs` adds `VecInv`, that a goroutine past its computation
has a vector, from `CacheAssumption` and for a disk that fails or does not.
`CachedStaysAlways` goes through the actions once more: a goroutine gets into a miss
by `Load` alone, and `Load` of a settled text is a hit. The theorems are about
`Safety`, without fairness.

### The CozoDB store

`CInv` of `CozoStoreProofs`, from `StoreAssumption`: a writer that is inside is
alone (`WriterInv`), a search holds one read lock, and a second after a fallback
(`ReaderInv`), calls overlap only if they may (`OverlapInv`), an `Upsert` has
written the relations up to where it stands (`StageInv`), chunks nobody has begun
to overwrite are whole (`WholeInv`), and what a search has loaded is in the store
(`ReadInv`). `Alone` is the point: rows change only under a writer that is inside,
and then no search is reading. `OnlyFallBackBlocks` follows by asking who keeps
whom waiting.

### The hybrid search

`IInv` of `HybridSearchProofs` follows the lists through the stages of a search,
for any finite set of chunks, any `k` and any number of versions, from
`SearchAssumption`:

* `Stage`: which lists are still empty; a merge panics with a negative `k` and
  documents to merge only;
* `Distinct`, `NotAhead`, `NotNewer`: neither half lists a chunk twice or ahead of
  the table, and a row of the second half is at least as new as the first half's
  of the same chunk, for the first read came before it. `FuseRRF` keeps the row of
  the *last* list that has a chunk, and that is why it shows the newest;
* `Ranked`: what `FuseRRF` and `applyDocBoost` return has every chunk once, its
  newest row, and leaves something out only for want of room. It is what the two
  of them and the merge have to preserve in turn, and it implies `NewestRead` and
  `ResultIsRanking` once the documents are in (`WithDocs`).

`BothBeatOne` is arithmetic: `UnitFacts` shows that the common multiple is one,
`BothOutweighOne` that two shares weigh more than one in lists of up to 61
entries, and `FuseResults` that the cut respects the weights. The assumption says
that there is at least one version of a row (`LastVersion` is not 0). That is
needed: without it a row could be stored from the start in a version that does
not exist.

`ScoresPairs` is about any results and judgments a search can end with.
`PairedWith` is the invariant of the loop of `scoreQuery`: the judgments met so
far are paired with as many results, and any other result meets only judgments
that are met. A best pairing can therefore be charged to the loop's, each of whose
pairs pays for two at most.

### Files

`FilesProofs` is about files, documents and trees of any length.

`CInv`, from `ChunkerAssumption`, is the invariant of the loop of `ChunkFile`. The
properties speak of finished units and of lines; the invariant relates both to the
stack:

* `Shapes`: every entry of `units` is the split of one unit, or the whole file and
  then alone;
* `Opened`: an open unit has as many openings too many since its own as there are
  units above it on the stack. It is what makes the stack agree with `Depth`,
  the count that `UnitsAreMatchedPairs` is defined by;
* `Balanced`: each unit that was closed is a matched pair, and every opening is on
  the stack or closed;
* `Laminar`: closed units are nested or apart, in the order in which they end, and
  none has a line in common with the opening of a unit still open;
* `Declared`: a declaration on the stack is within its unit and in no routine
  inside it, open or closed.

It has been checked by TLC on the instance of `files` before it was proved. The
run does not list it, since the properties follow from it; nor `TypeOK` of
`Chunker`, which is its first conjunct.

`ContainmentIsNesting` needs more than the invariant: an edge is drawn from one
part of a unit to one part of another by their line ranges. `EdgesOfNested` shows
that then the units are nested the same way. Were it the other way round, the
enclosed part would not be the last of its unit and so have `MaxLines` lines, and
it starts below the first of the at most `MaxLines` lines of the other.

`TreeInv` says that the files of a tree are numbered as they are walked. `KeepsBest`
and `SeesBest` are the invariants of `dedupFiles`' loop: what is kept of a content
so far is its shortest path, the first of equals (`BestIsShortest`). `MdInv` types
a document. `MdChunksFacts` and `IntroFacts` say which lines the sections and the
introductions take, and `SectionsTile` follows by asking, for a line, which
heading it stands under; from `MdAssumption`.

### Induction

The provers cannot be given an induction theorem that takes a predicate. Both
modules above therefore go by the least number of a set (`LeastNumber`, from the
well-foundedness of < on the naturals) and have induction in the form `UpTo`: a
set that has 0, and n + 1 with n, has all numbers. So it is enough to name the
set. That a recursive function is what its equation says (`ProductDef`,
`ScoredDef`, `SeenInDef`) is shown with the set of those n up to which it has a
solution, and that a finite set of places has a list in their order
(`OrderExists`) likewise. The lemmas on numbers and orders are the same in both
modules.

### Not proved

Every invariant, action property and refinement of a run that passes is stated by a
theorem. What the runs alone show is liveness (`IngestReturns`, `SignalEnds`,
`PageSettles`, `EmbedReturns`): the prover has no reasoning about `ENABLED`, and
so none about fairness. The properties of the runs that expect a violation are
false.

## 6. Plan

Written, in this order: `IngestSpec`, `Pipeline`, its proofs, `Lifecycle`,
`Server`, `EmbedCache`, `CozoStore`, `Chunker`, `HybridSearch`; then `Edges` and
its composition with `Lifecycle`, `MdChunker`, `Listing`, `Files`, `Page`,
`Relevance`, and explanations in `Server`; then the proofs, of the components that
run concurrently first, and of the search, the scoring and the files last.

To come: that nobody is stuck for good, stated without `ENABLED` by the guards of the
actions. For `Pipeline`, that until the call returns the producer or a worker has
a step to take; for `CozoStore`, that of callers that do not overlap one always
has. `NeverAbandoned` and `OnlyFallBackBlocks` are the parts of this that are proved.

## 7. Not modelled

* Feature hashing in `HashEmbedder` and the ONNX wrapper `FastEmbedder` are numeric
  and keep no state between calls.
* Text: `frontmatter.go`, the descriptions and skills the chunkers extract, prompts,
  templates and citations, reports, and the page's rendering. What the regular
  expressions of `chunker.go`, `edges.go` and `query_classify.go` match is an input
  of the models: a line, a call, the class of a query.
* What SQLite's and CozoDB's index queries match, and their scores, is theirs: the
  models let them return any stored rows. So is the encoding of rows.
* The HTTP framing of requests is `net/http`'s.
* The statistics of `benchmark.go` and the averages of `relevance.go` are one-line
  arithmetic in floating point, over numbers no other part depends on.
* `NewPipeline`'s and the stores' constructors appear through the defaults they
  give; flag parsing and printing in `main.go` do not appear.
