------------------------------ MODULE Pipeline ------------------------------
(***************************************************************************)
(* One call of Pipeline.IngestRepo (internal/rag/pipeline.go): a producer   *)
(* reads the repository's files in order, cuts each into chunks and sends  *)
(* them on a bounded channel; workers take them off, embed them and upsert *)
(* them into the store.  A first failing worker reports on a channel of    *)
(* capacity one; the context may expire at any moment.                     *)
(*                                                                         *)
(* The chunks of a run are numbered in the order the producer sends them,  *)
(* so that file f holds the chunks between LastChunk[f-1] (exclusive) and  *)
(* LastChunk[f], and the program's own counter of sent chunks tells which  *)
(* ones have been sent: 1 .. count.                                        *)
(***************************************************************************)
EXTENDS Integers, Sequences

CONSTANTS
  CfgWorkers,     \* PipelineConfig.Workers as the caller wrote it
  CfgQueueSize,   \* PipelineConfig.QueueSize as the caller wrote it
  LastChunk,      \* LastChunk[f]: number of chunks in files 1..f
  EdgeStore       \* does the store implement EdgeStore (CozoDB does)

ASSUME ConfigAssumption ==
  /\ CfgWorkers \in Int
  /\ CfgQueueSize \in Int
  /\ EdgeStore \in BOOLEAN

ASSUME FilesAssumption ==
  /\ LastChunk \in Seq(Nat)
  /\ \A f, g \in DOMAIN LastChunk : f <= g => LastChunk[f] <= LastChunk[g]

(* NewPipeline replaces a non-positive size by a default. *)
WithDefault(n, default) == IF n <= 0 THEN default ELSE n

NWorkers == WithDefault(CfgWorkers, 1)
QueueSize == WithDefault(CfgQueueSize, 8)

Worker == 1 .. NWorkers
File == DOMAIN LastChunk
Total == IF File = {} THEN 0 ELSE LastChunk[Len(LastChunk)]
Chunk == 1 .. Total
NoChunk == 0

-----------------------------------------------------------------------------
VARIABLES
  ctx,      \* "live" until the context is cancelled or its deadline passes
  pc,       \* where the goroutine that runs IngestRepo stands
  file,     \* the file the producer is at
  count,    \* chunks sent so far; also the value returned
  ret,      \* the result: "none" until decided, "ok", or the kind of error
  ch,       \* content of the chunk channel
  closed,   \* has the chunk channel been closed
  errCh,    \* number of errors in the error channel (capacity one)
  wpc,      \* where each worker stands
  hand,     \* the chunk each worker holds
  db,       \* what the store holds of each chunk
  graph     \* the chunks the stored edges were computed from

vars == <<ctx, pc, file, count, ret, ch, closed, errCh, wpc, hand, db, graph>>

prodVars == <<pc, file, count, ret>>
storeVars == <<db, graph>>

ErrorKind == {"rejected", "cancelled", "read", "upsert", "backpressure", "edges"}

(* How a worker goroutine ends: the channel was drained, it saw the context *)
(* expired and dropped its chunk, or its upsert failed.                     *)
Ended == {"drained", "cancelled", "failed"}

(* A row is absent, left by an earlier ingestion, written only in part by a *)
(* failing Upsert, or the row this ingestion wrote.                         *)
RowState == {"absent", "old", "partial", "stored"}

Indexed(rows) == {c \in Chunk : rows[c] # "absent"}

TypeOK ==
  /\ ctx \in {"live", "done"}
  /\ pc \in {"start", "files", "read", "send", "wait", "check", "edges", "returned"}
  /\ file \in Nat \ {0}
  /\ count \in 0 .. Total
  /\ ret \in {"none", "ok"} \cup ErrorKind
  /\ ch \in Seq(Chunk) /\ Len(ch) <= QueueSize
  /\ closed \in BOOLEAN
  /\ errCh \in 0 .. 1
  /\ wpc \in [Worker -> {"idle", "recv", "poll", "upsert", "report"} \cup Ended]
  /\ hand \in [Worker -> Chunk \cup {NoChunk}]
  /\ db \in [Chunk -> RowState]
  /\ graph \in SUBSET Chunk

Init ==
  /\ ctx = "live"
  /\ pc = "start"
  /\ file = 1
  /\ count = 0
  /\ ret = "none"
  /\ ch = <<>>
  /\ closed = FALSE
  /\ errCh = 0
  /\ wpc = [w \in Worker |-> "idle"]
  /\ hand = [w \in Worker |-> NoChunk]
  /\ db \in [Chunk -> {"absent", "old"}]
  /\ graph \in {{}, Indexed(db)}

-----------------------------------------------------------------------------
(* The environment: the caller's deadline passes or it cancels. *)
Cancel ==
  /\ ctx = "live"
  /\ ctx' = "done"
  /\ UNCHANGED <<prodVars, ch, closed, errCh, wpc, hand, storeVars>>

-----------------------------------------------------------------------------
(* The producer. *)

(* A blank path, a store that cannot be initialised, an unreadable directory *)
(* tree or a repository without files: nothing has been started.             *)
Reject ==
  /\ pc = "start"
  /\ ret' = "rejected"
  /\ pc' = "returned"
  /\ UNCHANGED <<ctx, file, count, ch, closed, errCh, wpc, hand, storeVars>>

Spawn ==
  /\ pc = "start"
  /\ File # {}
  /\ wpc' = [w \in Worker |-> "recv"]
  /\ pc' = "files"
  /\ UNCHANGED <<ctx, file, count, ret, ch, closed, errCh, hand, storeVars>>

(* Fault: the channel is left open on an early exit. *)
AbortLeavesOpen(e) ==
  /\ ret' = e
  /\ pc' = "wait"
  /\ UNCHANGED <<ctx, file, count, ch, closed, wpc, hand, storeVars>>

(* Every early exit closes the channel and waits for the workers. *)
Abort(e) ==
  /\ ret' = e
  /\ closed' = TRUE
  /\ pc' = "wait"
  /\ UNCHANGED <<ctx, file, count, ch, wpc, hand, storeVars>>

NextFile ==
  /\ pc = "files"
  /\ file \in File
  /\ ctx = "live"
  /\ pc' = "read"
  /\ UNCHANGED <<ctx, file, count, ret, ch, closed, errCh, wpc, hand, storeVars>>

CancelledAtFile ==
  /\ pc = "files"
  /\ file \in File
  /\ ctx = "done"
  /\ Abort("cancelled")
  /\ UNCHANGED errCh

ReadFile ==
  /\ pc = "read"
  /\ pc' = "send"
  /\ UNCHANGED <<ctx, file, count, ret, ch, closed, errCh, wpc, hand, storeVars>>

ReadFileFails ==
  /\ pc = "read"
  /\ Abort("read")
  /\ UNCHANGED errCh

(* The four arms of the producer's select, while the file has chunks left.  *)
(* More than one may be ready, and Go then picks any of them.               *)
Sending == pc = "send" /\ count < LastChunk[file]

(* Fault: the channel is taken for an unbounded one. *)
SendChunkUnbounded ==
  /\ Sending
  /\ ch' = Append(ch, count + 1)
  /\ count' = count + 1
  /\ UNCHANGED <<ctx, pc, file, ret, closed, errCh, wpc, hand, storeVars>>

(* Fault: a chunk is counted that did not fit into the channel. *)
SendChunkCountsDropped ==
  /\ Sending
  /\ ch' = IF Len(ch) < QueueSize THEN Append(ch, count + 1) ELSE ch
  /\ count' = count + 1
  /\ UNCHANGED <<ctx, pc, file, ret, closed, errCh, wpc, hand, storeVars>>

SendChunk ==
  /\ Sending
  /\ Len(ch) < QueueSize
  /\ ch' = Append(ch, count + 1)
  /\ count' = count + 1
  /\ UNCHANGED <<ctx, pc, file, ret, closed, errCh, wpc, hand, storeVars>>

SendCancelled ==
  /\ Sending
  /\ ctx = "done"
  /\ Abort("cancelled")
  /\ UNCHANGED errCh

SendSeesError ==
  /\ Sending
  /\ errCh = 1
  /\ errCh' = 0
  /\ Abort("upsert")

(* EnqueueTimeout is any positive duration, so that the timer may be ready *)
(* together with any of the other arms.                                    *)
SendTimesOut ==
  /\ Sending
  /\ Abort("backpressure")
  /\ UNCHANGED errCh

FileDone ==
  /\ pc = "send"
  /\ count >= LastChunk[file]
  /\ file' = file + 1
  /\ pc' = "files"
  /\ UNCHANGED <<ctx, count, ret, ch, closed, errCh, wpc, hand, storeVars>>

AllSent ==
  /\ pc = "files"
  /\ file \notin File
  /\ closed' = TRUE
  /\ pc' = "wait"
  /\ UNCHANGED <<ctx, file, count, ret, ch, errCh, wpc, hand, storeVars>>

(* Fault: the producer does not wait for the workers. *)
WaitForNobody ==
  /\ pc = "wait"
  /\ pc' = IF ret = "none" THEN "check" ELSE "returned"
  /\ UNCHANGED <<ctx, file, count, ret, ch, closed, errCh, wpc, hand, storeVars>>

(* wg.Wait, then either the error already chosen or the final look at errCh. *)
Wait ==
  /\ pc = "wait"
  /\ \A w \in Worker : wpc[w] \in Ended
  /\ pc' = IF ret = "none" THEN "check" ELSE "returned"
  /\ UNCHANGED <<ctx, file, count, ret, ch, closed, errCh, wpc, hand, storeVars>>

LateError ==
  /\ pc = "check"
  /\ errCh = 1
  /\ errCh' = 0
  /\ ret' = "upsert"
  /\ pc' = "returned"
  /\ UNCHANGED <<ctx, file, count, ch, closed, wpc, hand, storeVars>>

(* Fault: errCh is not looked at once the workers have ended. *)
NoErrorUnchecked ==
  /\ pc = "check"
  /\ IF EdgeStore THEN pc' = "edges" /\ ret' = ret
                  ELSE pc' = "returned" /\ ret' = "ok"
  /\ UNCHANGED <<ctx, file, count, ch, closed, errCh, wpc, hand, storeVars>>

NoError ==
  /\ pc = "check"
  /\ errCh = 0
  /\ IF EdgeStore THEN pc' = "edges" /\ ret' = ret
                  ELSE pc' = "returned" /\ ret' = "ok"
  /\ UNCHANGED <<ctx, file, count, ch, closed, errCh, wpc, hand, storeVars>>

(* The store derives the edges from every row it holds and adds them in one *)
(* statement to those it has; a failure adds none.                          *)
BuildEdges ==
  /\ pc = "edges"
  /\ graph' = graph \cup Indexed(db)
  /\ ret' = "ok"
  /\ pc' = "returned"
  /\ UNCHANGED <<ctx, file, count, ch, closed, errCh, wpc, hand, db>>

BuildEdgesFails ==
  /\ pc = "edges"
  /\ ret' = "edges"
  /\ pc' = "returned"
  /\ UNCHANGED <<ctx, file, count, ch, closed, errCh, wpc, hand, storeVars>>

Producer ==
  \/ Reject \/ Spawn
  \/ NextFile \/ CancelledAtFile \/ ReadFile \/ ReadFileFails
  \/ SendChunk \/ SendCancelled \/ SendSeesError \/ SendTimesOut
  \/ FileDone \/ AllSent
  \/ Wait \/ LateError \/ NoError \/ BuildEdges \/ BuildEdgesFails

-----------------------------------------------------------------------------
(* The workers. *)

Receive(w) ==
  /\ wpc[w] = "recv"
  /\ ch # <<>>
  /\ hand' = [hand EXCEPT ![w] = Head(ch)]
  /\ ch' = Tail(ch)
  /\ wpc' = [wpc EXCEPT ![w] = "poll"]
  /\ UNCHANGED <<ctx, prodVars, closed, errCh, storeVars>>

ChannelDrained(w) ==
  /\ wpc[w] = "recv"
  /\ ch = <<>>
  /\ closed
  /\ wpc' = [wpc EXCEPT ![w] = "drained"]
  /\ UNCHANGED <<ctx, prodVars, ch, closed, errCh, hand, storeVars>>

(* A worker that sees the context expired returns with the chunk in its     *)
(* hand, and says nothing on errCh.                                         *)
PollCtx(w) ==
  /\ wpc[w] = "poll"
  /\ wpc' = [wpc EXCEPT ![w] = IF ctx = "done" THEN "cancelled" ELSE "upsert"]
  /\ UNCHANGED <<ctx, prodVars, ch, closed, errCh, hand, storeVars>>

Upsert(w) ==
  /\ wpc[w] = "upsert"
  /\ db' = [db EXCEPT ![hand[w]] = "stored"]
  /\ hand' = [hand EXCEPT ![w] = NoChunk]
  /\ wpc' = [wpc EXCEPT ![w] = "recv"]
  /\ UNCHANGED <<ctx, prodVars, ch, closed, errCh, graph>>

(* A failing Upsert leaves the row as it was, or written in part when the   *)
(* store needs several statements for it.                                   *)
UpsertFails(w) ==
  /\ wpc[w] = "upsert"
  /\ \E row \in {db[hand[w]], "partial"} : db' = [db EXCEPT ![hand[w]] = row]
  /\ wpc' = [wpc EXCEPT ![w] = "report"]
  /\ UNCHANGED <<ctx, prodVars, ch, closed, errCh, hand, graph>>

(* Fault: a worker that failed ends without a word. *)
ReportNothing(w) ==
  /\ wpc[w] = "report"
  /\ wpc' = [wpc EXCEPT ![w] = "failed"]
  /\ UNCHANGED <<ctx, prodVars, ch, closed, errCh, hand, storeVars>>

(* Fault: a worker that failed keeps quiet once the context has expired. *)
ReportUnlessExpired(w) ==
  /\ wpc[w] = "report"
  /\ errCh' = IF ctx = "done" THEN errCh ELSE 1
  /\ wpc' = [wpc EXCEPT ![w] = "failed"]
  /\ UNCHANGED <<ctx, prodVars, ch, closed, hand, storeVars>>

(* A non-blocking send: only the first error of a run is kept. *)
Report(w) ==
  /\ wpc[w] = "report"
  /\ errCh' = 1
  /\ wpc' = [wpc EXCEPT ![w] = "failed"]
  /\ UNCHANGED <<ctx, prodVars, ch, closed, hand, storeVars>>

WorkerStep(w) ==
  \/ Receive(w) \/ ChannelDrained(w) \/ PollCtx(w)
  \/ Upsert(w) \/ UpsertFails(w) \/ Report(w)

-----------------------------------------------------------------------------
(* IngestRepo returns once; what the caller does next is another module. *)
Returned == pc = "returned" /\ UNCHANGED vars

Next ==
  \/ Cancel
  \/ Producer
  \/ \E w \in Worker : WorkerStep(w)
  \/ Returned

Spec == Init /\ [][Next]_vars

(* Every goroutine keeps running, Embed and Upsert return (the HTTP client *)
(* and SQLite have timeouts of their own), and nothing obliges the caller   *)
(* to cancel.                                                               *)
FairSpec ==
  /\ Spec
  /\ WF_vars(Producer)
  /\ \A w \in Worker : WF_vars(WorkerStep(w))

-----------------------------------------------------------------------------
(* Properties. *)

AnyFailed == \E w \in Worker : wpc[w] \in {"report", "failed"}

(* A chunk is in one pair of hands: no two workers take the same chunk off  *)
(* the channel, and none holds a chunk that is still queued.                *)
OneHolder ==
  /\ \A v, w \in Worker : v # w /\ hand[v] = hand[w] => hand[v] = NoChunk
  /\ \A w \in Worker, i \in DOMAIN ch : hand[w] # ch[i]

(* The producer is never left in front of a full channel that nobody reads:  *)
(* if all workers have gone, errCh or the context tells it.                  *)
NeverAbandoned ==
  Sending /\ Len(ch) = QueueSize =>
    \/ ctx = "done"
    \/ errCh = 1
    \/ \E w \in Worker : wpc[w] \notin Ended

(* Whatever it returns, and in particular on a backpressure timeout or an    *)
(* unreadable file, IngestRepo lets the workers finish what was queued: the  *)
(* count it returns is of chunks that are in the store, as long as the       *)
(* context is live and no upsert failed.                                     *)
CountedAreStored ==
  pc = "returned" /\ ctx = "live" /\ ~AnyFailed =>
    \A c \in 1 .. count : db[c] = "stored"

(* Success under a live context: every chunk of every file is in the store.  *)
SuccessMeansStored ==
  ret = "ok" /\ ctx = "live" => count = Total /\ \A c \in Chunk : db[c] = "stored"

(* A failed upsert is never swallowed, not even when the context expires in  *)
(* between or when several workers fail and errCh has room for one.          *)
FailureReported == AnyFailed => ret # "ok"

(* A graph store returns from a successful ingestion with its edges computed *)
(* from every row, the rows of slow workers included.                        *)
EdgesCoverIndex == ret = "ok" /\ EdgeStore => graph = Indexed(db)

(* Once IngestRepo has returned, nobody touches the store: its caller may    *)
(* query it at once, or close it.                                            *)
QuietAfterReturn == [][pc = "returned" => UNCHANGED storeVars]_vars

(* IngestRepo returns, whatever fails and without waiting for a deadline.    *)
IngestReturns == <>(pc = "returned")

(* The pipeline implements what IngestRepo promises.  A result chosen before *)
(* wg.Wait is visible to the caller only when the call returns.              *)
Ingest == INSTANCE IngestSpec WITH
  failed <- AnyFailed,
  ret    <- IF pc = "returned" THEN ret ELSE "none",
  count  <- IF pc = "returned" THEN count ELSE 0

ImplementsIngest == Ingest!Spec

-----------------------------------------------------------------------------
(* The inductive invariant behind the safety properties, by concern. *)

(* The counter agrees with the place in the files. *)
PrevLast(f) == IF f = 1 THEN 0 ELSE LastChunk[f - 1]

PositionInv ==
  /\ file \in 1 .. Len(LastChunk) + 1
  /\ pc = "start" => file = 1 /\ count = 0
  /\ pc \in {"files", "read"} => count = PrevLast(file)
  /\ pc \in {"read", "send"} => file \in File
  /\ pc = "send" => count <= LastChunk[file]
  /\ pc \in {"wait", "check", "edges"} /\ ret = "none" => count = Total
  /\ ret = "ok" => count = Total

(* The result is open while chunks are sent, and workers have ended once the *)
(* wait is over.                                                             *)
ControlInv ==
  /\ pc \in {"start", "files", "read", "send"} => ret = "none" /\ ~closed
  /\ pc = "wait" => closed /\ ret # "ok"
  /\ pc \in {"check", "edges"} => ret = "none" /\ \A w \in Worker : wpc[w] \in Ended
  /\ pc = "returned" => ret # "none" /\ \A w \in Worker : wpc[w] \in Ended \cup {"idle"}
  /\ \A w \in Worker : wpc[w] = "idle" => pc \in {"start", "returned"} /\ count = 0
  /\ pc = "start" => \A w \in Worker : wpc[w] = "idle"
  /\ pc = "edges" => EdgeStore

(* Why each worker stands where it stands. *)
WorkerInv ==
  /\ \A w \in Worker :
       /\ wpc[w] \in {"idle", "recv", "drained"} => hand[w] = NoChunk
       /\ wpc[w] \in {"poll", "upsert", "report"} => hand[w] \in Chunk
       /\ wpc[w] = "drained" => closed /\ ch = <<>>
       /\ wpc[w] = "cancelled" => ctx = "done"
       /\ wpc[w] = "failed" => errCh = 1 \/ ret # "none"
  /\ AnyFailed => pc # "edges" /\ ret # "ok"

(* A queue that is a window on the numbering: the last numbers up to n.      *)
Window(q, n) == Len(q) <= n /\ \A i \in DOMAIN q : q[i] = n - Len(q) + i

(* The channel holds the last chunks sent, in order; the others have been    *)
(* received, each by one worker.                                             *)
Received == count - Len(ch)

QueueInv ==
  /\ Window(ch, count)
  /\ \A w \in Worker : hand[w] <= Received
  /\ \A v, w \in Worker : v # w /\ hand[v] = hand[w] => hand[v] = NoChunk

(* A chunk that was received is in the store or still in a worker's hand.    *)
DeliveryInv ==
  ctx = "live" /\ ~AnyFailed =>
    \A c \in 1 .. Received : db[c] = "stored" \/ \E w \in Worker : hand[w] = c

GraphInv ==
  /\ graph \subseteq Indexed(db)
  /\ ret = "ok" /\ EdgeStore => graph = Indexed(db)

(* The conjunction that every step of the pipeline preserves.                *)
IInv ==
  /\ TypeOK
  /\ PositionInv
  /\ ControlInv
  /\ WorkerInv
  /\ QueueInv
  /\ DeliveryInv
  /\ GraphInv
=============================================================================
