--------------------------- MODULE PipelineProofs ---------------------------
(***************************************************************************)
(* The safety properties of Pipeline and its refinement of IngestSpec, for   *)
(* every number of workers, every queue size and every repository.  All of   *)
(* them follow from the invariant IInv, of which each conjunct has its lemma: *)
(* under IInv, a step makes that conjunct hold again.                        *)
(***************************************************************************)
EXTENDS Pipeline, TLAPS

(* The constants as the code sees them after NewPipeline's defaults. *)
LEMMA ConstFacts ==
  /\ NWorkers \in Nat \ {0}
  /\ QueueSize \in Nat \ {0}
  /\ 1 \in Worker
  /\ Len(LastChunk) \in Nat
  /\ File = 1 .. Len(LastChunk)
  /\ Total \in Nat
  /\ \A f \in File : LastChunk[f] \in Nat /\ LastChunk[f] <= Total
  /\ \A f \in File : f - 1 \in File => LastChunk[f - 1] <= LastChunk[f]
  BY ConfigAssumption, FilesAssumption
  DEF NWorkers, QueueSize, WithDefault, Worker, File, Total

(* Sending n + 1 moves the upper end of a window ... *)
LEMMA WindowSend ==
  ASSUME NEW S, NEW q \in Seq(S), NEW n \in Nat, n + 1 \in S, Window(q, n)
  PROVE  /\ Window(Append(q, n + 1), n + 1)
         /\ Len(Append(q, n + 1)) = Len(q) + 1
<1> DEFINE r == Append(q, n + 1)
<1>1. /\ Len(r) = Len(q) + 1
      /\ DOMAIN r = 1 .. Len(q) + 1
      /\ DOMAIN q = 1 .. Len(q)
      /\ Len(q) \in Nat
  OBVIOUS
<1>2. ASSUME NEW i \in DOMAIN r
      PROVE  r[i] = n + 1 - Len(r) + i
  <2>1. CASE i = Len(q) + 1
    BY <1>1, <2>1
  <2>2. CASE i # Len(q) + 1
    <3>1. i \in DOMAIN q /\ r[i] = q[i]
      BY <1>1, <2>2
    <3>2. q[i] = n - Len(q) + i
      BY <3>1 DEF Window
    <3>3. QED
      BY <1>1, <3>1, <3>2
  <2>3. QED
    BY <2>1, <2>2
<1>3. QED
  BY <1>1, <1>2 DEF Window

(* ... and receiving moves its lower end. *)
LEMMA WindowReceive ==
  ASSUME NEW S, NEW q \in Seq(S), NEW n \in Nat, q # <<>>, Window(q, n)
  PROVE  /\ Head(q) = n - Len(q) + 1
         /\ Window(Tail(q), n)
         /\ Len(Tail(q)) = Len(q) - 1
<1> DEFINE r == Tail(q)
<1>1. /\ Len(r) = Len(q) - 1
      /\ DOMAIN r = 1 .. Len(q) - 1
      /\ DOMAIN q = 1 .. Len(q)
      /\ Len(q) \in Nat \ {0}
      /\ Head(q) = q[1]
  OBVIOUS
<1>2. ASSUME NEW i \in DOMAIN r
      PROVE  r[i] = n - Len(r) + i
  <2>1. r[i] = q[i + 1] /\ i + 1 \in DOMAIN q
    BY <1>1
  <2>2. q[i + 1] = n - Len(q) + (i + 1)
    BY <2>1 DEF Window
  <2>3. QED
    BY <1>1, <2>1, <2>2
<1>3. Head(q) = n - Len(q) + 1
  BY <1>1 DEF Window
<1>4. QED
  BY <1>1, <1>2, <1>3 DEF Window

(* Every step keeps the variables in their types. *)
LEMMA TypeStep ==
  ASSUME IInv, [Next]_vars
  PROVE  TypeOK'
<1> USE ConstFacts DEF IInv, TypeOK, PositionInv, ControlInv, WorkerInv, Ended, ErrorKind, RowState, NoChunk, Chunk, Indexed
<1>1. CASE Cancel
  BY <1>1 DEF Cancel, prodVars, storeVars
<1>2. CASE Reject
  BY <1>2 DEF Reject, prodVars, storeVars
<1>3. CASE Spawn
  BY <1>3 DEF Spawn, prodVars, storeVars
<1>4. CASE NextFile
  BY <1>4 DEF NextFile, prodVars, storeVars
<1>5. CASE CancelledAtFile
  BY <1>5 DEF CancelledAtFile, Abort, prodVars, storeVars
<1>6. CASE ReadFile
  BY <1>6 DEF ReadFile, prodVars, storeVars
<1>7. CASE ReadFileFails
  BY <1>7 DEF ReadFileFails, Abort, prodVars, storeVars
<1>8. CASE SendChunk
  BY <1>8 DEF SendChunk, Sending, prodVars, storeVars
<1>9. CASE SendCancelled
  BY <1>9 DEF SendCancelled, Abort, Sending, prodVars, storeVars
<1>10. CASE SendSeesError
  BY <1>10 DEF SendSeesError, Abort, Sending, prodVars, storeVars
<1>11. CASE SendTimesOut
  BY <1>11 DEF SendTimesOut, Abort, Sending, prodVars, storeVars
<1>12. CASE FileDone
  BY <1>12 DEF FileDone, prodVars, storeVars
<1>13. CASE AllSent
  BY <1>13 DEF AllSent, prodVars, storeVars
<1>14. CASE Wait
  BY <1>14 DEF Wait, prodVars, storeVars
<1>15. CASE LateError
  BY <1>15 DEF LateError, prodVars, storeVars
<1>16. CASE NoError
  BY <1>16 DEF NoError, prodVars, storeVars
<1>17. CASE BuildEdges
  BY <1>17 DEF BuildEdges, prodVars, storeVars
<1>18. CASE BuildEdgesFails
  BY <1>18 DEF BuildEdgesFails, prodVars, storeVars
<1>19. ASSUME NEW w \in Worker, Receive(w)
      PROVE  TypeOK'
  BY <1>19 DEF Receive, prodVars, storeVars
<1>20. ASSUME NEW w \in Worker, ChannelDrained(w)
      PROVE  TypeOK'
  BY <1>20 DEF ChannelDrained, prodVars, storeVars
<1>21. ASSUME NEW w \in Worker, PollCtx(w)
      PROVE  TypeOK'
  BY <1>21 DEF PollCtx, prodVars, storeVars
<1>22. ASSUME NEW w \in Worker, Upsert(w)
      PROVE  TypeOK'
  BY <1>22 DEF Upsert, prodVars, storeVars
<1>23. ASSUME NEW w \in Worker, UpsertFails(w)
      PROVE  TypeOK'
  <2>1. hand[w] \in Chunk
    BY <1>23 DEF UpsertFails
  <2>2. db' \in [Chunk -> RowState]
    BY <1>23, <2>1 DEF UpsertFails
  <2>3. wpc' \in [Worker -> {"idle", "recv", "poll", "upsert", "report"} \cup Ended]
    BY <1>23 DEF UpsertFails
  <2>4. QED
    BY <1>23, <2>2, <2>3 DEF UpsertFails, prodVars
<1>24. ASSUME NEW w \in Worker, Report(w)
      PROVE  TypeOK'
  BY <1>24 DEF Report, prodVars, storeVars
<1>25. CASE UNCHANGED vars
  BY <1>25 DEF vars
<1>26. QED
  BY <1>1, <1>2, <1>3, <1>4, <1>5, <1>6, <1>7, <1>8, <1>9, <1>10, <1>11, <1>12, <1>13, <1>14, <1>15, <1>16, <1>17, <1>18, <1>19, <1>20, <1>21, <1>22, <1>23, <1>24, <1>25
     DEF Next, Producer, WorkerStep, Returned

(* The producer's counter moves only when a chunk is sent, and then within   *)
(* the file at hand; the end of a file is the start of the next.             *)
LEMMA PositionStep ==
  ASSUME IInv, [Next]_vars
  PROVE  PositionInv'
<1> USE ConstFacts DEF IInv, TypeOK, PositionInv, ControlInv, PrevLast, Total, File
<1>1. CASE Cancel
  BY <1>1 DEF Cancel, prodVars, storeVars
<1>2. CASE Reject
  BY <1>2 DEF Reject, prodVars, storeVars
<1>3. CASE Spawn
  BY <1>3 DEF Spawn, prodVars, storeVars
<1>4. CASE NextFile
  BY <1>4 DEF NextFile, prodVars, storeVars
<1>5. CASE CancelledAtFile
  BY <1>5 DEF CancelledAtFile, Abort, prodVars, storeVars
<1>6. CASE ReadFile
  <2>1. file \in File /\ count = PrevLast(file)
    BY <1>6 DEF ReadFile
  <2>2. count <= LastChunk[file]
    <3>1. CASE file = 1
      BY <2>1, <3>1
    <3>2. CASE file # 1
      <4>1. file - 1 \in File
        BY <2>1, <3>2
      <4>2. QED
        BY <2>1, <3>2, <4>1
    <3>3. QED
      BY <3>1, <3>2
  <2>3. QED
    BY <1>6, <2>1, <2>2 DEF ReadFile, prodVars, storeVars
<1>7. CASE ReadFileFails
  BY <1>7 DEF ReadFileFails, Abort, prodVars, storeVars
<1>8. CASE SendChunk
  BY <1>8 DEF SendChunk, Sending, prodVars, storeVars
<1>9. CASE SendCancelled
  BY <1>9 DEF SendCancelled, Abort, Sending, prodVars, storeVars
<1>10. CASE SendSeesError
  BY <1>10 DEF SendSeesError, Abort, Sending, prodVars, storeVars
<1>11. CASE SendTimesOut
  BY <1>11 DEF SendTimesOut, Abort, Sending, prodVars, storeVars
<1>12. CASE FileDone
  BY <1>12 DEF FileDone, prodVars, storeVars
<1>13. CASE AllSent
  BY <1>13 DEF AllSent, prodVars, storeVars
<1>14. CASE Wait
  BY <1>14 DEF Wait, prodVars, storeVars
<1>15. CASE LateError
  BY <1>15 DEF LateError, prodVars, storeVars
<1>16. CASE NoError
  BY <1>16 DEF NoError, prodVars, storeVars
<1>17. CASE BuildEdges
  BY <1>17 DEF BuildEdges, prodVars, storeVars
<1>18. CASE BuildEdgesFails
  BY <1>18 DEF BuildEdgesFails, prodVars, storeVars
<1>19. ASSUME NEW w \in Worker, Receive(w)
      PROVE  PositionInv'
  BY <1>19 DEF Receive, prodVars, storeVars
<1>20. ASSUME NEW w \in Worker, ChannelDrained(w)
      PROVE  PositionInv'
  BY <1>20 DEF ChannelDrained, prodVars, storeVars
<1>21. ASSUME NEW w \in Worker, PollCtx(w)
      PROVE  PositionInv'
  BY <1>21 DEF PollCtx, prodVars, storeVars
<1>22. ASSUME NEW w \in Worker, Upsert(w)
      PROVE  PositionInv'
  BY <1>22 DEF Upsert, prodVars, storeVars
<1>23. ASSUME NEW w \in Worker, UpsertFails(w)
      PROVE  PositionInv'
  BY <1>23 DEF UpsertFails, prodVars, storeVars
<1>24. ASSUME NEW w \in Worker, Report(w)
      PROVE  PositionInv'
  BY <1>24 DEF Report, prodVars, storeVars
<1>25. CASE UNCHANGED vars
  BY <1>25 DEF vars
<1>26. QED
  BY <1>1, <1>2, <1>3, <1>4, <1>5, <1>6, <1>7, <1>8, <1>9, <1>10, <1>11, <1>12, <1>13, <1>14, <1>15, <1>16, <1>17, <1>18, <1>19, <1>20, <1>21, <1>22, <1>23, <1>24, <1>25
     DEF Next, Producer, WorkerStep, Returned

(* A result is chosen once, the channel is closed with it, and the code that *)
(* follows wg.Wait runs when every worker has gone.                          *)
LEMMA ControlStep ==
  ASSUME IInv, [Next]_vars
  PROVE  ControlInv'
<1> USE ConstFacts DEF IInv, TypeOK, ControlInv, WorkerInv, PositionInv, Ended, ErrorKind, AnyFailed
<1>1. CASE Cancel
  BY <1>1 DEF Cancel, prodVars, storeVars
<1>2. CASE Reject
  BY <1>2 DEF Reject, prodVars, storeVars
<1>3. CASE Spawn
  BY <1>3 DEF Spawn, prodVars, storeVars
<1>4. CASE NextFile
  BY <1>4 DEF NextFile, prodVars, storeVars
<1>5. CASE CancelledAtFile
  BY <1>5 DEF CancelledAtFile, Abort, prodVars, storeVars
<1>6. CASE ReadFile
  BY <1>6 DEF ReadFile, prodVars, storeVars
<1>7. CASE ReadFileFails
  BY <1>7 DEF ReadFileFails, Abort, prodVars, storeVars
<1>8. CASE SendChunk
  BY <1>8 DEF SendChunk, Sending, prodVars, storeVars
<1>9. CASE SendCancelled
  BY <1>9 DEF SendCancelled, Abort, Sending, prodVars, storeVars
<1>10. CASE SendSeesError
  BY <1>10 DEF SendSeesError, Abort, Sending, prodVars, storeVars
<1>11. CASE SendTimesOut
  BY <1>11 DEF SendTimesOut, Abort, Sending, prodVars, storeVars
<1>12. CASE FileDone
  BY <1>12 DEF FileDone, prodVars, storeVars
<1>13. CASE AllSent
  BY <1>13 DEF AllSent, prodVars, storeVars
<1>14. CASE Wait
  BY <1>14 DEF Wait, prodVars, storeVars
<1>15. CASE LateError
  BY <1>15 DEF LateError, prodVars, storeVars
<1>16. CASE NoError
  BY <1>16 DEF NoError, prodVars, storeVars
<1>17. CASE BuildEdges
  BY <1>17 DEF BuildEdges, prodVars, storeVars
<1>18. CASE BuildEdgesFails
  BY <1>18 DEF BuildEdgesFails, prodVars, storeVars
<1>19. ASSUME NEW w \in Worker, Receive(w)
      PROVE  ControlInv'
  BY <1>19 DEF Receive, prodVars, storeVars
<1>20. ASSUME NEW w \in Worker, ChannelDrained(w)
      PROVE  ControlInv'
  BY <1>20 DEF ChannelDrained, prodVars, storeVars
<1>21. ASSUME NEW w \in Worker, PollCtx(w)
      PROVE  ControlInv'
  BY <1>21 DEF PollCtx, prodVars, storeVars
<1>22. ASSUME NEW w \in Worker, Upsert(w)
      PROVE  ControlInv'
  BY <1>22 DEF Upsert, prodVars, storeVars
<1>23. ASSUME NEW w \in Worker, UpsertFails(w)
      PROVE  ControlInv'
  BY <1>23 DEF UpsertFails, prodVars, storeVars
<1>24. ASSUME NEW w \in Worker, Report(w)
      PROVE  ControlInv'
  BY <1>24 DEF Report, prodVars, storeVars
<1>25. CASE UNCHANGED vars
  BY <1>25 DEF vars
<1>26. QED
  BY <1>1, <1>2, <1>3, <1>4, <1>5, <1>6, <1>7, <1>8, <1>9, <1>10, <1>11, <1>12, <1>13, <1>14, <1>15, <1>16, <1>17, <1>18, <1>19, <1>20, <1>21, <1>22, <1>23, <1>24, <1>25
     DEF Next, Producer, WorkerStep, Returned

(* A worker ends for a reason that the producer can see: the channel closed, *)
(* the context expired, or an error put on errCh, which stays there until    *)
(* the producer takes it and returns it.                                     *)
LEMMA WorkerStepInv ==
  ASSUME IInv, [Next]_vars
  PROVE  WorkerInv'
<1> USE ConstFacts DEF IInv, TypeOK, ControlInv, WorkerInv, PositionInv, Ended, AnyFailed, NoChunk, Chunk, ErrorKind
<1>1. CASE Cancel
  BY <1>1 DEF Cancel, prodVars, storeVars
<1>2. CASE Reject
  BY <1>2 DEF Reject, prodVars, storeVars
<1>3. CASE Spawn
  BY <1>3 DEF Spawn, prodVars, storeVars
<1>4. CASE NextFile
  BY <1>4 DEF NextFile, prodVars, storeVars
<1>5. CASE CancelledAtFile
  BY <1>5 DEF CancelledAtFile, Abort, prodVars, storeVars
<1>6. CASE ReadFile
  BY <1>6 DEF ReadFile, prodVars, storeVars
<1>7. CASE ReadFileFails
  BY <1>7 DEF ReadFileFails, Abort, prodVars, storeVars
<1>8. CASE SendChunk
  BY <1>8 DEF SendChunk, Sending, prodVars, storeVars
<1>9. CASE SendCancelled
  BY <1>9 DEF SendCancelled, Abort, Sending, prodVars, storeVars
<1>10. CASE SendSeesError
  BY <1>10 DEF SendSeesError, Abort, Sending, prodVars, storeVars
<1>11. CASE SendTimesOut
  BY <1>11 DEF SendTimesOut, Abort, Sending, prodVars, storeVars
<1>12. CASE FileDone
  BY <1>12 DEF FileDone, prodVars, storeVars
<1>13. CASE AllSent
  BY <1>13 DEF AllSent, prodVars, storeVars
<1>14. CASE Wait
  BY <1>14 DEF Wait, prodVars, storeVars
<1>15. CASE LateError
  BY <1>15 DEF LateError, prodVars, storeVars
<1>16. CASE NoError
  BY <1>16 DEF NoError, prodVars, storeVars
<1>17. CASE BuildEdges
  BY <1>17 DEF BuildEdges, prodVars, storeVars
<1>18. CASE BuildEdgesFails
  BY <1>18 DEF BuildEdgesFails, prodVars, storeVars
<1>19. ASSUME NEW w \in Worker, Receive(w)
      PROVE  WorkerInv'
  BY <1>19 DEF Receive, prodVars, storeVars
<1>20. ASSUME NEW w \in Worker, ChannelDrained(w)
      PROVE  WorkerInv'
  BY <1>20 DEF ChannelDrained, prodVars, storeVars
<1>21. ASSUME NEW w \in Worker, PollCtx(w)
      PROVE  WorkerInv'
  BY <1>21 DEF PollCtx, prodVars, storeVars
<1>22. ASSUME NEW w \in Worker, Upsert(w)
      PROVE  WorkerInv'
  BY <1>22 DEF Upsert, prodVars, storeVars
<1>23. ASSUME NEW w \in Worker, UpsertFails(w)
      PROVE  WorkerInv'
  BY <1>23 DEF UpsertFails, prodVars, storeVars
<1>24. ASSUME NEW w \in Worker, Report(w)
      PROVE  WorkerInv'
  BY <1>24 DEF Report, prodVars, storeVars
<1>25. CASE UNCHANGED vars
  BY <1>25 DEF vars
<1>26. QED
  BY <1>1, <1>2, <1>3, <1>4, <1>5, <1>6, <1>7, <1>8, <1>9, <1>10, <1>11, <1>12, <1>13, <1>14, <1>15, <1>16, <1>17, <1>18, <1>19, <1>20, <1>21, <1>22, <1>23, <1>24, <1>25
     DEF Next, Producer, WorkerStep, Returned

(* The channel is first in, first out, and hands a chunk to one worker.      *)
LEMMA QueueStep ==
  ASSUME IInv, [Next]_vars
  PROVE  QueueInv'
<1> USE ConstFacts DEF IInv, TypeOK, WorkerInv, ControlInv, QueueInv, Received, NoChunk, Chunk
<1>1. CASE Cancel
  BY <1>1 DEF Cancel, prodVars, storeVars
<1>2. CASE Reject
  BY <1>2 DEF Reject, prodVars, storeVars
<1>3. CASE Spawn
  BY <1>3 DEF Spawn, prodVars, storeVars
<1>4. CASE NextFile
  BY <1>4 DEF NextFile, prodVars, storeVars
<1>5. CASE CancelledAtFile
  BY <1>5 DEF CancelledAtFile, Abort, prodVars, storeVars
<1>6. CASE ReadFile
  BY <1>6 DEF ReadFile, prodVars, storeVars
<1>7. CASE ReadFileFails
  BY <1>7 DEF ReadFileFails, Abort, prodVars, storeVars
<1>8. CASE SendChunk
  <2>1. /\ ch' = Append(ch, count + 1) /\ count' = count + 1 /\ hand' = hand
        /\ count + 1 \in Chunk
    BY <1>8 DEF SendChunk, Sending, PositionInv
  <2>2. Window(ch', count') /\ Len(ch') = Len(ch) + 1
    BY <2>1, WindowSend
  <2>3. QED
    BY <2>1, <2>2
<1>9. CASE SendCancelled
  BY <1>9 DEF SendCancelled, Abort, Sending, prodVars, storeVars
<1>10. CASE SendSeesError
  BY <1>10 DEF SendSeesError, Abort, Sending, prodVars, storeVars
<1>11. CASE SendTimesOut
  BY <1>11 DEF SendTimesOut, Abort, Sending, prodVars, storeVars
<1>12. CASE FileDone
  BY <1>12 DEF FileDone, prodVars, storeVars
<1>13. CASE AllSent
  BY <1>13 DEF AllSent, prodVars, storeVars
<1>14. CASE Wait
  BY <1>14 DEF Wait, prodVars, storeVars
<1>15. CASE LateError
  BY <1>15 DEF LateError, prodVars, storeVars
<1>16. CASE NoError
  BY <1>16 DEF NoError, prodVars, storeVars
<1>17. CASE BuildEdges
  BY <1>17 DEF BuildEdges, prodVars, storeVars
<1>18. CASE BuildEdgesFails
  BY <1>18 DEF BuildEdgesFails, prodVars, storeVars
<1>19. ASSUME NEW w \in Worker, Receive(w)
      PROVE  QueueInv'
  <2>1. /\ ch # <<>> /\ ch' = Tail(ch) /\ count' = count
        /\ hand' = [hand EXCEPT ![w] = Head(ch)]
    BY <1>19 DEF Receive, prodVars
  <2>2. /\ Head(ch) = Received + 1
        /\ Window(ch', count)
        /\ Len(ch') = Len(ch) - 1
    BY <2>1, WindowReceive
  <2>3. \A v \in Worker : hand'[v] = IF v = w THEN Received + 1 ELSE hand[v]
    BY <2>1, <2>2
  <2>4. Received' = Received + 1
    BY <2>1, <2>2
  <2>5. Window(ch', count')
    BY <2>1, <2>2
  <2>6. \A v \in Worker : hand'[v] <= Received'
    BY <2>3, <2>4
  <2>7. \A u, v \in Worker : u # v /\ hand'[u] = hand'[v] => hand'[u] = NoChunk
    BY <2>3
  <2>8. QED
    BY <2>5, <2>6, <2>7
<1>20. ASSUME NEW w \in Worker, ChannelDrained(w)
      PROVE  QueueInv'
  BY <1>20 DEF ChannelDrained, prodVars, storeVars
<1>21. ASSUME NEW w \in Worker, PollCtx(w)
      PROVE  QueueInv'
  BY <1>21 DEF PollCtx, prodVars, storeVars
<1>22. ASSUME NEW w \in Worker, Upsert(w)
      PROVE  QueueInv'
  BY <1>22 DEF Upsert, prodVars, storeVars
<1>23. ASSUME NEW w \in Worker, UpsertFails(w)
      PROVE  QueueInv'
  BY <1>23 DEF UpsertFails, prodVars, storeVars
<1>24. ASSUME NEW w \in Worker, Report(w)
      PROVE  QueueInv'
  BY <1>24 DEF Report, prodVars, storeVars
<1>25. CASE UNCHANGED vars
  BY <1>25 DEF vars
<1>26. QED
  BY <1>1, <1>2, <1>3, <1>4, <1>5, <1>6, <1>7, <1>8, <1>9, <1>10, <1>11, <1>12, <1>13, <1>14, <1>15, <1>16, <1>17, <1>18, <1>19, <1>20, <1>21, <1>22, <1>23, <1>24, <1>25
     DEF Next, Producer, WorkerStep, Returned

(* A chunk leaves a worker's hand through a successful Upsert, as long as    *)
(* the context is live and no Upsert fails.                                  *)
LEMMA DeliveryStep ==
  ASSUME IInv, [Next]_vars
  PROVE  DeliveryInv'
<1> USE ConstFacts DEF IInv, TypeOK, WorkerInv, ControlInv, QueueInv, DeliveryInv, Received, NoChunk, Chunk, AnyFailed, RowState
<1>1. CASE Cancel
  BY <1>1 DEF Cancel, prodVars, storeVars
<1>2. CASE Reject
  BY <1>2 DEF Reject, prodVars, storeVars
<1>3. CASE Spawn
  BY <1>3 DEF Spawn, prodVars, storeVars
<1>4. CASE NextFile
  BY <1>4 DEF NextFile, prodVars, storeVars
<1>5. CASE CancelledAtFile
  BY <1>5 DEF CancelledAtFile, Abort, prodVars, storeVars
<1>6. CASE ReadFile
  BY <1>6 DEF ReadFile, prodVars, storeVars
<1>7. CASE ReadFileFails
  BY <1>7 DEF ReadFileFails, Abort, prodVars, storeVars
<1>8. CASE SendChunk
  <2>1. /\ ch' = Append(ch, count + 1) /\ count' = count + 1 /\ hand' = hand
        /\ count + 1 \in Chunk
        /\ UNCHANGED <<ctx, wpc, db>>
    BY <1>8 DEF SendChunk, Sending, PositionInv, storeVars
  <2>2. Len(ch') = Len(ch) + 1
    BY <2>1, WindowSend
  <2>3. Received' = Received
    BY <2>1, <2>2
  <2>4. QED
    BY <2>1, <2>3
<1>9. CASE SendCancelled
  BY <1>9 DEF SendCancelled, Abort, Sending, prodVars, storeVars
<1>10. CASE SendSeesError
  BY <1>10 DEF SendSeesError, Abort, Sending, prodVars, storeVars
<1>11. CASE SendTimesOut
  BY <1>11 DEF SendTimesOut, Abort, Sending, prodVars, storeVars
<1>12. CASE FileDone
  BY <1>12 DEF FileDone, prodVars, storeVars
<1>13. CASE AllSent
  BY <1>13 DEF AllSent, prodVars, storeVars
<1>14. CASE Wait
  BY <1>14 DEF Wait, prodVars, storeVars
<1>15. CASE LateError
  BY <1>15 DEF LateError, prodVars, storeVars
<1>16. CASE NoError
  BY <1>16 DEF NoError, prodVars, storeVars
<1>17. CASE BuildEdges
  BY <1>17 DEF BuildEdges, prodVars, storeVars
<1>18. CASE BuildEdgesFails
  BY <1>18 DEF BuildEdgesFails, prodVars, storeVars
<1>19. ASSUME NEW w \in Worker, Receive(w)
      PROVE  DeliveryInv'
  <2>1. /\ ch # <<>> /\ ch' = Tail(ch) /\ count' = count
        /\ hand' = [hand EXCEPT ![w] = Head(ch)]
    BY <1>19 DEF Receive, prodVars
  <2>2. /\ Head(ch) = Received + 1
        /\ Window(ch', count)
        /\ Len(ch') = Len(ch) - 1
    BY <2>1, WindowReceive
  <2>3. \A v \in Worker : hand'[v] = IF v = w THEN Received + 1 ELSE hand[v]
    BY <2>1, <2>2
  <2>4. UNCHANGED <<ctx, db>> /\ (AnyFailed' <=> AnyFailed) /\ hand[w] = NoChunk
    BY <1>19 DEF Receive, storeVars
  <2>5. Received' = Received + 1
    BY <2>1, <2>2
  <2>6. SUFFICES ASSUME ctx = "live", ~AnyFailed, NEW c \in 1 .. Received + 1
                 PROVE  db[c] = "stored" \/ \E v \in Worker : hand'[v] = c
    BY <2>4, <2>5
  <2>7. CASE c = Received + 1
    BY <2>3, <2>7
  <2>8. CASE c # Received + 1
    <3>1. c \in 1 .. Received /\ c # NoChunk
      BY <2>8
    <3>2. CASE db[c] = "stored"
      BY <3>2
    <3>3. CASE \E v \in Worker : hand[v] = c
      BY <2>3, <2>4, <3>1, <3>3
    <3>4. QED
      BY <2>6, <3>1, <3>2, <3>3
  <2>9. QED
    BY <2>7, <2>8
<1>20. ASSUME NEW w \in Worker, ChannelDrained(w)
      PROVE  DeliveryInv'
  BY <1>20 DEF ChannelDrained, prodVars, storeVars
<1>21. ASSUME NEW w \in Worker, PollCtx(w)
      PROVE  DeliveryInv'
  BY <1>21 DEF PollCtx, prodVars, storeVars
<1>22. ASSUME NEW w \in Worker, Upsert(w)
      PROVE  DeliveryInv'
  <2>1. /\ hand[w] \in Chunk
        /\ db' = [db EXCEPT ![hand[w]] = "stored"]
        /\ \A v \in Worker : v # w => hand'[v] = hand[v]
        /\ UNCHANGED <<ctx, count, ch>>
    BY <1>22 DEF Upsert, prodVars
  <2>2. AnyFailed' <=> AnyFailed
    BY <1>22 DEF Upsert
  <2>3. SUFFICES ASSUME ctx = "live", ~AnyFailed, NEW c \in 1 .. Received
                 PROVE  db'[c] = "stored" \/ \E v \in Worker : hand'[v] = c
    BY <2>1, <2>2
  <2>4. c \in Chunk
    OBVIOUS
  <2>5. CASE c = hand[w]
    BY <2>1, <2>5
  <2>6. CASE c # hand[w]
    <3>1. db'[c] = db[c]
      BY <2>1, <2>4, <2>6
    <3>2. CASE db[c] = "stored"
      BY <3>1, <3>2
    <3>3. CASE \E v \in Worker : hand[v] = c
      BY <2>1, <2>6, <3>3
    <3>4. QED
      BY <2>3, <3>2, <3>3
  <2>7. QED
    BY <2>5, <2>6
<1>23. ASSUME NEW w \in Worker, UpsertFails(w)
      PROVE  DeliveryInv'
  BY <1>23 DEF UpsertFails, prodVars, storeVars
<1>24. ASSUME NEW w \in Worker, Report(w)
      PROVE  DeliveryInv'
  BY <1>24 DEF Report, prodVars, storeVars
<1>25. CASE UNCHANGED vars
  BY <1>25 DEF vars
<1>26. QED
  BY <1>1, <1>2, <1>3, <1>4, <1>5, <1>6, <1>7, <1>8, <1>9, <1>10, <1>11, <1>12, <1>13, <1>14, <1>15, <1>16, <1>17, <1>18, <1>19, <1>20, <1>21, <1>22, <1>23, <1>24, <1>25
     DEF Next, Producer, WorkerStep, Returned

(* Rows are never removed, and the edges are computed when all are written.  *)
LEMMA GraphStep ==
  ASSUME IInv, [Next]_vars
  PROVE  GraphInv'
<1> USE ConstFacts DEF IInv, TypeOK, WorkerInv, ControlInv, GraphInv, Indexed, Ended, AnyFailed, RowState, NoChunk, Chunk
<1>1. CASE Cancel
  BY <1>1 DEF Cancel, prodVars, storeVars
<1>2. CASE Reject
  BY <1>2 DEF Reject, prodVars, storeVars
<1>3. CASE Spawn
  BY <1>3 DEF Spawn, prodVars, storeVars
<1>4. CASE NextFile
  BY <1>4 DEF NextFile, prodVars, storeVars
<1>5. CASE CancelledAtFile
  BY <1>5 DEF CancelledAtFile, Abort, prodVars, storeVars
<1>6. CASE ReadFile
  BY <1>6 DEF ReadFile, prodVars, storeVars
<1>7. CASE ReadFileFails
  BY <1>7 DEF ReadFileFails, Abort, prodVars, storeVars
<1>8. CASE SendChunk
  BY <1>8 DEF SendChunk, Sending, prodVars, storeVars
<1>9. CASE SendCancelled
  BY <1>9 DEF SendCancelled, Abort, Sending, prodVars, storeVars
<1>10. CASE SendSeesError
  BY <1>10 DEF SendSeesError, Abort, Sending, prodVars, storeVars
<1>11. CASE SendTimesOut
  BY <1>11 DEF SendTimesOut, Abort, Sending, prodVars, storeVars
<1>12. CASE FileDone
  BY <1>12 DEF FileDone, prodVars, storeVars
<1>13. CASE AllSent
  BY <1>13 DEF AllSent, prodVars, storeVars
<1>14. CASE Wait
  BY <1>14 DEF Wait, prodVars, storeVars
<1>15. CASE LateError
  BY <1>15 DEF LateError, prodVars, storeVars
<1>16. CASE NoError
  BY <1>16 DEF NoError, prodVars, storeVars
<1>17. CASE BuildEdges
  BY <1>17 DEF BuildEdges, prodVars, storeVars
<1>18. CASE BuildEdgesFails
  BY <1>18 DEF BuildEdgesFails, prodVars, storeVars
<1>19. ASSUME NEW w \in Worker, Receive(w)
      PROVE  GraphInv'
  BY <1>19 DEF Receive, prodVars, storeVars
<1>20. ASSUME NEW w \in Worker, ChannelDrained(w)
      PROVE  GraphInv'
  BY <1>20 DEF ChannelDrained, prodVars, storeVars
<1>21. ASSUME NEW w \in Worker, PollCtx(w)
      PROVE  GraphInv'
  BY <1>21 DEF PollCtx, prodVars, storeVars
<1>22. ASSUME NEW w \in Worker, Upsert(w)
      PROVE  GraphInv'
  BY <1>22 DEF Upsert, prodVars, storeVars
<1>23. ASSUME NEW w \in Worker, UpsertFails(w)
      PROVE  GraphInv'
  BY <1>23 DEF UpsertFails, prodVars, storeVars
<1>24. ASSUME NEW w \in Worker, Report(w)
      PROVE  GraphInv'
  BY <1>24 DEF Report, prodVars, storeVars
<1>25. CASE UNCHANGED vars
  BY <1>25 DEF vars
<1>26. QED
  BY <1>1, <1>2, <1>3, <1>4, <1>5, <1>6, <1>7, <1>8, <1>9, <1>10, <1>11, <1>12, <1>13, <1>14, <1>15, <1>16, <1>17, <1>18, <1>19, <1>20, <1>21, <1>22, <1>23, <1>24, <1>25
     DEF Next, Producer, WorkerStep, Returned

(* The state before the first step: nothing sent, nobody started. *)
LEMMA InitIInv ==
  ASSUME Init
  PROVE  IInv
<1> USE ConstFacts DEF Init
<1>1. TypeOK
  <2>1. db \in [Chunk -> RowState]
    BY DEF RowState
  <2>2. graph \in SUBSET Chunk
    BY DEF Indexed
  <2>3. ch \in Seq(Chunk) /\ Len(ch) <= QueueSize
    OBVIOUS
  <2>4. /\ wpc \in [Worker -> {"idle", "recv", "poll", "upsert", "report"} \cup Ended]
        /\ hand \in [Worker -> Chunk \cup {NoChunk}]
    OBVIOUS
  <2>5. file \in Nat \ {0} /\ count \in 0 .. Total /\ errCh \in 0 .. 1
    OBVIOUS
  <2>6. ctx \in {"live", "done"} /\ ret \in {"none", "ok"} \cup ErrorKind
    OBVIOUS
  <2>7. closed \in BOOLEAN
    OBVIOUS
  <2>8. QED
    BY <2>1, <2>2, <2>3, <2>4, <2>5, <2>6, <2>7 DEF TypeOK
<1>2. PositionInv
  BY DEF PositionInv
<1>3. ControlInv
  BY DEF ControlInv
<1>4. WorkerInv
  BY DEF WorkerInv, AnyFailed, NoChunk
<1>5. QueueInv
  BY DEF QueueInv, Window, Received, NoChunk
<1>6. DeliveryInv
  BY DEF DeliveryInv, Received
<1>7. GraphInv
  BY DEF GraphInv, Indexed
<1>8. QED
  BY <1>1, <1>2, <1>3, <1>4, <1>5, <1>6, <1>7 DEF IInv

(* The inductive invariant holds in every reachable state, for every number  *)
(* of workers, queue size and repository.                                    *)
THEOREM Invariance == Spec => []IInv
<1>1. Init => IInv
  BY InitIInv
<1>2. IInv /\ [Next]_vars => IInv'
  BY TypeStep, PositionStep, ControlStep, WorkerStepInv, QueueStep, DeliveryStep, GraphStep
     DEF IInv
<1>3. QED
  BY <1>1, <1>2, PTL DEF Spec

(* The variables keep their types: the channel never holds more than         *)
(* QueueSize chunks and errCh never more than one error.                     *)
THEOREM TypeCorrect == Spec => []TypeOK
<1>1. IInv => TypeOK
  BY DEF IInv
<1>2. QED
  BY <1>1, Invariance, PTL

(* for c := range ch hands each chunk to one worker. *)
THEOREM OneHolderAlways == Spec => []OneHolder
<1>1. IInv => OneHolder
  <2> SUFFICES ASSUME IInv
               PROVE  OneHolder
    OBVIOUS
  <2>1. ASSUME NEW w \in Worker, NEW i \in DOMAIN ch
        PROVE  hand[w] # ch[i]
    BY <2>1, ConstFacts DEF IInv, TypeOK, QueueInv, Window, Received, Chunk, NoChunk
  <2>2. QED
    BY <2>1 DEF OneHolder, IInv, QueueInv
<1>2. QED
  BY <1>1, Invariance, PTL

(* The producer never faces a full channel that all workers have deserted    *)
(* without errCh or the context telling it so.                               *)
THEOREM NeverAbandonedAlways == Spec => []NeverAbandoned
<1>1. IInv => NeverAbandoned
  BY ConstFacts DEF IInv, TypeOK, ControlInv, WorkerInv, NeverAbandoned, Sending, Ended
<1>2. QED
  BY <1>1, Invariance, PTL

(* On return under a live context and without a failed upsert, the chunks    *)
(* counted are in the store: no early exit abandons the queue.               *)
THEOREM CountedAreStoredAlways == Spec => []CountedAreStored
<1>1. IInv => CountedAreStored
  <2> SUFFICES ASSUME IInv, pc = "returned", ctx = "live", ~AnyFailed,
                      NEW c \in 1 .. count
               PROVE  db[c] = "stored"
    BY DEF CountedAreStored
  <2>1. \A w \in Worker : wpc[w] \in {"drained", "idle"} /\ hand[w] = NoChunk
    BY DEF IInv, ControlInv, WorkerInv, AnyFailed, Ended
  <2>2. wpc[1] = "drained"
    BY <2>1, ConstFacts DEF IInv, TypeOK, ControlInv
  <2>3. ch = <<>>
    BY <2>2, ConstFacts DEF IInv, WorkerInv
  <2>4. c \in 1 .. Received /\ c # NoChunk
    BY <2>3, ConstFacts DEF Received, NoChunk, IInv, TypeOK
  <2>5. QED
    BY <2>1, <2>4 DEF IInv, DeliveryInv
<1>2. QED
  BY <1>1, Invariance, PTL

(* A nil error under a live context means that every chunk of every file is  *)
(* in the store.                                                             *)
THEOREM SuccessMeansStoredAlways == Spec => []SuccessMeansStored
<1>1. IInv /\ CountedAreStored => SuccessMeansStored
  BY DEF IInv, PositionInv, ControlInv, WorkerInv, TypeOK, CountedAreStored,
         SuccessMeansStored, Chunk
<1>2. QED
  BY <1>1, Invariance, CountedAreStoredAlways, PTL

(* No failed upsert is swallowed. *)
THEOREM FailureReportedAlways == Spec => []FailureReported
<1>1. IInv => FailureReported
  BY DEF IInv, WorkerInv, FailureReported
<1>2. QED
  BY <1>1, Invariance, PTL

(* A graph store comes out of a successful ingestion with the edges of every *)
(* row.                                                                      *)
THEOREM EdgesCoverIndexAlways == Spec => []EdgesCoverIndex
<1>1. IInv => EdgesCoverIndex
  BY DEF IInv, GraphInv, EdgesCoverIndex
<1>2. QED
  BY <1>1, Invariance, PTL

(* After IngestRepo has returned its goroutines leave the store alone.       *)
LEMMA QuietStep ==
  ASSUME IInv, [Next]_vars, pc = "returned"
  PROVE  UNCHANGED storeVars /\ pc' = pc /\ ret' = ret /\ count' = count
<1>1. \A w \in Worker : ~WorkerStep(w)
  BY DEF IInv, ControlInv, Ended, WorkerStep, Receive, ChannelDrained, PollCtx,
         Upsert, UpsertFails, Report
<1>2. ~Producer
  BY DEF Producer, Reject, Spawn, NextFile, CancelledAtFile, ReadFile, ReadFileFails,
         SendChunk, SendCancelled, SendSeesError, SendTimesOut, Sending, FileDone,
         AllSent, Wait, LateError, NoError, BuildEdges, BuildEdgesFails
<1>3. CASE Cancel
  BY <1>3 DEF Cancel, storeVars, prodVars
<1>4. CASE UNCHANGED vars
  BY <1>4 DEF vars, storeVars
<1>5. QED
  BY <1>1, <1>2, <1>3, <1>4 DEF Next, Returned

(* No step of any behaviour writes to the store once IngestRepo has returned: *)
(* its caller may query or close it at once.                                 *)
THEOREM QuietAfterReturnAlways == Spec => QuietAfterReturn
<1>1. IInv /\ [Next]_vars => [pc = "returned" => UNCHANGED storeVars]_vars
  BY QuietStep
<1>2. QED
  BY <1>1, Invariance, PTL DEF Spec, QuietAfterReturn

(* A step into "returned" is the Return of the abstract specification. *)
LEMMA ReturnStep ==
  ASSUME IInv, IInv', CountedAreStored', pc # "returned", pc' = "returned", UNCHANGED <<ctx, wpc, db>>,
         graph' = graph \/ (ret' = "ok" /\ EdgeStore)
  PROVE  Ingest!Return
<1>1. AnyFailed' <=> AnyFailed
  BY DEF AnyFailed
<1>2. /\ ret' \in {"ok", "rejected", "cancelled", "read", "upsert", "backpressure", "edges"}
      /\ count' \in 0 .. Total
      /\ ret' = "ok" => ~AnyFailed /\ count' = Total
      /\ ret' = "ok" /\ EdgeStore => graph' = Indexed(db)
  BY <1>1, ConstFacts
     DEF IInv, TypeOK, ControlInv, WorkerInv, PositionInv, GraphInv, ErrorKind, Indexed
<1>3. ctx = "live" /\ ~AnyFailed => \A c \in 1 .. count' : db[c] = "stored"
  BY <1>1 DEF CountedAreStored
<1>4. graph' = IF ret' = "ok" /\ EdgeStore THEN Ingest!Indexed(db) ELSE graph
  BY <1>2 DEF Ingest!Indexed, Ingest!Chunk, Indexed, Chunk
<1>5. QED
  BY <1>1, <1>2, <1>3, <1>4 DEF Ingest!Return

(* A step that changes neither what is visible to the caller nor the store. *)
LEMMA StutterStep ==
  ASSUME UNCHANGED <<ctx, db, graph>>, AnyFailed' = AnyFailed,
         \/ pc # "returned" /\ pc' # "returned"
         \/ UNCHANGED <<pc, ret, count>>
  PROVE  UNCHANGED Ingest!vars
BY DEF Ingest!vars

(* Every step of the pipeline is a step of the specification, or a stutter. *)
LEMMA RefinementStep ==
  ASSUME IInv, IInv', CountedAreStored', [Next]_vars
  PROVE  [Ingest!Next]_Ingest!vars
<1>1. CASE pc = "returned"
  <2>1. CASE Cancel
    BY <1>1, <2>1 DEF Cancel, prodVars, storeVars, AnyFailed, Ingest!Next, Ingest!Expire
  <2>2. CASE ~Cancel
    <3>1. UNCHANGED vars
      BY <1>1, <2>2 DEF Next, Returned, Producer, Reject, Spawn, NextFile, CancelledAtFile,
         ReadFile, ReadFileFails, SendChunk, SendCancelled, SendSeesError, SendTimesOut,
         Sending, FileDone, AllSent, Wait, LateError, NoError, BuildEdges, BuildEdgesFails,
         IInv, ControlInv, Ended, WorkerStep, Receive, ChannelDrained, PollCtx, Upsert,
         UpsertFails, Report
    <3>2. QED
      BY <3>1, StutterStep DEF vars, AnyFailed
  <2>3. QED
    BY <2>1, <2>2
<1>2. CASE pc # "returned"
  <2>1. CASE Cancel
    BY <1>2, <2>1 DEF Cancel, prodVars, storeVars, AnyFailed, Ingest!Next, Ingest!Expire
  <2>2. CASE Producer
    <3>1. CASE pc' = "returned"
      <4>1. UNCHANGED <<ctx, wpc, db>>
        BY <2>2, <3>1 DEF Producer, Reject, Spawn, NextFile, CancelledAtFile, ReadFile,
           ReadFileFails, SendChunk, SendCancelled, SendSeesError, SendTimesOut, Abort,
           FileDone, AllSent, Wait, LateError, NoError, BuildEdges, BuildEdgesFails, storeVars
      <4>2. graph' = graph \/ BuildEdges
        BY <2>2, <3>1 DEF Producer, Reject, Spawn, NextFile, CancelledAtFile, ReadFile,
           ReadFileFails, SendChunk, SendCancelled, SendSeesError, SendTimesOut, Abort,
           FileDone, AllSent, Wait, LateError, NoError, BuildEdgesFails, storeVars
      <4>3. graph' = graph \/ (ret' = "ok" /\ EdgeStore)
        BY <4>2 DEF BuildEdges, IInv, ControlInv
      <4>4. QED
        BY <1>2, <3>1, <4>1, <4>3, ReturnStep DEF Ingest!Next
    <3>2. CASE pc' # "returned"
      <4>1. UNCHANGED <<ctx, db, graph>> /\ AnyFailed' = AnyFailed
        BY <2>2, <3>2 DEF Producer, Reject, Spawn, NextFile, CancelledAtFile, ReadFile,
           ReadFileFails, SendChunk, SendCancelled, SendSeesError, SendTimesOut, Abort,
           FileDone, AllSent, Wait, LateError, NoError, BuildEdges, BuildEdgesFails,
           storeVars, AnyFailed, IInv, ControlInv
      <4>2. QED
        BY <1>2, <3>2, <4>1, StutterStep
    <3>3. QED
      BY <3>1, <3>2
  <2>3. ASSUME NEW w \in Worker, WorkerStep(w)
        PROVE  [Ingest!Next]_Ingest!vars
    <3>1. pc' = pc /\ UNCHANGED <<ctx, graph, ret, count>>
      BY <2>3 DEF WorkerStep, Receive, ChannelDrained, PollCtx, Upsert, UpsertFails, Report,
         prodVars, storeVars
    <3>2. CASE Receive(w) \/ ChannelDrained(w) \/ PollCtx(w) \/ Report(w)
      <4>1. AnyFailed' = AnyFailed /\ db' = db
        BY <3>2 DEF Receive, ChannelDrained, PollCtx, Report, AnyFailed, storeVars,
           IInv, TypeOK
      <4>2. QED
        BY <1>2, <3>1, <4>1, StutterStep
    <3>3. CASE Upsert(w)
      <4>1. hand[w] \in Chunk /\ db' = [db EXCEPT ![hand[w]] = "stored"]
        BY <3>3 DEF Upsert, IInv, WorkerInv
      <4>2. AnyFailed' = AnyFailed
        BY <3>3 DEF Upsert, AnyFailed, IInv, TypeOK
      <4>3. QED
        BY <1>2, <3>1, <4>1, <4>2 DEF Ingest!Next, Ingest!StoreRow, Ingest!Chunk, Chunk
    <3>4. CASE UpsertFails(w)
      <4>1. /\ hand[w] \in Chunk
            /\ \E row \in {db[hand[w]], "partial"} : db' = [db EXCEPT ![hand[w]] = row]
        BY <3>4 DEF UpsertFails, IInv, WorkerInv
      <4>2. AnyFailed' = TRUE
        BY <3>4 DEF UpsertFails, AnyFailed, IInv, TypeOK
      <4>3. QED
        BY <1>2, <3>1, <4>1, <4>2 DEF Ingest!Next, Ingest!RefuseRow, Ingest!Chunk, Chunk
    <3>5. QED
      BY <2>3, <3>2, <3>3, <3>4 DEF WorkerStep
  <2>4. CASE UNCHANGED vars
    BY <2>4, StutterStep DEF vars, AnyFailed
  <2>5. QED
    BY <1>2, <2>1, <2>2, <2>3, <2>4 DEF Next, Returned
<1>3. QED
  BY <1>1, <1>2

(* IngestRepo as written implements what it promises: IngestSpec, with a     *)
(* result visible from the moment the call returns.                          *)
THEOREM Refinement == Spec => ImplementsIngest
<1>1. Init => Ingest!Init
  BY DEF Init, Ingest!Init, Ingest!Chunk, Ingest!Indexed, Chunk, Indexed, AnyFailed
<1>2. IInv /\ IInv' /\ CountedAreStored' /\ [Next]_vars => [Ingest!Next]_Ingest!vars
  BY RefinementStep
<1>3. QED
  BY <1>1, <1>2, Invariance, CountedAreStoredAlways, PTL DEF Spec, ImplementsIngest, Ingest!Spec
=============================================================================
