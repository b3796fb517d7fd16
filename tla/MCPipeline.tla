----------------------------- MODULE MCPipeline -----------------------------
(* Small instances of one IngestRepo call for TLC. *)
EXTENDS Pipeline

(* Three files: the second is empty of chunks, the third has more chunks than *)
(* the queue has room for.                                                   *)
MCLastChunk == <<1, 1, 4>>

(* A smaller repository, for liveness. *)
MCLastChunkSmall == <<0, 2>>
=============================================================================
