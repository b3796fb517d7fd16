------------------------------ MODULE Listing -------------------------------
(***************************************************************************)
(* Which files IngestRepo reads, and in which order (listFortranFiles,       *)
(* listMarkdownFiles and dedupFiles in internal/rag/pipeline.go).  A tree is *)
(* the sequence of files in the order of the walk; a file is its path, known *)
(* by its place in the walk and its length, its kind and its content.  Other *)
(* files, and those in .git, vendor and node_modules, are of kind "other".   *)
(***************************************************************************)
EXTENDS Naturals, Sequences, FiniteSets

(* Some positions in a list, in their order; and the files at them.          *)
InOrder(S) ==
  CHOOSE p \in [1 .. Cardinality(S) -> S] : \A i, j \in DOMAIN p : i < j => p[i] < p[j]
FilesAt(files, S) == [i \in 1 .. Cardinality(S) |-> files[InOrder(S)[i]]]

OfKind(tree, k) == FilesAt(tree, {i \in DOMAIN tree : tree[i].kind = k})

(* Fault: the last of the shortest paths is kept. *)
NotLonger(f, g) == f.len <= g.len

Shorter(f, g) == f.len < g.len

(* The map of dedupFiles from contents to the file that is kept.             *)
SeenIn(files) ==
  LET s[n \in 0 .. Len(files)] ==
        IF n = 0 THEN <<>>
        ELSE LET f == files[n]
                 known == f.content \in DOMAIN s[n - 1]
             IN IF known /\ ~Shorter(f, s[n - 1][f.content]) THEN s[n - 1]
                ELSE [c \in DOMAIN s[n - 1] \cup {f.content} |->
                        IF c = f.content THEN f ELSE s[n - 1][c]]
  IN s
Seen(files) == SeenIn(files)[Len(files)]

(* A file that cannot be read ends the ingestion, as in Pipeline's Reject.    *)
DedupFiles(files) ==
  LET kept == {Seen(files)[c].path : c \in DOMAIN Seen(files)}
  IN FilesAt(files, {i \in DOMAIN files : files[i].path \in kept})

(* Fortran files come first; documents are not deduplicated.                 *)
Jobs(tree) == DedupFiles(OfKind(tree, "f90")) \o OfKind(tree, "md")

=============================================================================
