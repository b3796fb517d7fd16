-------------------------------- MODULE Files --------------------------------
(***************************************************************************)
(* Files on their way through ingestion: IngestRepo lists them, hands each to *)
(* the chunker of its kind, and BuildEdges relates the chunks.  The three     *)
(* stages meet in sequence only, so that a behaviour is of one of them: a     *)
(* tree grows file by file and Jobs lists it at any size; a document grows   *)
(* line by line and MdChunks cuts it; a Fortran file is read by Chunker.     *)
(***************************************************************************)
EXTENDS Chunker, MdChunker, Edges, Listing

CONSTANT LastFile   \* bound: files in the repository

VARIABLES
  tree,   \* the repository's files, none once one of them is read
  md      \* the lines of the document, none if the file is Fortran

filesVars == <<vars, tree, md>>

FileKind == {"f90", "md", "other"}
Content == {"a", "b"}

FilesInit == Init /\ tree = <<>> /\ md = <<>>

(* A file more in the repository. *)
AddFile ==
  /\ src = <<>> /\ md = <<>>
  /\ Len(tree) < LastFile
  /\ \E k \in FileKind, c \in Content, l \in 1 .. 2 :
       tree' = Append(tree, [path |-> Len(tree) + 1, kind |-> k, content |-> c, len |-> l])
  /\ UNCHANGED <<vars, md>>

(* A document instead of a Fortran file. *)
AddLine ==
  /\ src = <<>> /\ tree = <<>>
  /\ Len(md) < LastLine
  /\ \E l \in MdLine : md' = Append(md, l)
  /\ UNCHANGED <<vars, tree>>

Fortran == md = <<>> /\ tree = <<>> /\ Next /\ UNCHANGED <<tree, md>>
AllRead == (Len(md) = LastLine \/ Len(tree) = LastFile) /\ UNCHANGED filesVars

FilesNext == AddFile \/ Fortran \/ AddLine \/ AllRead

FilesSpec == FilesInit /\ [][FilesNext]_filesVars

-----------------------------------------------------------------------------
(* The chunks of the Fortran file as BuildEdges sees them.                   *)
Row(p) == [id |-> Id(p), file |-> "f", start |-> p.start, end |-> p.end, t |-> p.t,
           name |-> <<p.name, p.part>>, calls |-> {}, mentions |-> {}]

Parts(i) == {units[i][j] : j \in DOMAIN units[i]}
FileChunks == {Row(p) : p \in UNION {Parts(i) : i \in DOMAIN units}}
Contains == ContainmentEdges(FileChunks)

-----------------------------------------------------------------------------
(* Properties. *)

(* No file in the tree is a better choice for the content of f.              *)
Shortest(f) ==
  \A i \in DOMAIN tree :
    LET g == tree[i] IN
    g.kind = "f90" /\ g.content = f.content /\ g.path # f.path =>
      f.len < g.len \/ (f.len = g.len /\ f.path < g.path)

Before(f, g) ==
  \/ f.kind = "f90" /\ g.kind = "md"
  \/ f.kind = g.kind /\ f.path < g.path

(* Every content of a Fortran file is read, once, under the first of its      *)
(* shortest paths, and every document is; Fortran comes before documents,    *)
(* each in the order of the walk; nothing else is read.                      *)
EachIsReadOnce ==
  LET jobs == Jobs(tree) IN
  /\ {jobs[i] : i \in DOMAIN jobs} =
       {tree[i] : i \in {i \in DOMAIN tree :
          tree[i].kind = "md" \/ (tree[i].kind = "f90" /\ Shortest(tree[i]))}}
  /\ \A i, j \in DOMAIN jobs : i < j => Before(jobs[i], jobs[j])

(* Unit j is a routine nested in unit i, a module or program.                *)
Nested(i, j) ==
  /\ units[i][1].t \in Container /\ units[j][1].t \in Child
  /\ FirstLine(units[i]) < FirstLine(units[j])
  /\ FinalLine(units[j]) < FinalLine(units[i])

Joined(i, j) == {<<Id(p), Id(q), "contains">> : p \in Parts(i), q \in Parts(j)}

(* The containment edges, found by comparing line ranges of parts, agree with *)
(* the nesting the stack saw: none joins units that are not nested, and a    *)
(* module that was not split has one to every part of its routines.          *)
ContainmentIsNesting ==
  /\ \A e \in Contains : \E i, j \in Unit : Nested(i, j) /\ e \in Joined(i, j)
  /\ \A i, j \in Unit : Nested(i, j) /\ Len(units[i]) = 1 => Joined(i, j) \subseteq Contains

(* README: the graph has an edge from a module or program to the routines     *)
(* nested in it, by line range.                                              *)
NestedIsContained ==
  \A i, j \in Unit : Nested(i, j) => Joined(i, j) \cap Contains # {}

Covering(n) == {c \in MdChunks(md) : n \in c[1] .. c[2]}

(* The nearest heading of level k at or above line n, 0 if there is none.     *)
Under(k, n) ==
  LET hs == Headings(md, k, FmEnd(md) + 1, n)
  IN IF hs = {} THEN 0 ELSE CHOOSE h \in hs : \A g \in hs : g <= h

SameSection(m, n) == Under("h2", m) = Under("h2", n)

(* Line n stands between the heading of a long section and its first          *)
(* subsection.                                                               *)
IsIntro(n) ==
  LET here == {m \in FmEnd(md) + 1 .. Len(md) : SameSection(m, n)}
      subs == {m \in here : md[m] = "h3"}
  IN Cardinality(here) > MaxLinesPerSection /\ subs # {} /\ \A m \in subs : n < m

(* The chunks of a document tile it from its first heading on: no line is in  *)
(* two of them, and only the introductions of long sections with subsections *)
(* are in none.  Without headings the document is one chunk; it is never     *)
(* without any.                                                              *)
SectionsTile ==
  md # <<>> =>
    LET headed == Headings(md, "h2", FmEnd(md) + 1, Len(md)) # {} IN
    /\ MdChunks(md) # {}
    /\ \A n \in DOMAIN md :
         Cardinality(Covering(n)) =
           IF headed /\ (Under("h2", n) = 0 \/ IsIntro(n)) THEN 0 ELSE 1
=============================================================================
