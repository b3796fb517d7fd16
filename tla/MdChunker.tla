------------------------------ MODULE MdChunker ------------------------------
(***************************************************************************)
(* MarkdownChunker.ChunkFile (internal/rag/chunker_md.go): which lines of a  *)
(* document become a chunk.  A line is a heading of the second or the third  *)
(* level, a fence of the frontmatter ("---"), or text; a chunk is the pair   *)
(* of its first and last line.                                               *)
(***************************************************************************)
EXTENDS Integers, Sequences

CONSTANT CfgMdMaxLines  \* the limit of a section as configured

MdLine == {"h2", "h3", "fence", "text"}

ASSUME MdAssumption == CfgMdMaxLines \in Int

(* NewMarkdownChunker. *)
MaxLinesPerSection == IF CfgMdMaxLines <= 0 THEN 80 ELSE CfgMdMaxLines

(* The last line of the frontmatter: the first line is a fence, and the next  *)
(* fence closes it.  Frontmatter that is never closed is none.               *)
FmEnd(lines) ==
  LET fences == {i \in 2 .. Len(lines) : lines[i] = "fence"}
  IN IF lines[1] = "fence" /\ fences # {}
     THEN CHOOSE i \in fences : \A j \in fences : i <= j
     ELSE 0

Headings(lines, k, s, e) == {i \in s .. e : lines[i] = k}

(* splitAtHeadings: each section goes from a heading to the line before the   *)
(* next; lines before the first are in none.                                 *)
SplitAtHeadings(lines, k, s, e) ==
  {sec \in Headings(lines, k, s, e) \X (s .. e) :
     /\ sec[1] <= sec[2]
     /\ Headings(lines, k, sec[1] + 1, sec[2]) = {}
     /\ sec[2] = e \/ lines[sec[2] + 1] = k}

(* Fault: a section is split whenever it has subsections. *)
SplitAlways(lines, sec) == Headings(lines, "h3", sec[1], sec[2]) # {}

(* Is a section too long, and is there something to split it at.             *)
SplitDeeper(lines, sec) ==
  /\ sec[2] - sec[1] + 1 > MaxLinesPerSection
  /\ Headings(lines, "h3", sec[1], sec[2]) # {}

(* ChunkFile. *)
Sections(lines) == SplitAtHeadings(lines, "h2", FmEnd(lines) + 1, Len(lines))

MdChunks(lines) ==
  IF Sections(lines) = {} THEN {<<1, Len(lines)>>}
  ELSE UNION {IF SplitDeeper(lines, sec)
              THEN SplitAtHeadings(lines, "h3", sec[1], sec[2])
              ELSE {sec} : sec \in Sections(lines)}
=============================================================================
