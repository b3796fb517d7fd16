------------------------------ MODULE Chunker -------------------------------
(***************************************************************************)
(* FortranChunker.ChunkFile (internal/rag/chunker.go): one pass over the     *)
(* lines of a file with a stack of open program units.  A line is known by   *)
(* what the regular expressions make of it: it opens a unit, ends one,       *)
(* declares variables, or none of these; and by whether it ends with "&",    *)
(* which makes joinContinuationLines swallow the line after it.              *)
(***************************************************************************)
EXTENDS Integers, Sequences, FiniteSets

CONSTANTS
  CfgMaxLines,  \* the limit as configured
  UnitType,     \* types of units a file may open
  Name,         \* their names
  LastLine      \* bound: lines in a file

Routine == {"subroutine", "function"}

ASSUME ChunkerAssumption ==
  /\ CfgMaxLines \in Int
  /\ LastLine \in Nat
  /\ UnitType \subseteq {"module", "program", "interface", "type"} \cup Routine

(* NewFortranChunker. *)
MaxLines == IF CfgMaxLines <= 0 THEN 180 ELSE CfgMaxLines

VARIABLES
  src,        \* what each line read so far is, joined lines being empty
  joining,    \* is the next line swallowed
  stack,      \* the open units, innermost last
  units,      \* the chunks of each unit closed so far, in the order of closing
  ended       \* has the end of the file been reached

vars == <<src, joining, stack, units, ended>>

LineNo == 1 .. LastLine
Line == {[k |-> "open", t |-> t] : t \in UnitType}
          \cup {[k |-> k, t |-> "none"] : k \in {"end", "glued", "decl", "text"}}
Text == [k |-> "text", t |-> "none"]

Scope == [t : UnitType, name : Name, start : LineNo, decls : SUBSET LineNo]
Part == [t : UnitType \cup {"unknown"}, name : Name \cup {"base"}, part : 0 .. LastLine,
         start : LineNo, end : LineNo, decls : SUBSET LineNo]

TypeOK ==
  /\ src \in Seq(Line) /\ Len(src) <= LastLine
  /\ joining \in BOOLEAN
  /\ stack \in Seq(Scope)
  /\ units \in Seq(Seq(Part))
  /\ ended \in BOOLEAN

Init ==
  /\ src = <<>>
  /\ joining = FALSE
  /\ stack = <<>>
  /\ units = <<>>
  /\ ended = FALSE

-----------------------------------------------------------------------------
(* The line that is read next, and what is done with it. *)

Ln == Len(src) + 1

ReadLine(line) ==
  /\ ~ended
  /\ Ln <= LastLine
  /\ src' = Append(src, line)
  /\ UNCHANGED ended

(* A line that continues the one before has been merged into it; whether it   *)
(* ends with "&" itself decides on the next.                                 *)
Swallow ==
  /\ joining
  /\ ReadLine(Text)
  /\ joining' \in BOOLEAN
  /\ UNCHANGED <<stack, units>>

Logical(line) == ~joining /\ ReadLine(line) /\ joining' \in BOOLEAN

(* Fault: lines are numbered from zero. *)
OpenUnitZeroBased(t) ==
  /\ Logical([k |-> "open", t |-> t])
  /\ \E n \in Name :
       stack' = Append(stack, [t |-> t, name |-> n, start |-> Ln - 1, decls |-> {}])
  /\ UNCHANGED units

OpenUnit(t) ==
  /\ Logical([k |-> "open", t |-> t])
  /\ \E n \in Name :
       stack' = Append(stack, [t |-> t, name |-> n, start |-> Ln, decls |-> {}])
  /\ UNCHANGED units

(* Other text: "endsubroutine" and the like included, which the test for the  *)
(* prefix "end " keeps from the test for the end of a unit.                  *)
OtherLine ==
  /\ \E k \in {"text", "glued"} : Logical([k |-> k, t |-> "none"])
  /\ UNCHANGED <<stack, units>>

(* Fault: the outermost routine is found first. *)
InnermostOutwards(s) ==
  LET R == {j \in DOMAIN s : s[j].t \in Routine}
  IN IF R = {} THEN 0 ELSE CHOOSE j \in R : \A i \in R : j <= i

(* The search from the top of the stack; 0 if no routine is open. *)
Innermost(s) ==
  LET R == {j \in DOMAIN s : s[j].t \in Routine}
  IN IF R = {} THEN 0 ELSE CHOOSE j \in R : \A i \in R : i <= j

(* mergeIntent and mergeType: the declaration is the innermost routine's. *)
Declare ==
  /\ Logical([k |-> "decl", t |-> "none"])
  /\ LET j == Innermost(stack) IN
       stack' = IF j = 0 THEN stack ELSE [stack EXCEPT ![j].decls = @ \cup {Ln}]
  /\ UNCHANGED units

(* Fault: the line range is left out of the identifier. *)
IdByName(p) == <<p.name, p.part>>

(* The identifier of a chunk within its file.  The name of a part is the      *)
(* unit's with a suffix; that no unit has such a name of its own is assumed.   *)
Id(p) == <<p.start, p.end, p.name, p.part>>

(* Fault: one line less in every part but the first. *)
SplitShort(open, ln) ==
  LET len == ln - open.start + 1
      n == (len + MaxLines - 1) \div MaxLines
  IN [i \in 1 .. n |->
       [t |-> open.t, name |-> open.name, part |-> IF n = 1 THEN 0 ELSE i,
        start |-> open.start + (i - 1) * MaxLines + (IF i > 1 THEN 1 ELSE 0),
        end |-> IF i = n THEN ln ELSE open.start + i * MaxLines - 1,
        decls |-> open.decls]]

(* buildChunkFromLines and splitChunkByLines: a unit in parts of MaxLines,    *)
(* numbered if there is more than one.                                       *)
Split(open, ln) ==
  LET len == ln - open.start + 1
      n == (len + MaxLines - 1) \div MaxLines
  IN [i \in 1 .. n |->
       [t |-> open.t, name |-> open.name, part |-> IF n = 1 THEN 0 ELSE i,
        start |-> open.start + (i - 1) * MaxLines,
        end |-> IF i = n THEN ln ELSE open.start + i * MaxLines - 1,
        decls |-> open.decls]]

(* Fault: the outermost unit is closed. *)
EndUnitOutermost ==
  /\ Logical([k |-> "end", t |-> "none"])
  /\ IF stack = <<>> THEN UNCHANGED <<stack, units>>
     ELSE /\ stack' = Tail(stack)
          /\ units' = Append(units, Split(Head(stack), Ln))

(* "end", alone or with a unit's keyword, closes the innermost open unit,     *)
(* whatever its type.                                                        *)
EndUnit ==
  /\ Logical([k |-> "end", t |-> "none"])
  /\ IF stack = <<>> THEN UNCHANGED <<stack, units>>
     ELSE /\ stack' = SubSeq(stack, 1, Len(stack) - 1)
          /\ units' = Append(units, Split(stack[Len(stack)], Ln))

(* Units still open are dropped; a file without any chunk is one as a whole.  *)
EndOfFile ==
  /\ ~ended
  /\ src # <<>>
  /\ ended' = TRUE
  /\ units' = IF units # <<>> THEN units
              ELSE << << [t |-> "unknown", name |-> "base", part |-> 0,
                          start |-> 1, end |-> Len(src), decls |-> {}] >> >>
  /\ UNCHANGED <<src, joining, stack>>

Done == ended /\ UNCHANGED vars

Next ==
  \/ Swallow \/ OtherLine \/ Declare \/ EndUnit \/ EndOfFile \/ Done
  \/ \E t \in UnitType : OpenUnit(t)

Spec == Init /\ [][Next]_vars

-----------------------------------------------------------------------------
(* Properties. *)

Count(k, s, e) == Cardinality({i \in s .. e : src[i].k = k})
Depth(s, e) == Count("open", s, e) - Count("end", s, e)

(* Lines s and e are an opening and the end that balances it. *)
Matched(s, e) ==
  /\ src[s].k = "open" /\ s < e
  /\ Depth(s, e) = 0
  /\ \A m \in s .. e - 1 : Depth(s, m) > 0

FirstLine(u) == u[1].start
FinalLine(u) == u[Len(u)].end

(* Is u the chunk of a file that has no other. *)
WholeFile(u) == u[1].t = "unknown"
Unit == {i \in DOMAIN units : ~WholeFile(units[i])}

(* The stack finds the pairs that counting openings and ends finds: every     *)
(* unit that is complete becomes a chunk with its own first and last line,    *)
(* stray ends and unclosed units do no harm to the units around them.  And no *)
(* file disappears: if nothing in it could be matched it is indexed whole.   *)
UnitsAreMatchedPairs ==
  LET pairs == {c \in (DOMAIN src) \X (DOMAIN src) : Matched(c[1], c[2])} IN
  /\ {<<FirstLine(units[i]), FinalLine(units[i])>> : i \in Unit} = pairs
  /\ ended /\ pairs = {} =>
       \E i \in DOMAIN units : FirstLine(units[i]) = 1 /\ FinalLine(units[i]) = Len(src)

(* The parts of a unit tile it: no line is lost or in two parts, none is      *)
(* longer than the limit, and a unit within the limit is left whole.          *)
PartsTile ==
  \A i \in Unit :
    LET u == units[i] IN
    /\ \A j \in DOMAIN u : u[j].start <= u[j].end /\ u[j].end - u[j].start < MaxLines
    /\ \A j \in DOMAIN u : j > 1 => u[j].start = u[j - 1].end + 1
    /\ Len(u) > 1 => FinalLine(u) - FirstLine(u) >= MaxLines

(* No two chunks of a file have the same identifier, so that none overwrites  *)
(* another in the store: neither parts of one unit nor units that share lines. *)
IdsAreDistinct ==
  \A i, j \in DOMAIN units : \A x \in DOMAIN units[i], y \in DOMAIN units[j] :
    Id(units[i][x]) = Id(units[j][y]) => i = j /\ x = y

(* A declaration describes the parameters of the routine it stands in: the    *)
(* closest routine whose lines enclose it, and no other.                      *)
DeclsAreInnermost ==
  \A i, j \in Unit : \A d \in units[i][1].decls :
    /\ d \in FirstLine(units[i]) .. FinalLine(units[i])
    /\ units[j][1].t \in Routine /\ FirstLine(units[i]) < FirstLine(units[j]) =>
         d \notin FirstLine(units[j]) .. FinalLine(units[j])

(* The comment on reEndUnit: it recognises "end" with a unit's keyword, with   *)
(* or without a space between them.                                          *)
EndKeywordCloses ==
  [][Len(src') > Len(src) /\ src'[Len(src')].k \in {"end", "glued"} /\ stack # <<>>
       => Len(stack') < Len(stack)]_vars
=============================================================================
