-------------------------------- MODULE Edges --------------------------------
(***************************************************************************)
(* The graph over chunks (internal/rag/edges.go): which chunk contains,      *)
(* calls or documents which, computed from all rows of a CozoDB store.       *)
(*                                                                         *)
(* A chunk is a record of its identifier, file, first and last line, type,   *)
(* name, and the names its text calls or mentions.  Names are compared in    *)
(* lower case by the code, and so are the same here or different.            *)
(***************************************************************************)
EXTENDS Integers

NoName == "no name"

Container == {"module", "program"}
Child == {"subroutine", "function"}

(* Fault: overlapping is enough. *)
EnclosesStart(p, c) == p.file = c.file /\ c.start > p.start /\ c.start <= p.end

(* Does p enclose c: a child on the first line of its parent is not enclosed. *)
Encloses(p, c) == p.file = c.file /\ c.start > p.start /\ c.end <= p.end

(* ExtractContainmentEdges. *)
ContainmentEdges(chunks) ==
  UNION {{<<p.id, c.id, "contains">> : c \in {c \in chunks : c.t \in Child /\ Encloses(p, c)}}
          : p \in {p \in chunks : p.t \in Container}}

(* BuildNameIndex, for every order the database may return the rows in: a     *)
(* name that several chunks have is the last one's.                          *)
NameIndexes(chunks) ==
  LET code == {c \in chunks : c.t # "doc" /\ c.name # NoName}
      names == {c.name : c \in code}
  IN {idx \in [names -> {c.id : c \in code}] :
        \A n \in names : \E c \in code : c.name = n /\ c.id = idx[n]}

(* Fault: calls are not looked up, as if the name were the identifier. *)
CallEdgesByName(chunks, idx) ==
  UNION {{<<c.id, n, "calls">> : n \in c.calls} : c \in chunks}

(* ExtractCallEdges: from each piece of code to what its calls resolve to,    *)
(* except itself.                                                            *)
CallEdges(chunks, idx) ==
  UNION {{<<c.id, idx[n], "calls">> : n \in {n \in c.calls \cap DOMAIN idx : idx[n] # c.id}}
          : c \in {c \in chunks : c.t # "doc"}}

(* ExtractDocEdges: between a document and the code whose name occurs in its  *)
(* text, both ways; names of one or two letters do not count.                *)
DocEdges(chunks, idx, short) ==
  UNION {UNION {{<<c.id, idx[n], "documents">>, <<idx[n], c.id, "documents">>}
                 : n \in (c.mentions \cap DOMAIN idx) \ short}
          : c \in {c \in chunks : c.t = "doc"}}

(* CozoStore.BuildEdges: the sets of edges it may compute from the rows.     *)
EdgeSets(chunks, short) ==
  {ContainmentEdges(chunks) \cup CallEdges(chunks, idx) \cup DocEdges(chunks, idx, short)
     : idx \in NameIndexes(chunks)}
=============================================================================
