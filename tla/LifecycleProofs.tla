-------------------------- MODULE LifecycleProofs ---------------------------
(***************************************************************************)
(* Proofs about the life of an index: for any number of sessions, benchmarks,  *)
(* deadlines and interruptions, and a repository that is edited at any time,  *)
(* who has ingested answers from what it stored, and no row is lost or goes    *)
(* back except between ingestions that run side by side.                     *)
(***************************************************************************)
EXTENDS Lifecycle, TLAPS

(* Rows are of versions that exist and have them, and so are the rows that     *)
(* sessions have read; what was ingested whole is there.                     *)
RowInv ==
  /\ \A i \in Id : rows[i] <= repo /\ (i \in Indexed => i \in Ids(ChunksOf[rows[i]]))
  /\ \A s \in Session, i \in Id : snap[s][i] # Absent => i \in Ids(ChunksOf[snap[s][i]])
  /\ complete \subseteq Indexed

(* What the place of session s says of its ingestion.                        *)
PlaceInvOf(s) ==
  /\ \A f \in File : seen[s][f] <= repo /\ (f \in unread[s] => seen[s][f] = Absent)
  /\ todo[s] \subseteq Ids(Ingested(s))
  /\ pc[s] # "ingest" => unread[s] = {} /\ todo[s] = {}
  /\ pc[s] = "ingest" => unread[s] # {} \/ HasIngested(s)
  /\ pc[s] \in {"edges", "put"} => HasIngested(s)
  /\ pc[s] = "off" => ~HasIngested(s)
  /\ pc[s] = "serve" /\ ~HasIngested(s) => Indexed # {}

(* What was ingested, and is not still to be stored or dropped, is in the index *)
(* and in what was read for the edges; what is the session's own is as it was  *)
(* when the session read it.                                                 *)
StoredInvOf(s) ==
  /\ own[s] \subseteq Ids(Ingested(s))
  /\ \A c \in Ingested(s) :
       /\ c.id \notin todo[s] \cup dropped[s] =>
            c.id \in Indexed /\ (pc[s] = "put" => snap[s][c.id] # Absent)
       /\ c.id \in own[s] =>
            /\ c.id \notin todo[s] /\ rows[c.id] = seen[s][c.file]
            /\ pc[s] = "put" => snap[s][c.id] = seen[s][c.file]

(* An ingestion that nobody's overlaps finds older rows and leaves newer ones, *)
(* and whoever ingests after it reads newer files.                           *)
OrderInvOf(s) ==
  s \notin overlapped =>
    /\ \A c \in Ingested(s) :
         /\ c.id \in todo[s] => rows[c.id] <= seen[s][c.file]
         /\ c.id \notin todo[s] \cup dropped[s] => rows[c.id] >= seen[s][c.file]
    /\ \A q \in Session \ {s} : pc[q] = "ingest" =>
         /\ pc[s] # "ingest"
         /\ \A f \in File : seen[q][f] # Absent => seen[s][f] <= seen[q][f]

(* The edges of what is the session's own are in the graph once they are put.  *)
GraphInvOf(s) == GraphStore /\ pc[s] \in {"count", "serve"} => GraphIsServed(s)

SessionInvOf(s) == PlaceInvOf(s) /\ StoredInvOf(s) /\ OrderInvOf(s) /\ GraphInvOf(s)

LInv == TypeOK /\ RowInv /\ \A s \in Session : SessionInvOf(s)

-----------------------------------------------------------------------------
(* Chunks, versions and identifiers. *)

LEMMA Versions ==
  /\ Version \subseteq Nat
  /\ \A v \in Version : v # Absent
  /\ 1 \in Version
  BY LifecycleAssumption DEF Absent

LEMMA ChunkFacts ==
  ASSUME NEW v \in Version, NEW c \in ChunksOf[v]
  PROVE  c \in Chunk /\ c.id \in Id /\ c.id \in Ids(ChunksOf[v]) /\ ChunkAt(c.id, v) = c
<1>1. c.id \in Ids(ChunksOf[v])
  BY DEF Ids
<1>2. c \in Chunk /\ c.id \in Id
  BY <1>1 DEF Chunk, Id
<1>3. ChunkAt(c.id, v) \in ChunksOf[v] /\ ChunkAt(c.id, v).id = c.id
  BY DEF ChunkAt
<1>4. ChunkAt(c.id, v) = c
  BY <1>3, LifecycleAssumption
<1>5. QED
  BY <1>1, <1>2, <1>4

LEMMA ChunkAtFacts ==
  ASSUME NEW v \in Version, NEW i \in Ids(ChunksOf[v])
  PROVE  ChunkAt(i, v) \in ChunksOf[v] /\ ChunkAt(i, v).id = i /\ i \in Id
  BY DEF ChunkAt, Ids, Id

LEMMA SameId ==
  ASSUME NEW c \in Chunk, NEW d \in Chunk, c.id = d.id
  PROVE  c.file = d.file /\ c.name = d.name /\ (c.t = "doc" <=> d.t = "doc")
<1>1. PICK v \in Version : c \in ChunksOf[v]
  BY DEF Chunk
<1>2. PICK w \in Version : d \in ChunksOf[w]
  BY DEF Chunk
<1>3. QED
  BY <1>1, <1>2, LifecycleAssumption

-----------------------------------------------------------------------------
(* The graph. *)

(* A name resolves to a piece of code of that name, and resolves if there is   *)
(* one.                                                                      *)
LEMMA IndexFacts ==
  ASSUME NEW S \in SUBSET Chunk, NEW idx \in NameIndexes(S)
  PROVE  /\ DOMAIN idx = {c.name : c \in {c \in S : c.t # "doc" /\ c.name # NoName}}
         /\ \A n \in DOMAIN idx : idx[n] \in Named(n) /\ idx[n] \in Id
<1> DEFINE code == {c \in S : c.t # "doc" /\ c.name # NoName}
           names == {c.name : c \in code}
<1>1. /\ DOMAIN idx = names
      /\ \A n \in names : \E c \in code : c.name = n /\ c.id = idx[n]
  BY DEF NameIndexes
<1>2. ASSUME NEW n \in names PROVE idx[n] \in Named(n) /\ idx[n] \in Id
  <2>1. PICK c \in code : c.name = n /\ c.id = idx[n]
    BY <1>1, <1>2
  <2>2. c \in Chunk /\ c.t # "doc"
    OBVIOUS
  <2>3. c.id \in Id
    BY <2>2, ChunkFacts DEF Chunk
  <2>4. QED
    BY <2>1, <2>2, <2>3 DEF Named, Code
<1>3. QED
  BY <1>1, <1>2

(* Edges are of chunks. *)
LEMMA EdgesTyped ==
  ASSUME NEW S \in SUBSET Chunk, NEW found \in EdgeSets(S, Short)
  PROVE  found \in SUBSET (Id \X Id \X Relation)
<1>1. PICK idx \in NameIndexes(S) :
        found = ContainmentEdges(S) \cup CallEdges(S, idx) \cup DocEdges(S, idx, Short)
  BY DEF EdgeSets
<1>2. \A c \in S : c.id \in Id
  BY ChunkFacts DEF Chunk
<1>3. \A n \in DOMAIN idx : idx[n] \in Id
  BY IndexFacts
<1>4. ContainmentEdges(S) \subseteq Id \X Id \X Relation
  BY <1>2 DEF ContainmentEdges, Relation
<1>5. CallEdges(S, idx) \subseteq Id \X Id \X Relation
  BY <1>2, <1>3 DEF CallEdges, Relation
<1>6. DocEdges(S, idx, Short) \subseteq Id \X Id \X Relation
  BY <1>2, <1>3 DEF DocEdges, Relation
<1>7. QED
  BY <1>1, <1>4, <1>5, <1>6

(* GraphIsServed as a relation of the rows kept, the names known and the edges. *)
ServedBy(kept, known, e) ==
  /\ ContainmentEdges(kept) \subseteq e
  /\ \A c \in kept \cap Code : \A n \in (c.calls \cap known) \ {c.name} :
       \E t \in Named(n) : <<c.id, t, "calls">> \in e
  /\ \A d \in kept \ Code : \A n \in (d.mentions \cap known) \ Short :
       \E t \in Named(n) :
         {<<d.id, t, "documents">>, <<t, d.id, "documents">>} \subseteq e

LEMMA ServedIs ==
  ASSUME NEW s \in Session
  PROVE  GraphIsServed(s) <=> ServedBy(Kept(s), Known(s), edges)
  BY DEF GraphIsServed, ServedBy

(* Fewer rows and more edges are served as well. *)
LEMMA ServedMonotone ==
  ASSUME NEW k, NEW k2 \in SUBSET k, NEW known, NEW e, NEW e2, e \subseteq e2,
         ServedBy(k, known, e)
  PROVE  ServedBy(k2, known, e2)
<1>1. ContainmentEdges(k2) \subseteq ContainmentEdges(k)
  BY DEF ContainmentEdges
<1>2. QED
  BY <1>1 DEF ServedBy

(* The edges computed from chunks S serve every part of S, whose names S knows. *)
LEMMA ExtractServes ==
  ASSUME NEW S \in SUBSET Chunk, NEW found \in EdgeSets(S, Short), NEW k \in SUBSET S,
         NEW known, NoName \notin known,
         \A n \in known : \E c \in S : c.t # "doc" /\ c.name = n
  PROVE  ServedBy(k, known, found)
<1>1. PICK idx \in NameIndexes(S) :
        found = ContainmentEdges(S) \cup CallEdges(S, idx) \cup DocEdges(S, idx, Short)
  BY DEF EdgeSets
<1>2. \A n \in known : n \in DOMAIN idx /\ idx[n] \in Named(n)
  <2>1. /\ DOMAIN idx = {c.name : c \in {c \in S : c.t # "doc" /\ c.name # NoName}}
        /\ \A n \in DOMAIN idx : idx[n] \in Named(n)
    BY IndexFacts
  <2>2. ASSUME NEW n \in known PROVE n \in DOMAIN idx
    <3>1. PICK c \in S : c.t # "doc" /\ c.name = n
      OBVIOUS
    <3>2. c.name # NoName
      BY <3>1
    <3>3. QED
      BY <2>1, <3>1, <3>2
  <2>3. QED
    BY <2>1, <2>2
<1>3. ContainmentEdges(k) \subseteq found
  <2>1. ContainmentEdges(k) \subseteq ContainmentEdges(S)
    BY DEF ContainmentEdges
  <2>2. QED
    BY <1>1, <2>1
<1>4. ASSUME NEW c \in k \cap Code, NEW n \in (c.calls \cap known) \ {c.name}
      PROVE  <<c.id, idx[n], "calls">> \in found
  <2>1. idx[n] # c.id
    <3>1. PICK d \in Code : d.name = n /\ d.id = idx[n]
      BY <1>2 DEF Named
    <3>2. QED
      BY <3>1, SameId DEF Code
  <2>2. c \in {b \in S : b.t # "doc"}
    BY DEF Code
  <2>3. n \in {m \in c.calls \cap DOMAIN idx : idx[m] # c.id}
    BY <1>2, <2>1
  <2>4. <<c.id, idx[n], "calls">> \in CallEdges(S, idx)
    BY <2>2, <2>3 DEF CallEdges
  <2>5. QED
    BY <1>1, <2>4
<1>5. ASSUME NEW d \in k \ Code, NEW n \in (d.mentions \cap known) \ Short
      PROVE  {<<d.id, idx[n], "documents">>, <<idx[n], d.id, "documents">>} \subseteq found
  <2>1. d \in {c \in S : c.t = "doc"}
    BY DEF Code
  <2>2. n \in (d.mentions \cap DOMAIN idx) \ Short
    BY <1>2
  <2>3. {<<d.id, idx[n], "documents">>, <<idx[n], d.id, "documents">>}
          \subseteq DocEdges(S, idx, Short)
    BY <2>1, <2>2 DEF DocEdges
  <2>4. QED
    BY <1>1, <2>3
<1>6. QED
  BY <1>2, <1>3, <1>4, <1>5 DEF ServedBy

-----------------------------------------------------------------------------
(* Steps. *)

LEMMA AfterFacts ==
  ASSUME NEW s \in Session
  PROVE  AfterIngest(s) \in {"count", "serve"} /\ AfterRows(s) \in {"edges", "count", "serve"}
         /\ (GraphStore => AfterRows(s) = "edges")
  BY DEF AfterIngest, AfterRows

(* Versions are numbers, and so is everything that is one or absent. *)
LEMMA Numbers == Version \cup {Absent} \subseteq Nat /\ \A n \in Version : n > 0
  BY LifecycleAssumption DEF Absent

LEMMA NumbersAre ==
  ASSUME TypeOK
  PROVE  /\ repo \in Nat
         /\ \A i \in Id : rows[i] \in Nat
         /\ \A s \in Session, f \in File : seen[s][f] \in Nat
         /\ \A s \in Session, i \in Id : snap[s][i] \in Nat
  BY Numbers DEF TypeOK

LEMMA NumbersStay ==
  ASSUME TypeOK'
  PROVE  /\ repo' \in Nat
         /\ \A i \in Id : rows'[i] \in Nat
         /\ \A s \in Session, f \in File : seen'[s][f] \in Nat
         /\ \A s \in Session, i \in Id : snap'[s][i] \in Nat
  BY Numbers DEF TypeOK

(* What is listed is files, and what is reset is of its type. *)
LEMMA ListedFacts ==
  ASSUME repo \in Version
  PROVE  Listed[repo] \in SUBSET File /\ Nothing \in [File -> Version \cup {Absent}]
  BY DEF File, Nothing

(* The chunks of file f in version v. *)
LEMMA FileFacts ==
  ASSUME NEW f \in File, NEW v \in Version
  PROVE  /\ Ids(FileAt(f, v)) \subseteq Ids(ChunksOf[v])
         /\ Ids(FileAt(f, v)) \subseteq Id
  BY DEF FileAt, Ids, Id

(* A chunk a session has ingested is one of the version it read of its file.  *)
LEMMA IngestedFacts ==
  ASSUME TypeOK, NEW s \in Session, NEW c \in Ingested(s)
  PROVE  /\ c.file \in File /\ seen[s][c.file] \in Version
         /\ c \in ChunksOf[seen[s][c.file]]
         /\ c \in Chunk /\ c.id \in Id /\ c.id \in Ids(Ingested(s))
         /\ c.id \in Ids(ChunksOf[seen[s][c.file]])
         /\ ChunkAt(c.id, seen[s][c.file]) = c
<1>1. PICK f \in File : seen[s][f] # Absent /\ c \in FileAt(f, seen[s][f])
  BY DEF Ingested
<1>2. c.file = f /\ c \in ChunksOf[seen[s][f]]
  BY <1>1 DEF FileAt
<1>3. seen[s][f] \in Version
  BY <1>1 DEF TypeOK
<1>4. c.id \in Ids(Ingested(s))
  BY DEF Ids
<1>5. QED
  BY <1>1, <1>2, <1>3, <1>4, ChunkFacts

(* Two chunks it has ingested have different identifiers. *)
LEMMA OneOfEachId ==
  ASSUME TypeOK, NEW s \in Session, NEW c \in Ingested(s), NEW d \in Ingested(s), c.id = d.id
  PROVE  c = d
<1>1. c.file \in File /\ seen[s][c.file] \in Version /\ c \in ChunksOf[seen[s][c.file]]
  BY IngestedFacts
<1>2. d.file \in File /\ seen[s][d.file] \in Version /\ d \in ChunksOf[seen[s][d.file]]
  BY IngestedFacts
<1>3. c.file = d.file
  BY <1>1, <1>2, LifecycleAssumption
<1>4. QED
  BY <1>1, <1>2, <1>3, LifecycleAssumption

LEMMA IngestedHas ==
  ASSUME NEW s \in Session, NEW c, c.file \in File, seen[s][c.file] # Absent,
         c \in ChunksOf[seen[s][c.file]]
  PROVE  c \in Ingested(s)
<1>1. c \in FileAt(c.file, seen[s][c.file])
  BY DEF FileAt
<1>2. QED
  BY <1>1 DEF Ingested

(* Who has read nothing has ingested nothing. *)
LEMMA NothingIngested ==
  ASSUME NEW s \in Session, seen[s] = Nothing
  PROVE  Ingested(s) = {}
  BY DEF Ingested, Nothing, Absent

(* The row that is written is of a chunk there is, in the version it was read in. *)
LEMMA StoreFacts ==
  ASSUME LInv, NEW s \in Session, StoreRow(s)
  PROVE  \E c \in Ingested(s) :
           /\ c.id \in todo[s] /\ c.id \in Id
           /\ seen[s][c.file] \in Version /\ c.id \in Ids(ChunksOf[seen[s][c.file]])
           /\ rows' = [rows EXCEPT ![c.id] = seen[s][c.file]]
           /\ todo' = [todo EXCEPT ![s] = @ \ {c.id}]
           /\ own' = [q \in Session |->
                        IF q = s THEN own[q] \cup {c.id}
                        ELSE IF rows[c.id] = seen[s][c.file] THEN own[q] ELSE own[q] \ {c.id}]
<1>1. PICK c \in Ingested(s) :
           /\ c.id \in todo[s]
           /\ rows' = [rows EXCEPT ![c.id] = seen[s][c.file]]
           /\ todo' = [todo EXCEPT ![s] = @ \ {c.id}]
           /\ own' = [q \in Session |->
                        IF q = s THEN own[q] \cup {c.id}
                        ELSE IF rows[c.id] = seen[s][c.file] THEN own[q] ELSE own[q] \ {c.id}]
  BY DEF StoreRow
<1>2. /\ c.id \in Id /\ seen[s][c.file] \in Version
      /\ c.id \in Ids(ChunksOf[seen[s][c.file]])
  BY IngestedFacts DEF LInv
<1>3. QED
  BY <1>1, <1>2

LEMMA StoreTypes ==
  ASSUME LInv, NEW s \in Session, StoreRow(s)
  PROVE  /\ rows' \in [Id -> Version \cup {Absent}] /\ todo' \in [Session -> SUBSET Id]
         /\ own' \in [Session -> SUBSET Id]
<1>1. PICK c \in Ingested(s) :
           /\ c.id \in Id /\ seen[s][c.file] \in Version
           /\ rows' = [rows EXCEPT ![c.id] = seen[s][c.file]]
           /\ todo' = [todo EXCEPT ![s] = @ \ {c.id}]
           /\ own' = [q \in Session |->
                        IF q = s THEN own[q] \cup {c.id}
                        ELSE IF rows[c.id] = seen[s][c.file] THEN own[q] ELSE own[q] \ {c.id}]
  BY StoreFacts
<1>2. QED
  BY <1>1 DEF LInv, TypeOK

(* What is read for the edges is of chunks, and has the rows that were read. *)
LEMMA ReadFacts ==
  ASSUME LInv, NEW s \in Session
  PROVE  /\ Read(s) \subseteq Chunk
         /\ \A i \in Id : snap[s][i] # Absent =>
              /\ snap[s][i] \in Version
              /\ ChunkAt(i, snap[s][i]) \in Read(s)
              /\ ChunkAt(i, snap[s][i]).id = i
<1>1. ASSUME NEW i \in Id, snap[s][i] # Absent
      PROVE  /\ snap[s][i] \in Version
             /\ ChunkAt(i, snap[s][i]) \in ChunksOf[snap[s][i]]
             /\ ChunkAt(i, snap[s][i]).id = i
  <2>1. snap[s][i] \in Version
    BY <1>1 DEF LInv, TypeOK
  <2>2. i \in Ids(ChunksOf[snap[s][i]])
    BY <1>1 DEF LInv, RowInv
  <2>3. QED
    BY <2>1, <2>2, ChunkAtFacts
<1>2. Read(s) \subseteq Chunk
  BY <1>1 DEF Read, Chunk
<1>3. QED
  BY <1>1, <1>2 DEF Read

(* Everything keeps its type. *)
LEMMA TypeStep ==
  ASSUME LInv, [Next]_vars
  PROVE  TypeOK'
<1>a. ASSUME NEW s \in Session, StoreRow(s)
      PROVE  /\ rows' \in [Id -> Version \cup {Absent}] /\ todo' \in [Session -> SUBSET Id]
             /\ own' \in [Session -> SUBSET Id]
  BY <1>a, StoreTypes
<1> USE LifecycleAssumption, Versions DEF LInv, TypeOK, disk, session, plan, history
<1>1. CASE Edit
  BY <1>1 DEF Edit
<1>2. ASSUME NEW s \in Session, Launch(s) PROVE TypeOK'
  <2>1. PICK m \in Modes, r \in Flags :
          mode' = [mode EXCEPT ![s] = m] /\ reindex' = [reindex EXCEPT ![s] = r]
    BY <1>2 DEF Launch
  <2>2. m \in {"query", "server", "bench"} /\ r \in BOOLEAN
    BY DEF Modes, Flags
  <2>3. (IF bench THEN Runs ELSE 0) \in 0 .. Runs
    OBVIOUS
  <2>4. QED
    BY <1>2, <2>1, <2>2, <2>3 DEF Launch
<1>3. ASSUME NEW s \in Session, Ingest(s) PROVE TypeOK'
  <2>1. Listed[repo] \in SUBSET File /\ Nothing \in [File -> Version \cup {Absent}]
    BY ListedFacts
  <2>2. (IF left[s] = 0 THEN 0 ELSE left[s] - 1) \in 0 .. Runs
    OBVIOUS
  <2>3. overlapped' \in SUBSET Session
    BY <1>3 DEF Ingest, Beside
  <2>4. QED
    BY <1>3, <2>1, <2>2, <2>3 DEF Ingest
<1>4. ASSUME NEW s \in Session, Reuse(s) PROVE TypeOK'
  BY <1>4 DEF Reuse
<1>5. ASSUME NEW s \in Session, ReadFile(s) PROVE TypeOK'
  <2>1. PICK f \in unread[s] :
          /\ unread' = [unread EXCEPT ![s] = @ \ {f}]
          /\ seen' = [seen EXCEPT ![s][f] = repo]
          /\ todo' = [todo EXCEPT ![s] = @ \cup Ids(FileAt(f, repo))]
    BY <1>5 DEF ReadFile
  <2>2. Ids(FileAt(f, repo)) \subseteq Id
    BY FileFacts
  <2>3. QED
    BY <1>5, <2>1, <2>2 DEF ReadFile
<1>6. ASSUME NEW s \in Session, StoreRow(s) PROVE TypeOK'
  <2>1. /\ rows' \in [Id -> Version \cup {Absent}] /\ todo' \in [Session -> SUBSET Id]
        /\ own' \in [Session -> SUBSET Id]
    BY <1>6, <1>a
  <2>2. QED
    BY <1>6, <2>1 DEF StoreRow
<1>7. ASSUME NEW s \in Session, RowsDone(s) PROVE TypeOK'
  <2>1. Ids(Ingested(s)) \subseteq Id
    BY IngestedFacts DEF Ids
  <2>2. QED
    BY <1>7, <2>1, AfterFacts DEF RowsDone
<1>8. ASSUME NEW s \in Session, DropQueued(s) PROVE TypeOK'
  BY <1>8 DEF DropQueued
<1>9. ASSUME NEW s \in Session, ReadForEdges(s) PROVE TypeOK'
  BY <1>9 DEF ReadForEdges
<1>10. ASSUME NEW s \in Session, PutEdges(s) PROVE TypeOK'
  <2>1. edges' \in SUBSET (Id \X Id \X Relation)
    BY <1>10, ReadFacts, EdgesTyped DEF PutEdges
  <2>2. snap' \in [Session -> [Id -> Version \cup {Absent}]]
    BY <1>10 DEF PutEdges, NoRows
  <2>3. pc' \in [Session -> {"off", "count", "ingest", "edges", "put", "serve"}]
    BY <1>10, AfterFacts DEF PutEdges
  <2>4. QED
    BY <1>10, <2>1, <2>2, <2>3 DEF PutEdges
<1>11. ASSUME NEW s \in Session, End(s) PROVE TypeOK'
  <2>1. Nothing \in [File -> Version \cup {Absent}] /\ NoRows \in [Id -> Version \cup {Absent}]
    BY DEF Nothing, NoRows
  <2>2. QED
    BY <1>11, <2>1 DEF End
<1>12. CASE UNCHANGED vars
  BY <1>12 DEF vars
<1>13. QED
  BY <1>1, <1>2, <1>3, <1>4, <1>5, <1>6, <1>7, <1>8, <1>9, <1>10, <1>11, <1>12 DEF Next

(* Only StoreRow writes rows.  None is lost, edges only grow, and the repository *)
(* only moves on.                                                            *)
LEMMA OnlyStores ==
  ASSUME [Next]_vars
  PROVE  rows' = rows \/ \E s \in Session : StoreRow(s)
  BY DEF Next, vars, disk, Edit, Launch, Ingest, Reuse, ReadFile, RowsDone, DropQueued,
         ReadForEdges, PutEdges, End

LEMMA Growth ==
  ASSUME LInv, [Next]_vars
  PROVE  Indexed \subseteq Indexed' /\ edges \subseteq edges' /\ repo' >= repo
<1>1. Indexed \subseteq Indexed'
  <2>1. CASE rows' = rows
    BY <2>1 DEF Indexed
  <2>2. ASSUME NEW s \in Session, StoreRow(s) PROVE Indexed \subseteq Indexed'
    <3>1. PICK j \in Id, v \in Version : rows' = [rows EXCEPT ![j] = v]
      BY <2>2, StoreFacts
    <3>2. \A i \in Id : rows[i] # Absent => rows'[i] # Absent
      BY <3>1, Versions DEF LInv, TypeOK
    <3>3. QED
      BY <3>2 DEF Indexed
  <2>3. QED
    BY <2>1, <2>2, OnlyStores
<1>2. repo \in Nat
  BY NumbersAre DEF LInv
<1>3. repo' = repo \/ repo' = repo + 1
  BY DEF Next, vars, Edit, Launch, Ingest, Reuse, ReadFile, StoreRow, RowsDone, DropQueued,
         ReadForEdges, PutEdges, End
<1>4. edges \subseteq edges'
  BY DEF Next, vars, disk, Edit, Launch, Ingest, Reuse, ReadFile, StoreRow, RowsDone, DropQueued,
         ReadForEdges, PutEdges, End
<1>5. QED
  BY <1>1, <1>2, <1>3, <1>4

(* Rows stay rows of versions there are. *)
LEMMA RowStep ==
  ASSUME LInv, [Next]_vars
  PROVE  RowInv'
<1> USE DEF LInv
<1>0. TypeOK /\ TypeOK' /\ RowInv /\ repo' >= repo /\ Indexed \subseteq Indexed'
  BY TypeStep, Growth
<1>1. /\ repo \in Nat /\ repo' \in Nat
      /\ \A i \in Id : rows[i] \in Nat /\ rows'[i] \in Nat
  BY <1>0, NumbersAre, NumbersStay
<1>2. ASSUME NEW i \in Id
      PROVE  rows'[i] <= repo' /\ (i \in Indexed' => i \in Ids(ChunksOf[rows'[i]]))
  <2>1. CASE rows' = rows
    BY <1>0, <1>1, <2>1 DEF RowInv, Indexed
  <2>2. ASSUME NEW s \in Session, StoreRow(s)
        PROVE  rows'[i] <= repo' /\ (i \in Indexed' => i \in Ids(ChunksOf[rows'[i]]))
    <3>1. PICK c \in Ingested(s) :
            /\ c.id \in Id /\ c.id \in Ids(ChunksOf[seen[s][c.file]])
            /\ rows' = [rows EXCEPT ![c.id] = seen[s][c.file]]
      BY <2>2, StoreFacts
    <3>2. c.file \in File
      BY <1>0, IngestedFacts
    <3>3. seen[s][c.file] <= repo
      BY <3>2 DEF SessionInvOf, PlaceInvOf
    <3>4. rows'[i] = IF i = c.id THEN seen[s][c.file] ELSE rows[i]
      BY <1>0, <3>1 DEF TypeOK
    <3>5. seen[s][c.file] \in Nat
      BY <1>0, <3>2, NumbersAre
    <3>6. CASE i = c.id
      BY <1>0, <1>1, <3>1, <3>3, <3>4, <3>5, <3>6
    <3>7. CASE i # c.id
      BY <1>0, <1>1, <3>4, <3>7 DEF RowInv, Indexed
    <3>8. QED
      BY <3>6, <3>7
  <2>3. QED
    BY <2>1, <2>2, OnlyStores
<1>3. ASSUME NEW q \in Session, NEW i \in Id, snap'[q][i] # Absent
      PROVE  i \in Ids(ChunksOf[snap'[q][i]])
  <2>1. CASE snap' = snap
    BY <1>0, <1>3, <2>1 DEF RowInv
  <2>2. ASSUME NEW s \in Session, NEW read \in {rows, NoRows}, snap' = [snap EXCEPT ![s] = read]
        PROVE  i \in Ids(ChunksOf[snap'[q][i]])
    <3>1. snap'[q][i] = snap[q][i] \/ snap'[q][i] = rows[i]
      BY <1>0, <1>3, <2>2 DEF TypeOK, NoRows
    <3>2. QED
      BY <1>0, <1>3, <3>1 DEF RowInv, Indexed
  <2>3. QED
    BY <2>1, <2>2
    DEF Next, vars, Edit, Launch, Ingest, Reuse, ReadFile, StoreRow, RowsDone, DropQueued,
        ReadForEdges, PutEdges, End
<1>4. complete' \subseteq Indexed'
  <2>1. CASE complete' = complete
    BY <1>0, <2>1 DEF RowInv
  <2>2. ASSUME NEW s \in Session, RowsDone(s) PROVE complete' \subseteq Indexed'
    <3>1. dropped[s] = {} => Ids(Ingested(s)) \subseteq Indexed
      BY <2>2 DEF RowsDone, SessionInvOf, StoredInvOf, Ids
    <3>2. QED
      BY <1>0, <2>2, <3>1 DEF RowsDone, RowInv
  <2>3. QED
    BY <2>1, <2>2
    DEF Next, vars, history, Edit, Launch, Ingest, Reuse, ReadFile, StoreRow, DropQueued,
        ReadForEdges, PutEdges, End
<1>5. QED
  BY <1>2, <1>3, <1>4 DEF RowInv

-----------------------------------------------------------------------------
(* What the steps of others leave of session q. *)

(* Idle(q): its place, its plan and what it has read for the edges are as before. *)
Idle(q) ==
  /\ pc'[q] = pc[q] /\ unread'[q] = unread[q] /\ seen'[q] = seen[q]
  /\ todo'[q] = todo[q] /\ dropped'[q] = dropped[q] /\ snap'[q] = snap[q]

(* Rows that stay its own do not change. *)
LEMMA OwnStays ==
  ASSUME LInv, [Next]_vars, NEW q \in Session, Idle(q)
  PROVE  own'[q] \subseteq own[q] /\ \A i \in own'[q] : i \in Id => rows'[i] = rows[i]
<1>0. TypeOK
  BY DEF LInv
<1>1. ASSUME NEW s \in Session, StoreRow(s)
      PROVE  own'[q] \subseteq own[q] /\ \A i \in own'[q] : i \in Id => rows'[i] = rows[i]
  <2>1. PICK c \in Ingested(s) :
           /\ c.id \in todo[s] /\ c.id \in Id
           /\ rows' = [rows EXCEPT ![c.id] = seen[s][c.file]]
           /\ todo' = [todo EXCEPT ![s] = @ \ {c.id}]
           /\ own' = [p \in Session |->
                        IF p = s THEN own[p] \cup {c.id}
                        ELSE IF rows[c.id] = seen[s][c.file] THEN own[p] ELSE own[p] \ {c.id}]
    BY <1>1, StoreFacts
  <2>2. q # s
    BY <1>0, <2>1 DEF Idle, TypeOK
  <2>3. own'[q] = IF rows[c.id] = seen[s][c.file] THEN own[q] ELSE own[q] \ {c.id}
    BY <2>1, <2>2
  <2>4. \A i \in Id : rows'[i] = IF i = c.id THEN seen[s][c.file] ELSE rows[i]
    BY <1>0, <2>1 DEF TypeOK
  <2>5. QED
    BY <2>3, <2>4
<1>2. ASSUME NEW s \in Session, Ingest(s) \/ End(s)
      PROVE  own'[q] = own[q]
  <2>1. q # s
    BY <1>0, <1>2 DEF Idle, Ingest, End, TypeOK
  <2>2. QED
    BY <1>0, <1>2, <2>1 DEF Ingest, End, TypeOK
<1>3. rows' = rows \/ \E s \in Session : StoreRow(s)
  BY OnlyStores
<1>4. own' = own \/ \E s \in Session : StoreRow(s) \/ Ingest(s) \/ End(s)
  BY DEF Next, vars, history, Edit, Launch, Reuse, ReadFile, RowsDone, DropQueued,
         ReadForEdges, PutEdges
<1>5. \A s \in Session : Ingest(s) \/ End(s) => rows' = rows
  BY DEF Ingest, End, disk
<1>6. QED
  BY <1>1, <1>2, <1>3, <1>4, <1>5

(* Who runs beside another stays one of those that do until its next ingestion. *)
LEMMA OverlappedStays ==
  ASSUME LInv, [Next]_vars, NEW q \in Session, Idle(q), q \in overlapped
  PROVE  q \in overlapped'
<1>1. ASSUME NEW s \in Session, Ingest(s) \/ End(s) PROVE q # s
  BY <1>1 DEF Idle, Ingest, End, LInv, TypeOK
<1>2. overlapped' = overlapped \/ \E s \in Session : Ingest(s) \/ End(s)
  BY DEF Next, vars, history, Edit, Launch, Reuse, ReadFile, StoreRow, RowsDone, DropQueued,
         ReadForEdges, PutEdges
<1>3. QED
  BY <1>1, <1>2 DEF Ingest, End

(* A session is at "ingest" because it was, or because it starts. *)
LEMMA StartsIngest ==
  ASSUME LInv, [Next]_vars, NEW p \in Session, pc'[p] = "ingest"
  PROVE  \/ Ingest(p)
         \/ pc[p] = "ingest" /\ \A f \in File : seen'[p][f] \in {seen[p][f], repo}
<1>0. TypeOK
  BY DEF LInv
<1>1. ASSUME NEW s \in Session, ReadFile(s)
      PROVE  pc[p] = "ingest" /\ \A f \in File : seen'[p][f] \in {seen[p][f], repo}
  <2>1. PICK g \in unread[s] : seen' = [seen EXCEPT ![s][g] = repo]
    BY <1>1 DEF ReadFile
  <2>2. QED
    BY <1>0, <1>1, <2>1 DEF ReadFile, TypeOK
<1>2. ASSUME NEW s \in Session, Ingest(s)
      PROVE  Ingest(p) \/ (pc[p] = "ingest" /\ seen'[p] = seen[p])
  <2>1. CASE p = s
    BY <1>2, <2>1
  <2>2. CASE p # s
    BY <1>0, <1>2, <2>2 DEF Ingest, TypeOK
  <2>3. QED
    BY <2>1, <2>2
<1>3. ASSUME NEW s \in Session, End(s)
      PROVE  pc[p] = "ingest" /\ seen'[p] = seen[p]
  BY <1>0, <1>3 DEF End, TypeOK
<1>4. ASSUME NEW s \in Session, \/ Launch(s) \/ Reuse(s) \/ StoreRow(s) \/ RowsDone(s)
                                \/ DropQueued(s) \/ ReadForEdges(s) \/ PutEdges(s)
      PROVE  pc[p] = "ingest" /\ seen'[p] = seen[p]
  BY <1>0, <1>4, AfterFacts
  DEF TypeOK, plan, Launch, Reuse, StoreRow, RowsDone, DropQueued, ReadForEdges, PutEdges
<1>5. CASE Edit \/ UNCHANGED vars
  BY <1>5 DEF Edit, vars, plan
<1>6. QED
  BY <1>1, <1>2, <1>3, <1>4, <1>5 DEF Next

LEMMA SameIngested ==
  ASSUME NEW q \in Session, seen'[q] = seen[q]
  PROVE  Ingested(q)' = Ingested(q) /\ (HasIngested(q)' <=> HasIngested(q))
  BY DEF Ingested, HasIngested, Nothing, File

LEMMA PlaceStays ==
  ASSUME LInv, [Next]_vars, NEW q \in Session, Idle(q)
  PROVE  PlaceInvOf(q)'
<1>1. PlaceInvOf(q) /\ TypeOK /\ TypeOK'
  BY TypeStep DEF LInv, SessionInvOf
<1>2. Ingested(q)' = Ingested(q) /\ (HasIngested(q)' <=> HasIngested(q))
  BY SameIngested DEF Idle
<1>3. repo' >= repo /\ Indexed \subseteq Indexed'
  BY Growth
<1>4. repo \in Nat /\ repo' \in Nat /\ \A f \in File : seen[q][f] \in Nat
  BY <1>1, NumbersAre, NumbersStay
<1>5. Ids(Ingested(q))' = Ids(Ingested(q))
  BY <1>2 DEF Ids
<1>6. QED
  BY <1>1, <1>2, <1>3, <1>4, <1>5 DEF PlaceInvOf, Idle

LEMMA StoredStays ==
  ASSUME LInv, [Next]_vars, NEW q \in Session, Idle(q)
  PROVE  StoredInvOf(q)'
<1>1. StoredInvOf(q) /\ TypeOK
  BY DEF LInv, SessionInvOf
<1>2. Ingested(q)' = Ingested(q)
  BY SameIngested DEF Idle
<1>3. Indexed \subseteq Indexed'
  BY Growth
<1>4. own'[q] \subseteq own[q] /\ \A i \in own'[q] : i \in Id => rows'[i] = rows[i]
  BY OwnStays
<1>5. Ids(Ingested(q))' = Ids(Ingested(q))
  BY <1>2 DEF Ids
<1>6. \A c \in Ingested(q) : c.id \in Id
  BY <1>1, IngestedFacts
<1>7. own'[q] \subseteq Ids(Ingested(q))'
  BY <1>1, <1>4, <1>5 DEF StoredInvOf
<1>8. ASSUME NEW c \in Ingested(q)
      PROVE  /\ c.id \notin todo'[q] \cup dropped'[q] =>
                  c.id \in Indexed' /\ (pc'[q] = "put" => snap'[q][c.id] # Absent)
             /\ c.id \in own'[q] =>
                  /\ c.id \notin todo'[q] /\ rows'[c.id] = seen'[q][c.file]
                  /\ pc'[q] = "put" => snap'[q][c.id] = seen'[q][c.file]
  BY <1>1, <1>3, <1>4, <1>6 DEF StoredInvOf, Idle
<1>9. QED
  BY <1>2, <1>7, <1>8 DEF StoredInvOf

LEMMA OrderStays ==
  ASSUME LInv, [Next]_vars, NEW q \in Session, Idle(q)
  PROVE  OrderInvOf(q)'
<1> SUFFICES ASSUME q \notin overlapped' PROVE OrderInvOf(q)'
  BY DEF OrderInvOf
<1>1. OrderInvOf(q) /\ PlaceInvOf(q) /\ TypeOK /\ TypeOK'
  BY TypeStep DEF LInv, SessionInvOf
<1>2. q \notin overlapped
  BY OverlappedStays
<1>3. Ingested(q)' = Ingested(q)
  BY SameIngested DEF Idle
<1>4. /\ repo \in Nat /\ \A i \in Id : rows[i] \in Nat /\ rows'[i] \in Nat
      /\ \A p \in Session, f \in File : seen[p][f] \in Nat
  BY <1>1, NumbersAre, NumbersStay
<1>5. ASSUME NEW c \in Ingested(q)
      PROVE  /\ c.id \in todo[q] => rows'[c.id] <= seen[q][c.file]
             /\ c.id \notin todo[q] \cup dropped[q] => rows'[c.id] >= seen[q][c.file]
  <2>0. c.id \in Id /\ c.file \in File /\ c \in Chunk
    BY <1>1, IngestedFacts
  <2>1. CASE rows'[c.id] = rows[c.id]
    BY <1>1, <1>2, <2>1 DEF OrderInvOf
  <2>2. ASSUME NEW s \in Session, StoreRow(s), rows'[c.id] # rows[c.id]
        PROVE  /\ c.id \in todo[q] => rows'[c.id] <= seen[q][c.file]
               /\ c.id \notin todo[q] \cup dropped[q] => rows'[c.id] >= seen[q][c.file]
    <3>1. PICK d \in Ingested(s) :
            /\ d.id \in todo[s] /\ d.id \in Id
            /\ rows' = [rows EXCEPT ![d.id] = seen[s][d.file]]
            /\ todo' = [todo EXCEPT ![s] = @ \ {d.id}]
      BY <2>2, StoreFacts
    <3>2. q # s
      BY <1>1, <3>1 DEF Idle, TypeOK
    <3>3. pc[s] = "ingest"
      BY <2>2 DEF StoreRow
    <3>4. /\ pc[q] # "ingest"
          /\ \A f \in File : seen[s][f] # Absent => seen[q][f] <= seen[s][f]
      BY <1>1, <1>2, <3>2, <3>3 DEF OrderInvOf
    <3>5. todo[q] = {}
      BY <1>1, <3>4 DEF PlaceInvOf
    <3>6. d.id = c.id
      BY <1>1, <2>0, <2>2, <3>1 DEF TypeOK
    <3>7. d \in Chunk /\ d.file \in File /\ seen[s][d.file] \in Version
      BY <1>1, IngestedFacts
    <3>8. d.file = c.file
      BY <2>0, <3>6, <3>7, SameId
    <3>9. seen[s][d.file] # Absent
      BY <3>7, Versions
    <3>10. rows'[c.id] = seen[s][c.file]
      BY <1>1, <2>0, <3>1, <3>6, <3>8 DEF TypeOK
    <3>11. QED
      BY <1>4, <2>0, <3>4, <3>5, <3>8, <3>9, <3>10
  <2>3. QED
    BY <2>1, <2>2, OnlyStores
<1>6. ASSUME NEW p \in Session \ {q}, pc'[p] = "ingest"
      PROVE  /\ pc[q] # "ingest"
             /\ \A f \in File : seen'[p][f] # Absent => seen[q][f] <= seen'[p][f]
  <2>1. CASE pc[p] = "ingest" /\ \A f \in File : seen'[p][f] \in {seen[p][f], repo}
    <3>1. /\ pc[q] # "ingest"
          /\ \A f \in File : seen[p][f] # Absent => seen[q][f] <= seen[p][f]
      BY <1>1, <1>2, <2>1 DEF OrderInvOf
    <3>2. \A f \in File : seen[q][f] <= repo
      BY <1>1 DEF PlaceInvOf
    <3>3. QED
      BY <2>1, <3>1, <3>2
  <2>2. CASE Ingest(p)
    <3>1. pc[q] # "ingest"
      BY <2>2 DEF Ingest, Beside
    <3>2. \A f \in File : seen'[p][f] = Absent
      BY <1>1, <2>2 DEF Ingest, TypeOK, Nothing
    <3>3. QED
      BY <3>1, <3>2
  <2>3. QED
    BY <1>6, <2>1, <2>2, StartsIngest
<1>7. QED
  BY <1>3, <1>5, <1>6 DEF OrderInvOf, Idle

LEMMA GraphStays ==
  ASSUME LInv, [Next]_vars, NEW q \in Session, Idle(q)
  PROVE  GraphInvOf(q)'
<1> SUFFICES ASSUME GraphStore, pc[q] \in {"count", "serve"} PROVE GraphIsServed(q)'
  BY DEF GraphInvOf, Idle
<1>1. Ingested(q)' = Ingested(q)
  BY SameIngested DEF Idle
<1>2. own'[q] \subseteq own[q]
  BY OwnStays
<1>3. Known(q)' = Known(q) /\ Kept(q)' \subseteq Kept(q)
  BY <1>1, <1>2 DEF Known, Kept, Stored, Idle
<1>4. ServedBy(Kept(q), Known(q), edges)
  BY ServedIs DEF LInv, SessionInvOf, GraphInvOf
<1>5. edges \subseteq edges'
  BY Growth
<1>6. ServedBy(Kept(q)', Known(q)', edges')
  BY <1>3, <1>4, <1>5, ServedMonotone
<1>7. QED
  BY <1>6 DEF GraphIsServed, ServedBy

LEMMA IdleStays ==
  ASSUME LInv, [Next]_vars, NEW q \in Session, Idle(q)
  PROVE  SessionInvOf(q)'
  BY PlaceStays, StoredStays, OrderStays, GraphStays DEF SessionInvOf

-----------------------------------------------------------------------------
(* What the steps of session q itself make of it. *)

(* The graph serves who has ingested nothing. *)
LEMMA NothingServed ==
  ASSUME NEW q \in Session, Ingested(q) = {}
  PROVE  GraphIsServed(q)
<1>1. Kept(q) = {}
  BY DEF Kept, Stored
<1>2. ContainmentEdges(Kept(q)) = {}
  BY <1>1 DEF ContainmentEdges
<1>3. QED
  BY <1>1, <1>2 DEF GraphIsServed

LEMMA LaunchStep ==
  ASSUME LInv, [Next]_vars, NEW q \in Session, Launch(q)
  PROVE  SessionInvOf(q)'
<1>1. TypeOK /\ PlaceInvOf(q) /\ StoredInvOf(q) /\ OrderInvOf(q)
  BY DEF LInv, SessionInvOf
<1>2. /\ pc[q] = "off" /\ pc'[q] = "count" /\ \A p \in Session \ {q} : pc'[p] = pc[p]
      /\ UNCHANGED <<repo, rows, unread, seen, todo, dropped, snap, own, overlapped>>
  BY <1>1 DEF Launch, TypeOK, disk, plan, history
<1>3. Ingested(q)' = Ingested(q) /\ (HasIngested(q)' <=> HasIngested(q))
  BY <1>2, SameIngested
<1>4. Ids(Ingested(q))' = Ids(Ingested(q)) /\ Indexed' = Indexed
  BY <1>2, <1>3 DEF Ids, Indexed
<1>5. ~HasIngested(q) /\ Ingested(q) = {}
  BY <1>1, <1>2, NothingIngested DEF PlaceInvOf, HasIngested
<1>6. PlaceInvOf(q)'
  BY <1>1, <1>2, <1>3, <1>4 DEF PlaceInvOf
<1>7. StoredInvOf(q)'
  BY <1>1, <1>2, <1>3, <1>4, <1>5 DEF StoredInvOf
<1>8. OrderInvOf(q)'
  BY <1>1, <1>2, <1>3, <1>5 DEF OrderInvOf
<1>9. GraphInvOf(q)'
  <2>1. seen'[q] = Nothing /\ Ingested(q)' = {}
    BY <1>2, <1>3, <1>5 DEF HasIngested
  <2>2. Kept(q)' = {}
    BY <2>1 DEF Kept, Stored
  <2>3. ContainmentEdges(Kept(q)') = {}
    BY <2>2 DEF ContainmentEdges
  <2>4. GraphIsServed(q)'
    BY <2>2, <2>3 DEF GraphIsServed
  <2>5. QED
    BY <2>4 DEF GraphInvOf
<1>10. QED
  BY <1>6, <1>7, <1>8, <1>9 DEF SessionInvOf

LEMMA IngestStep ==
  ASSUME LInv, [Next]_vars, NEW q \in Session, Ingest(q)
  PROVE  SessionInvOf(q)'
<1>1. TypeOK /\ PlaceInvOf(q) /\ OrderInvOf(q)
  BY DEF LInv, SessionInvOf
<1>2. /\ pc[q] = "count" /\ pc'[q] = "ingest" /\ \A p \in Session \ {q} : pc'[p] = pc[p]
      /\ unread'[q] = Listed[repo] /\ Listed[repo] # {} /\ seen'[q] = Nothing /\ own'[q] = {}
      /\ UNCHANGED <<repo, rows, todo, dropped, snap>>
  BY <1>1 DEF Ingest, TypeOK, disk
<1>3. Ingested(q)' = {} /\ todo'[q] = {}
  BY <1>1, <1>2 DEF Ingested, Nothing, Absent, PlaceInvOf
<1>4. repo \in Nat /\ \A f \in File : seen'[q][f] = Absent
  BY <1>1, <1>2, NumbersAre DEF Nothing
<1>5. PlaceInvOf(q)'
  BY <1>2, <1>3, <1>4 DEF PlaceInvOf, Absent
<1>6. StoredInvOf(q)'
  BY <1>2, <1>3 DEF StoredInvOf
<1>7. q \notin overlapped' => \A p \in Session \ {q} : pc[p] # "ingest"
  BY DEF Ingest, Beside
<1>8. OrderInvOf(q)'
  BY <1>2, <1>3, <1>7 DEF OrderInvOf
<1>9. GraphInvOf(q)'
  BY <1>2 DEF GraphInvOf
<1>10. QED
  BY <1>5, <1>6, <1>8, <1>9 DEF SessionInvOf

LEMMA ReuseStep ==
  ASSUME LInv, [Next]_vars, NEW q \in Session, Reuse(q)
  PROVE  SessionInvOf(q)'
<1>1. TypeOK /\ PlaceInvOf(q) /\ StoredInvOf(q) /\ OrderInvOf(q) /\ GraphInvOf(q)
  BY DEF LInv, SessionInvOf
<1>2. /\ pc[q] = "count" /\ pc'[q] = "serve" /\ \A p \in Session \ {q} : pc'[p] = pc[p]
      /\ UNCHANGED <<repo, rows, edges, unread, seen, todo, dropped, snap, own, overlapped>>
      /\ Indexed # {}
  BY <1>1 DEF Reuse, MustIngest, TypeOK, disk, plan, history
<1>3. Ingested(q)' = Ingested(q) /\ (HasIngested(q)' <=> HasIngested(q))
  BY <1>2, SameIngested
<1>4. Ids(Ingested(q))' = Ids(Ingested(q)) /\ Indexed' = Indexed
  BY <1>2, <1>3 DEF Ids, Indexed
<1>5. PlaceInvOf(q)'
  BY <1>1, <1>2, <1>3, <1>4 DEF PlaceInvOf
<1>6. StoredInvOf(q)'
  BY <1>1, <1>2, <1>3, <1>4 DEF StoredInvOf
<1>7. OrderInvOf(q)'
  BY <1>1, <1>2, <1>3 DEF OrderInvOf
<1>8. GraphIsServed(q)' <=> GraphIsServed(q)
  BY <1>2, <1>3 DEF GraphIsServed, Kept, Known, Stored
<1>9. GraphInvOf(q)'
  BY <1>1, <1>2, <1>8 DEF GraphInvOf
<1>10. QED
  BY <1>5, <1>6, <1>7, <1>9 DEF SessionInvOf

(* Reading a file adds its chunks, which are still to be stored. *)
LEMMA ReadFileStep ==
  ASSUME LInv, [Next]_vars, NEW q \in Session, ReadFile(q)
  PROVE  SessionInvOf(q)'
<1>1. TypeOK /\ RowInv /\ PlaceInvOf(q) /\ StoredInvOf(q) /\ OrderInvOf(q)
  BY DEF LInv, SessionInvOf
<1>2. PICK f \in unread[q] :
        /\ unread'[q] = unread[q] \ {f}
        /\ seen'[q] = [seen[q] EXCEPT ![f] = repo]
        /\ todo'[q] = todo[q] \cup Ids(FileAt(f, repo))
  BY <1>1 DEF ReadFile, TypeOK
<1>3. /\ pc[q] = "ingest"
      /\ UNCHANGED <<repo, rows, pc, dropped, snap, own, overlapped>>
  BY DEF ReadFile, disk, history
<1>4. f \in File /\ seen[q][f] = Absent /\ repo \in Version /\ repo # Absent /\ repo \in Nat
  BY <1>1, Versions, NumbersAre DEF PlaceInvOf, TypeOK
<1>5. \A g \in File : seen'[q][g] = IF g = f THEN repo ELSE seen[q][g]
  BY <1>1, <1>2, <1>4 DEF TypeOK
<1>6. Ingested(q)' = Ingested(q) \cup FileAt(f, repo)
  BY <1>4, <1>5 DEF Ingested
<1>7. \A c \in Ingested(q) : c.file # f /\ seen'[q][c.file] = seen[q][c.file]
  <2>1. \A c \in Ingested(q) : c.file \in File /\ seen[q][c.file] \in Version
    BY <1>1, IngestedFacts
  <2>2. QED
    BY <1>4, <1>5, <2>1, Versions
<1>8. \A c \in FileAt(f, repo) : /\ c.file = f /\ c.id \in todo'[q] /\ c.id \in Id /\ c \in Chunk
                                 /\ seen'[q][c.file] = repo
  BY <1>2, <1>4, <1>5, ChunkFacts DEF FileAt, Ids
<1>9. \A c \in FileAt(f, repo), d \in Ingested(q) : c.id # d.id
  <2>1. \A d \in Ingested(q) : d \in Chunk
    BY <1>1, IngestedFacts
  <2>2. QED
    BY <1>7, <1>8, <2>1, SameId
<1>10. Ids(Ingested(q))' = Ids(Ingested(q)) \cup Ids(FileAt(f, repo))
  BY <1>6 DEF Ids
<1>11. PlaceInvOf(q)'
  <2>1. \A g \in File : seen'[q][g] <= repo' /\ (g \in unread'[q] => seen'[q][g] = Absent)
    BY <1>1, <1>2, <1>3, <1>4, <1>5 DEF PlaceInvOf
  <2>2. todo'[q] \subseteq Ids(Ingested(q))'
    BY <1>1, <1>2, <1>10 DEF PlaceInvOf
  <2>3. HasIngested(q)'
    BY <1>4, <1>5 DEF HasIngested, Nothing
  <2>4. QED
    BY <1>3, <2>1, <2>2, <2>3 DEF PlaceInvOf
<1>12. StoredInvOf(q)'
  <2>1. own'[q] \subseteq Ids(Ingested(q))'
    BY <1>1, <1>3, <1>10 DEF StoredInvOf
  <2>2. Indexed' = Indexed
    BY <1>3 DEF Indexed
  <2>3. ASSUME NEW c \in Ingested(q)
        PROVE  /\ c.id \notin todo'[q] \cup dropped'[q] => c.id \in Indexed'
               /\ c.id \in own'[q] => c.id \notin todo'[q] /\ rows'[c.id] = seen'[q][c.file]
    <3>1. c.id \notin Ids(FileAt(f, repo))
      BY <1>9 DEF Ids
    <3>2. QED
      BY <1>1, <1>2, <1>3, <1>7, <2>2, <3>1 DEF StoredInvOf
  <2>4. ASSUME NEW c \in FileAt(f, repo)
        PROVE  c.id \in todo'[q] /\ c.id \notin own'[q]
    <3>1. c.id \notin Ids(Ingested(q))
      BY <1>9 DEF Ids
    <3>2. QED
      BY <1>1, <1>3, <1>8, <3>1 DEF StoredInvOf
  <2>5. QED
    BY <1>3, <1>6, <2>1, <2>3, <2>4 DEF StoredInvOf
<1>13. OrderInvOf(q)'
  <2> SUFFICES ASSUME q \notin overlapped PROVE OrderInvOf(q)'
    BY <1>3 DEF OrderInvOf
  <2>1. ASSUME NEW c \in Ingested(q)
        PROVE  /\ c.id \in todo'[q] => rows'[c.id] <= seen'[q][c.file]
               /\ c.id \notin todo'[q] \cup dropped'[q] => rows'[c.id] >= seen'[q][c.file]
    <3>1. c.id \notin Ids(FileAt(f, repo))
      BY <1>9 DEF Ids
    <3>2. QED
      BY <1>1, <1>2, <1>3, <1>7, <3>1 DEF OrderInvOf
  <2>2. ASSUME NEW c \in FileAt(f, repo)
        PROVE  c.id \in todo'[q] /\ rows'[c.id] <= seen'[q][c.file]
    BY <1>1, <1>3, <1>8 DEF RowInv
  <2>3. \A p \in Session \ {q} : pc'[p] # "ingest"
    BY <1>1, <1>3 DEF OrderInvOf
  <2>4. QED
    BY <1>6, <2>1, <2>2, <2>3 DEF OrderInvOf
<1>14. GraphInvOf(q)'
  BY <1>3 DEF GraphInvOf
<1>15. QED
  BY <1>11, <1>12, <1>13, <1>14 DEF SessionInvOf

LEMMA StoreRowStep ==
  ASSUME LInv, [Next]_vars, NEW q \in Session, StoreRow(q)
  PROVE  SessionInvOf(q)'
<1>1. TypeOK /\ TypeOK' /\ PlaceInvOf(q) /\ StoredInvOf(q) /\ OrderInvOf(q)
  BY TypeStep DEF LInv, SessionInvOf
<1>2. PICK d \in Ingested(q) :
        /\ d.id \in todo[q] /\ d.id \in Id /\ seen[q][d.file] \in Version
        /\ rows' = [rows EXCEPT ![d.id] = seen[q][d.file]]
        /\ todo' = [todo EXCEPT ![q] = @ \ {d.id}]
        /\ own' = [p \in Session |->
                    IF p = q THEN own[p] \cup {d.id}
                    ELSE IF rows[d.id] = seen[q][d.file] THEN own[p] ELSE own[p] \ {d.id}]
  BY StoreFacts
<1>3. /\ pc[q] = "ingest" /\ UNCHANGED <<repo, pc, unread, seen, dropped, snap, overlapped>>
  BY DEF StoreRow
<1>4. /\ todo'[q] = todo[q] \ {d.id} /\ own'[q] = own[q] \cup {d.id}
      /\ \A i \in Id : rows'[i] = IF i = d.id THEN seen[q][d.file] ELSE rows[i]
  BY <1>1, <1>2 DEF TypeOK
<1>5. Ingested(q)' = Ingested(q) /\ (HasIngested(q)' <=> HasIngested(q))
  BY <1>3, SameIngested
<1>6. Ids(Ingested(q))' = Ids(Ingested(q))
  BY <1>5 DEF Ids
<1>7. \A c \in Ingested(q) : c.id \in Id /\ c.id \in Ids(Ingested(q)) /\ (c.id = d.id => c = d)
                             /\ c.file \in File
  BY <1>1, IngestedFacts, OneOfEachId
<1>8. Indexed \subseteq Indexed' /\ d.id \in Indexed'
  BY <1>2, <1>4, Growth, Versions DEF Indexed
<1>9. PlaceInvOf(q)'
  BY <1>1, <1>3, <1>4, <1>5, <1>6 DEF PlaceInvOf
<1>10. StoredInvOf(q)'
  <2>1. own'[q] \subseteq Ids(Ingested(q))'
    BY <1>1, <1>4, <1>6, <1>7 DEF StoredInvOf
  <2>2. ASSUME NEW c \in Ingested(q)
        PROVE  /\ c.id \notin todo'[q] \cup dropped'[q] => c.id \in Indexed'
               /\ c.id \in own'[q] => c.id \notin todo'[q] /\ rows'[c.id] = seen'[q][c.file]
    <3>1. CASE c.id = d.id
      BY <1>3, <1>4, <1>7, <1>8, <3>1
    <3>2. CASE c.id # d.id
      BY <1>1, <1>3, <1>4, <1>7, <1>8, <3>2 DEF StoredInvOf
    <3>3. QED
      BY <3>1, <3>2
  <2>3. QED
    BY <1>3, <1>5, <2>1, <2>2 DEF StoredInvOf
<1>11. OrderInvOf(q)'
  <2> SUFFICES ASSUME q \notin overlapped PROVE OrderInvOf(q)'
    BY <1>3 DEF OrderInvOf
  <2>1. ASSUME NEW c \in Ingested(q)
        PROVE  /\ c.id \in todo'[q] => rows'[c.id] <= seen'[q][c.file]
               /\ c.id \notin todo'[q] \cup dropped'[q] => rows'[c.id] >= seen'[q][c.file]
    <3>1. CASE c.id = d.id
      <4>1. rows'[c.id] = seen'[q][c.file] /\ seen'[q][c.file] \in Nat
        BY <1>1, <1>3, <1>4, <1>7, <3>1, NumbersAre
      <4>2. QED
        BY <4>1
    <3>2. CASE c.id # d.id
      BY <1>1, <1>3, <1>4, <1>7, <3>2 DEF OrderInvOf
    <3>3. QED
      BY <3>1, <3>2
  <2>2. QED
    BY <1>1, <1>3, <1>5, <2>1 DEF OrderInvOf
<1>12. GraphInvOf(q)'
  BY <1>3 DEF GraphInvOf
<1>13. QED
  BY <1>9, <1>10, <1>11, <1>12 DEF SessionInvOf

LEMMA RowsDoneStep ==
  ASSUME LInv, [Next]_vars, NEW q \in Session, RowsDone(q)
  PROVE  SessionInvOf(q)'
<1>1. TypeOK /\ PlaceInvOf(q) /\ StoredInvOf(q) /\ OrderInvOf(q)
  BY DEF LInv, SessionInvOf
<1>2. /\ pc[q] = "ingest" /\ pc'[q] = AfterRows(q) /\ \A p \in Session \ {q} : pc'[p] = pc[p]
      /\ unread[q] = {} /\ todo[q] = {}
      /\ UNCHANGED <<repo, rows, unread, seen, todo, dropped, snap, own, overlapped>>
  BY <1>1 DEF RowsDone, TypeOK, disk, plan
<1>3. pc'[q] \in {"edges", "count", "serve"} /\ (GraphStore => pc'[q] = "edges")
  BY <1>2, AfterFacts
<1>4. Ingested(q)' = Ingested(q) /\ (HasIngested(q)' <=> HasIngested(q))
  BY <1>2, SameIngested
<1>5. Ids(Ingested(q))' = Ids(Ingested(q)) /\ Indexed' = Indexed
  BY <1>2, <1>4 DEF Ids, Indexed
<1>6. PlaceInvOf(q)'
  BY <1>1, <1>2, <1>3, <1>4, <1>5 DEF PlaceInvOf
<1>7. StoredInvOf(q)'
  BY <1>1, <1>2, <1>3, <1>4, <1>5 DEF StoredInvOf
<1>8. OrderInvOf(q)'
  BY <1>1, <1>2, <1>4 DEF OrderInvOf
<1>9. GraphInvOf(q)'
  BY <1>3 DEF GraphInvOf
<1>10. QED
  BY <1>6, <1>7, <1>8, <1>9 DEF SessionInvOf

LEMMA DropQueuedStep ==
  ASSUME LInv, [Next]_vars, NEW q \in Session, DropQueued(q)
  PROVE  SessionInvOf(q)'
<1>1. TypeOK /\ PlaceInvOf(q) /\ StoredInvOf(q) /\ OrderInvOf(q)
  BY DEF LInv, SessionInvOf
<1>2. /\ pc[q] = "ingest" /\ todo'[q] = {} /\ dropped'[q] = dropped[q] \cup todo[q]
      /\ UNCHANGED <<repo, rows, pc, unread, seen, snap, own, overlapped>>
  BY <1>1 DEF DropQueued, TypeOK, disk, history
<1>3. Ingested(q)' = Ingested(q) /\ (HasIngested(q)' <=> HasIngested(q))
  BY <1>2, SameIngested
<1>4. Ids(Ingested(q))' = Ids(Ingested(q)) /\ Indexed' = Indexed
  BY <1>2, <1>3 DEF Ids, Indexed
<1>5. PlaceInvOf(q)'
  BY <1>1, <1>2, <1>3, <1>4 DEF PlaceInvOf
<1>6. StoredInvOf(q)'
  BY <1>1, <1>2, <1>3, <1>4 DEF StoredInvOf
<1>7. OrderInvOf(q)'
  BY <1>1, <1>2, <1>3 DEF OrderInvOf
<1>8. GraphInvOf(q)'
  BY <1>2 DEF GraphInvOf
<1>9. QED
  BY <1>5, <1>6, <1>7, <1>8 DEF SessionInvOf

LEMMA ReadForEdgesStep ==
  ASSUME LInv, [Next]_vars, NEW q \in Session, ReadForEdges(q)
  PROVE  SessionInvOf(q)'
<1>1. TypeOK /\ PlaceInvOf(q) /\ StoredInvOf(q) /\ OrderInvOf(q)
  BY DEF LInv, SessionInvOf
<1>2. /\ pc[q] = "edges" /\ pc'[q] = "put" /\ \A p \in Session \ {q} : pc'[p] = pc[p]
      /\ snap'[q] = rows
      /\ UNCHANGED <<repo, rows, unread, seen, todo, dropped, own, overlapped>>
  BY <1>1 DEF ReadForEdges, TypeOK, disk, plan, history
<1>3. Ingested(q)' = Ingested(q) /\ (HasIngested(q)' <=> HasIngested(q))
  BY <1>2, SameIngested
<1>4. Ids(Ingested(q))' = Ids(Ingested(q)) /\ Indexed' = Indexed
  BY <1>2, <1>3 DEF Ids, Indexed
<1>5. PlaceInvOf(q)'
  BY <1>1, <1>2, <1>3, <1>4 DEF PlaceInvOf
<1>6. StoredInvOf(q)'
  BY <1>1, <1>2, <1>3, <1>4 DEF StoredInvOf, Indexed
<1>7. OrderInvOf(q)'
  BY <1>1, <1>2, <1>3 DEF OrderInvOf
<1>8. GraphInvOf(q)'
  BY <1>2 DEF GraphInvOf
<1>9. QED
  BY <1>5, <1>6, <1>7, <1>8 DEF SessionInvOf

(* The edges a session puts serve what is its own, though others have written  *)
(* rows before it read and since.                                            *)
LEMMA PutServes ==
  ASSUME LInv, NEW s \in Session, PutEdges(s)
  PROVE  ServedBy(Kept(s), Known(s), edges')
<1>1. PICK found \in EdgeSets(Read(s), Short) : edges' = edges \cup found
  BY DEF PutEdges
<1>2. pc[s] = "put" /\ TypeOK /\ PlaceInvOf(s) /\ StoredInvOf(s)
  BY DEF PutEdges, LInv, SessionInvOf
<1>3. Read(s) \subseteq Chunk
  BY ReadFacts
<1>4. ASSUME NEW c \in Stored(s)
      PROVE  /\ c \in Ingested(s) /\ c.id \in Id /\ c \in Chunk
             /\ snap[s][c.id] # Absent /\ seen[s][c.file] \in Version
             /\ ChunkAt(c.id, seen[s][c.file]) = c
  <2>1. c \in Ingested(s) /\ c.id \notin dropped[s]
    BY DEF Stored
  <2>2. todo[s] = {}
    BY <1>2 DEF PlaceInvOf
  <2>3. QED
    BY <1>2, <2>1, <2>2, IngestedFacts DEF StoredInvOf
<1>5. Kept(s) \subseteq Read(s)
  <2> SUFFICES ASSUME NEW c \in Kept(s) PROVE c \in Read(s)
    OBVIOUS
  <2>1. c \in Stored(s) /\ c.id \in own[s]
    BY DEF Kept
  <2>2. snap[s][c.id] = seen[s][c.file]
    BY <1>2, <1>4, <2>1 DEF StoredInvOf
  <2>3. ChunkAt(c.id, snap[s][c.id]) \in Read(s)
    BY <1>4, <2>1, ReadFacts
  <2>4. QED
    BY <1>4, <2>1, <2>2, <2>3
<1>6. ASSUME NEW n \in Known(s) PROVE \E c \in Read(s) : c.t # "doc" /\ c.name = n
  <2>1. PICK d \in Stored(s) : d.t # "doc" /\ d.name = n
    BY DEF Known, Code
  <2> DEFINE e == ChunkAt(d.id, snap[s][d.id])
  <2>2. e \in Read(s) /\ e.id = d.id
    BY <1>4, ReadFacts
  <2>3. e.name = d.name /\ e.t # "doc"
    BY <1>3, <1>4, <2>1, <2>2, SameId
  <2>4. QED
    BY <2>1, <2>2, <2>3
<1>7. NoName \notin Known(s)
  BY DEF Known
<1>8. ServedBy(Kept(s), Known(s), found)
  BY <1>3, <1>5, <1>6, <1>7, ExtractServes
<1>9. QED
  BY <1>1, <1>8, ServedMonotone

LEMMA PutEdgesStep ==
  ASSUME LInv, [Next]_vars, NEW q \in Session, PutEdges(q)
  PROVE  SessionInvOf(q)'
<1>1. TypeOK /\ PlaceInvOf(q) /\ StoredInvOf(q) /\ OrderInvOf(q)
  BY DEF LInv, SessionInvOf
<1>2. /\ pc[q] = "put" /\ pc'[q] \in {"count", "serve"} /\ \A p \in Session \ {q} : pc'[p] = pc[p]
      /\ UNCHANGED <<repo, rows, unread, seen, todo, dropped, own, overlapped>>
  BY <1>1, AfterFacts DEF PutEdges, TypeOK, plan, history
<1>3. Ingested(q)' = Ingested(q) /\ (HasIngested(q)' <=> HasIngested(q))
  BY <1>2, SameIngested
<1>4. Ids(Ingested(q))' = Ids(Ingested(q)) /\ Indexed' = Indexed
  BY <1>2, <1>3 DEF Ids, Indexed
<1>5. PlaceInvOf(q)'
  BY <1>1, <1>2, <1>3, <1>4 DEF PlaceInvOf
<1>6. StoredInvOf(q)'
  BY <1>1, <1>2, <1>3, <1>4 DEF StoredInvOf
<1>7. OrderInvOf(q)'
  BY <1>1, <1>2, <1>3 DEF OrderInvOf
<1>8. GraphInvOf(q)'
  <2>1. ServedBy(Kept(q), Known(q), edges')
    BY PutServes
  <2>2. Kept(q)' = Kept(q) /\ Known(q)' = Known(q)
    BY <1>2, <1>3 DEF Kept, Known, Stored
  <2>3. GraphIsServed(q)'
    BY <2>1, <2>2 DEF GraphIsServed, ServedBy
  <2>4. QED
    BY <2>3 DEF GraphInvOf
<1>9. QED
  BY <1>5, <1>6, <1>7, <1>8 DEF SessionInvOf

LEMMA EndStep ==
  ASSUME LInv, [Next]_vars, NEW q \in Session, End(q)
  PROVE  SessionInvOf(q)'
<1>1. TypeOK /\ TypeOK'
  BY TypeStep DEF LInv
<1>2. /\ pc'[q] = "off" /\ unread'[q] = {} /\ seen'[q] = Nothing /\ todo'[q] = {} /\ own'[q] = {}
      /\ repo' = repo
  BY <1>1 DEF End, TypeOK
<1>3. Ingested(q)' = {}
  BY <1>2 DEF Ingested, Nothing, Absent
<1>4. /\ repo' \in Nat /\ \A f \in File : seen'[q][f] = 0
      /\ \A p \in Session, f \in File : seen'[p][f] \in Nat
  BY <1>1, <1>2, NumbersStay DEF Nothing, Absent
<1>5. PlaceInvOf(q)'
  BY <1>2, <1>3, <1>4 DEF PlaceInvOf, HasIngested
<1>6. StoredInvOf(q)'
  BY <1>2, <1>3 DEF StoredInvOf
<1>7. OrderInvOf(q)'
  BY <1>2, <1>3, <1>4 DEF OrderInvOf
<1>8. GraphInvOf(q)'
  BY <1>2 DEF GraphInvOf
<1>9. QED
  BY <1>5, <1>6, <1>7, <1>8 DEF SessionInvOf

(* A step of another session, or of nobody, leaves q idle. *)
LEMMA OthersIdle ==
  ASSUME LInv, NEW q \in Session, NEW s \in Session, q # s,
         \/ Launch(s) \/ Ingest(s) \/ Reuse(s) \/ ReadFile(s) \/ StoreRow(s)
         \/ RowsDone(s) \/ DropQueued(s) \/ ReadForEdges(s) \/ PutEdges(s) \/ End(s)
  PROVE  Idle(q)
<1>0. TypeOK
  BY DEF LInv
<1>1. CASE Launch(s) \/ Ingest(s) \/ Reuse(s)
  BY <1>0, <1>1 DEF Launch, Ingest, Reuse, TypeOK, Idle, plan
<1>2. CASE ReadFile(s)
  BY <1>0, <1>2 DEF ReadFile, TypeOK, Idle
<1>3. CASE StoreRow(s)
  BY <1>0, <1>3 DEF StoreRow, TypeOK, Idle
<1>4. CASE RowsDone(s) \/ DropQueued(s) \/ ReadForEdges(s) \/ PutEdges(s) \/ End(s)
  BY <1>0, <1>4 DEF RowsDone, DropQueued, ReadForEdges, PutEdges, End, TypeOK, Idle, plan
<1>5. QED
  BY <1>1, <1>2, <1>3, <1>4

LEMMA SessionStep ==
  ASSUME LInv, [Next]_vars, NEW q \in Session
  PROVE  SessionInvOf(q)'
<1>1. CASE Edit \/ UNCHANGED vars
  <2>1. Idle(q)
    BY <1>1 DEF Edit, vars, plan, Idle
  <2>2. QED
    BY <2>1, IdleStays
<1>2. ASSUME NEW s \in Session,
             \/ Launch(s) \/ Ingest(s) \/ Reuse(s) \/ ReadFile(s) \/ StoreRow(s)
             \/ RowsDone(s) \/ DropQueued(s) \/ ReadForEdges(s) \/ PutEdges(s) \/ End(s)
      PROVE  SessionInvOf(q)'
  <2>1. CASE q # s
    BY <1>2, <2>1, OthersIdle, IdleStays
  <2>2. CASE q = s
    BY <1>2, <2>2, LaunchStep, IngestStep, ReuseStep, ReadFileStep, StoreRowStep, RowsDoneStep,
       DropQueuedStep, ReadForEdgesStep, PutEdgesStep, EndStep
  <2>3. QED
    BY <2>1, <2>2
<1>3. QED
  BY <1>1, <1>2 DEF Next

LEMMA LInvInit == Init => LInv
<1> SUFFICES ASSUME Init PROVE LInv
  OBVIOUS
<1>1. TypeOK
  <2>1. NoRows \in [Id -> Version \cup {Absent}] /\ Nothing \in [File -> Version \cup {Absent}]
    BY DEF NoRows, Nothing
  <2>2. QED
    BY <2>1, Versions, LifecycleAssumption DEF Init, TypeOK
<1>2. RowInv
  BY Versions, Numbers DEF Init, RowInv, NoRows, Absent, Indexed
<1>3. ASSUME NEW s \in Session PROVE SessionInvOf(s)
  <2>1. /\ pc[s] = "off" /\ seen[s] = Nothing /\ unread[s] = {} /\ todo[s] = {} /\ own[s] = {}
        /\ repo = 1 /\ \A p \in Session : pc[p] = "off"
    BY DEF Init
  <2>2. Ingested(s) = {}
    BY <2>1, NothingIngested
  <2>3. PlaceInvOf(s)
    BY <2>1, <2>2 DEF PlaceInvOf, HasIngested, Nothing, Absent
  <2>4. StoredInvOf(s) /\ OrderInvOf(s) /\ GraphInvOf(s)
    BY <2>1, <2>2 DEF StoredInvOf, OrderInvOf, GraphInvOf
  <2>5. QED
    BY <2>3, <2>4 DEF SessionInvOf
<1>4. QED
  BY <1>1, <1>2, <1>3 DEF LInv

LEMMA LInvStep == LInv /\ [Next]_vars => LInv'
  BY TypeStep, RowStep, SessionStep DEF LInv

(* The inductive invariant of the index's life holds in every reachable state. *)
THEOREM LifecycleInvariance == Spec => []LInv
  BY LInvInit, LInvStep, PTL DEF Spec

(* Rows, edges and sessions are always of their types. *)
THEOREM LifecycleTypeCorrect == Spec => []TypeOK
  BY LifecycleInvariance, PTL DEF LInv

(* Who ingested answers from every chunk it read and did not drop, as recent as *)
(* it read it if nobody ingested beside it, with the edges of what is still as  *)
(* it wrote it; who did not, from every chunk of each ingestion that was not    *)
(* cut short.                                                                *)
THEOREM IngestedIsServedAlways == Spec => []IngestedIsServed
<1>1. LInv => IngestedIsServed
  <2> SUFFICES ASSUME LInv, NEW s \in Session, Answering(s)
               PROVE  /\ \A c \in Stored(s) :
                           /\ c.id \in Indexed
                           /\ rows[c.id] >= seen[s][c.file] \/ s \in overlapped
                      /\ GraphStore => GraphIsServed(s)
                      /\ ~HasIngested(s) => Indexed # {} /\ complete \subseteq Indexed
    BY DEF IngestedIsServed
  <2>1. /\ pc[s] = "serve" /\ RowInv
        /\ PlaceInvOf(s) /\ StoredInvOf(s) /\ OrderInvOf(s) /\ GraphInvOf(s)
    BY DEF Answering, LInv, SessionInvOf
  <2>2. ASSUME NEW c \in Stored(s)
        PROVE  c.id \in Indexed /\ (rows[c.id] >= seen[s][c.file] \/ s \in overlapped)
    BY <2>1 DEF Stored, PlaceInvOf, StoredInvOf, OrderInvOf
  <2>3. GraphStore => GraphIsServed(s)
    BY <2>1 DEF GraphInvOf
  <2>4. ~HasIngested(s) => Indexed # {} /\ complete \subseteq Indexed
    BY <2>1 DEF PlaceInvOf, RowInv
  <2>5. QED
    BY <2>2, <2>3, <2>4
<1>2. QED
  BY <1>1, LifecycleInvariance, PTL

(* No row is ever lost, and none goes back to an older version, except by an    *)
(* ingestion that runs beside another.                                       *)
THEOREM NoRegressionAlways == Spec => NoRegression
<1> DEFINE Forward ==
      \A i \in Id :
        /\ i \in Indexed => i \in Indexed'
        /\ rows'[i] < rows[i] => \E s \in overlapped : i \in todo[s] \ todo'[s]
<1>1. ASSUME LInv, [Next]_vars PROVE Forward
  <2>0. TypeOK /\ \A i \in Id : rows[i] \in Nat
    BY <1>1, NumbersAre DEF LInv
  <2>1. Indexed \subseteq Indexed'
    BY <1>1, Growth
  <2>2. ASSUME NEW i \in Id, rows'[i] < rows[i], NEW s \in Session, StoreRow(s)
        PROVE  s \in overlapped /\ i \in todo[s] \ todo'[s]
    <3>1. PICK c \in Ingested(s) :
            /\ c.id \in todo[s] /\ c.id \in Id /\ seen[s][c.file] \in Version
            /\ rows' = [rows EXCEPT ![c.id] = seen[s][c.file]]
            /\ todo' = [todo EXCEPT ![s] = @ \ {c.id}]
      BY <1>1, <2>2, StoreFacts
    <3>2. rows'[i] = (IF i = c.id THEN seen[s][c.file] ELSE rows[i]) /\ c.id \notin todo'[s]
      BY <2>0, <3>1 DEF TypeOK
    <3>3. i = c.id
      BY <2>0, <2>2, <3>2
    <3>4. s \notin overlapped => rows[c.id] <= seen[s][c.file]
      BY <1>1, <3>1 DEF LInv, SessionInvOf, OrderInvOf
    <3>5. seen[s][c.file] \in Nat
      BY <3>1, Numbers
    <3>6. QED
      BY <2>0, <2>2, <3>1, <3>2, <3>3, <3>4, <3>5
  <2>3. ASSUME NEW i \in Id, rows'[i] < rows[i]
        PROVE  \E s \in overlapped : i \in todo[s] \ todo'[s]
    <3>1. rows' # rows
      BY <2>0, <2>3
    <3>2. PICK s \in Session : StoreRow(s)
      BY <1>1, <3>1, OnlyStores
    <3>3. QED
      BY <2>2, <2>3, <3>2
  <2>4. QED
    BY <2>1, <2>3
<1>2. LInv /\ [Next]_vars => [Forward]_vars
  BY <1>1
<1>3. QED
  BY <1>2, LifecycleInvariance, PTL DEF Spec, NoRegression
=============================================================================
