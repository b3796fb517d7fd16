-------------------------- MODULE CozoStoreProofs ---------------------------
(***************************************************************************)
(* Proofs about the CozoDB store: for any number of goroutines, chunks and     *)
(* versions, on a database that fails or does not, its lock makes of several   *)
(* statements one step, and only a search that falls back can block.         *)
(***************************************************************************)
EXTENDS CozoStore, TLAPS

Inside == {"node", "rmParams", "params", "rmSkills", "skills", "edges"}
Awaiting == {"wait", "ewait"}
Upserting == {"lock", "wait", "node", "rmParams", "params", "rmSkills", "skills"}
Reading == {"query", "nodes", "params", "skills", "runlock"}
Loading == {"params", "skills", "runlock"}
Jobs == [c : Chunk, v : Version]

PcInv ==
  /\ pc \in [Goroutine -> WriterPc \cup ReaderPc]
  /\ \A w \in Writer : pc[w] \in WriterPc
  /\ \A r \in Reader : pc[r] \in ReaderPc

(* Who holds the write lock is alone.                                        *)
WriterInvOf(w) ==
  /\ writer = w <=> pc[w] \in Inside \cup Awaiting
  /\ pc[w] \in Inside => \A g \in Goroutine : held[g] = 0
  /\ held[w] = IF pc[w] = "scan" THEN 1 ELSE 0
  /\ pc[w] \in Upserting => job[w] \in Jobs
  /\ pc[w] \notin Upserting => job[w] = NoJob

WriterInv == \A w \in Writer : WriterInvOf(w)

(* A search holds one read lock while it reads, and one more once it has       *)
(* fallen back.                                                              *)
ReaderInvOf(r) ==
  /\ held[r] = (IF fallback[r] = "no" THEN 0 ELSE 1) + (IF pc[r] \in Reading THEN 1 ELSE 0)
  /\ pc[r] = "idle" => fallback[r] = "no"

ReaderInv == \A r \in Reader : ReaderInvOf(r)

OverlapInv ==
  overlap \/ (\A w \in Writer : pc[w] = "idle") \/ (\A r \in Reader : pc[r] = "idle")

(* How far an Upsert has come with the three relations.                      *)
StageInvOf(w) ==
  LET c == job[w].c
      v == job[w].v
  IN /\ pc[w] \in {"rmParams", "params", "rmSkills", "skills"} => nodes[c] = v
     /\ pc[w] = "params" => params[c] \in Seq({v}) /\ Len(params[c]) <= ParamsOf[v]
     /\ pc[w] \in {"rmSkills", "skills"} => params[c] = [i \in 1 .. ParamsOf[v] |-> v]
     /\ pc[w] = "skills" => skills[c] \subseteq SkillsOf[v]

StageInv == \A w \in Writer : StageInvOf(w)

(* A chunk that nobody has begun to write over is whole.                     *)
WholeInvOf(c) ==
  c \notin broken /\ (\A w \in Writer : job[w].c = c => pc[w] \in {"lock", "wait", "node"}) =>
    Row(c) = RowOf(nodes[c])

WholeInv == \A c \in Chunk : WholeInvOf(c)

(* What a search has put together is in the store as it is.                  *)
ReadInvOf(r) ==
  \A c \in Chunk :
    /\ c \in hits[r] /\ pc[r] \in Loading =>
         /\ res[r][c].node = nodes[c]
         /\ pc[r] # "params" => res[r][c].params = params[c]
         /\ pc[r] = "runlock" => res[r][c].skills = skills[c]
    /\ c \notin hits[r] \/ pc[r] \notin Loading =>
         res[r][c] = NoRow \/ (fallback[r] = "keyword" /\ res[r][c] = Row(c))

ReadInv == \A r \in Reader : ReadInvOf(r)

CInv ==
  TypeOK /\ PcInv /\ WriterInv /\ ReaderInv /\ OverlapInv /\ StageInv /\ WholeInv /\ ReadInv

-----------------------------------------------------------------------------
(* Constants and the lock. *)

LEMMA Constant ==
  /\ Version \subseteq Nat /\ 0 \notin Version
  /\ \A v \in Version : ParamsOf[v] \in Nat /\ SkillsOf[v] \subseteq AllSkills
  /\ <<>> \in ParamRows /\ NoRow \in Partial
  /\ NoJob.c \notin Chunk /\ NoJob \notin Jobs
<1>1. Version \subseteq Nat /\ 0 \notin Version /\ \A v \in Version : ParamsOf[v] \in Nat
  BY StoreAssumption DEF Version
<1>2. \A v \in Version : SkillsOf[v] \subseteq AllSkills
  BY DEF AllSkills
<1>3. <<>> \in ParamRows /\ NoRow \in Partial
  BY DEF ParamRows, Partial, NoRow
<1>4. NoJob.c \notin Chunk /\ NoJob \notin Jobs
  BY StoreAssumption DEF NoJob, Jobs
<1>5. QED
  BY <1>1, <1>2, <1>3, <1>4

(* Readers and writers are told apart by their name. *)
LEMMA Apart ==
  /\ Writer \subseteq Goroutine /\ Reader \subseteq Goroutine
  /\ \A w \in Writer, r \in Reader : w # r
  /\ Nobody \notin Writer
  BY StoreAssumption DEF Goroutine

(* While one writer is inside, no other holds or awaits the lock, and no search *)
(* is reading or has fallen back.                                            *)
LEMMA Alone ==
  ASSUME CInv, NEW w \in Writer, pc[w] \in Inside
  PROVE  /\ \A x \in Writer : x # w => pc[x] \notin Inside \cup Awaiting
         /\ \A r \in Reader : pc[r] \notin Reading /\ fallback[r] = "no"
<1>1. WriterInvOf(w) /\ \A x \in Writer : WriterInvOf(x)
  BY DEF CInv, WriterInv
<1>2. \A g \in Goroutine : held[g] = 0
  BY <1>1 DEF WriterInvOf
<1>3. \A r \in Reader : ReaderInvOf(r) /\ held[r] = 0
  BY <1>2, Apart DEF CInv, ReaderInv
<1>4. \A x \in Writer : x # w => pc[x] \notin Inside \cup Awaiting
  BY <1>1 DEF WriterInvOf
<1>5. \A r \in Reader : pc[r] \notin Reading /\ fallback[r] = "no"
  BY <1>3 DEF ReaderInvOf
<1>6. QED
  BY <1>4, <1>5

(* Every goroutine stands where it can stand. *)
LEMMA PcStep ==
  ASSUME CInv, [Next]_vars
  PROVE  PcInv'
<1> USE Apart DEF CInv, PcInv, Goto, WriterPc, ReaderPc, Return
<1>1. ASSUME NEW w \in Writer, CallUpsert(w) PROVE PcInv'
  BY <1>1 DEF CallUpsert
<1>2. ASSUME NEW w \in Writer, CallBuildEdges(w) PROVE PcInv'
  BY <1>2 DEF CallBuildEdges
<1>3. ASSUME NEW w \in Writer, UpsertLocks(w) PROVE PcInv'
  BY <1>3 DEF UpsertLocks
<1>4. ASSUME NEW w \in Writer, PutNode(w) PROVE PcInv'
  BY <1>4 DEF PutNode
<1>5. ASSUME NEW w \in Writer, ClearParams(w) PROVE PcInv'
  BY <1>5 DEF ClearParams
<1>6. ASSUME NEW w \in Writer, PutParam(w) PROVE PcInv'
  BY <1>6 DEF PutParam
<1>7. ASSUME NEW w \in Writer, ClearSkills(w) PROVE PcInv'
  BY <1>7 DEF ClearSkills
<1>8. ASSUME NEW w \in Writer, PutSkill(w) PROVE PcInv'
  BY <1>8 DEF PutSkill
<1>9. ASSUME NEW w \in Writer, UpsertReturns(w) PROVE PcInv'
  BY <1>9 DEF UpsertReturns
<1>10. ASSUME NEW w \in Writer, UpsertFails(w) PROVE PcInv'
  BY <1>10 DEF UpsertFails
<1>11. ASSUME NEW w \in Writer, ScanLocks(w) PROVE PcInv'
  BY <1>11 DEF ScanLocks
<1>12. ASSUME NEW w \in Writer, Scan(w) PROVE PcInv'
  BY <1>12 DEF Scan
<1>13. ASSUME NEW w \in Writer, EdgesLock(w) PROVE PcInv'
  BY <1>13 DEF EdgesLock
<1>14. ASSUME NEW w \in Writer, PutEdges(w) PROVE PcInv'
  BY <1>14 DEF PutEdges
<1>15. ASSUME NEW r \in Reader, CallSearch(r) PROVE PcInv'
  BY <1>15 DEF CallSearch
<1>16. ASSUME NEW r \in Reader, SearchLocks(r) PROVE PcInv'
  BY <1>16 DEF SearchLocks
<1>17. ASSUME NEW r \in Reader, Query(r) PROVE PcInv'
  BY <1>17 DEF Query
<1>18. ASSUME NEW r \in Reader, FallBack(r) PROVE PcInv'
  BY <1>18 DEF FallBack
<1>19. ASSUME NEW r \in Reader, SearchFails(r) PROVE PcInv'
  BY <1>19 DEF SearchFails
<1>20. ASSUME NEW r \in Reader, LoadNodes(r) PROVE PcInv'
  BY <1>20 DEF LoadNodes
<1>21. ASSUME NEW r \in Reader, LoadParams(r) PROVE PcInv'
  BY <1>21 DEF LoadParams
<1>22. ASSUME NEW r \in Reader, LoadSkills(r) PROVE PcInv'
  BY <1>22 DEF LoadSkills
<1>23. ASSUME NEW r \in Reader, SearchReturns(r) PROVE PcInv'
  BY <1>23 DEF SearchReturns
<1>24. CASE UNCHANGED vars
  BY <1>24 DEF vars, rows, lock, search
<1>25. QED
  BY <1>1, <1>2, <1>3, <1>4, <1>5, <1>6, <1>7, <1>8, <1>9, <1>10, <1>11,
     <1>12, <1>13, <1>14, <1>15, <1>16, <1>17, <1>18, <1>19, <1>20, <1>21,
     <1>22, <1>23, <1>24
  DEF Next, WriterStep, ReaderStep

(* A search that returns leaves nothing behind. *)
LEMMA ReturnFacts ==
  ASSUME CInv, NEW r \in Reader, Return(r)
  PROVE  /\ held' \in [Goroutine -> 0 .. 2]
         /\ writer' = writer
         /\ hybrid' \in [Reader -> BOOLEAN]
         /\ fallback' \in [Reader -> {"no", "vector", "keyword"}]
         /\ hits' \in [Reader -> SUBSET Chunk]
         /\ res' \in [Reader -> [Chunk -> Partial]]
<1>1. held' \in [Goroutine -> 0 .. 2] /\ writer' = writer
  BY Apart DEF CInv, TypeOK, Return
<1>2. /\ hybrid' \in [Reader -> BOOLEAN]
      /\ fallback' \in [Reader -> {"no", "vector", "keyword"}]
      /\ hits' \in [Reader -> SUBSET Chunk]
  BY DEF CInv, TypeOK, Return
<1>3. /\ res \in [Reader -> [Chunk -> Partial]] /\ NoRow \in Partial
      /\ res' = [res EXCEPT ![r] = [c \in Chunk |-> NoRow]]
  BY Constant DEF CInv, TypeOK, Return
<1>4. res' \in [Reader -> [Chunk -> Partial]]
  BY <1>3
<1>5. QED
  BY <1>1, <1>2, <1>4

(* The job of a writer in Upsert is a chunk and a version. *)
LEMMA JobFacts ==
  ASSUME CInv, NEW w \in Writer, pc[w] \in Upserting
  PROVE  job[w] \in Jobs /\ job[w].c \in Chunk /\ job[w].v \in Version
<1>1. job[w] \in Jobs
  BY DEF CInv, WriterInv, WriterInvOf
<1>2. QED
  BY <1>1 DEF Jobs

(* What a goroutine that takes or gives back a read lock holds of it. *)
LEMMA HeldFacts ==
  ASSUME CInv
  PROVE  /\ \A w \in Writer : held[w] = IF pc[w] = "scan" THEN 1 ELSE 0
         /\ \A r \in Reader : pc[r] = "rlock" => held[r] \in {0, 1}
         /\ \A r \in Reader : pc[r] = "runlock" /\ fallback[r] = "vector" => held[r] = 2
<1>1. \A w \in Writer : held[w] = IF pc[w] = "scan" THEN 1 ELSE 0
  BY DEF CInv, WriterInv, WriterInvOf
<1>2. ASSUME NEW r \in Reader
      PROVE  /\ pc[r] = "rlock" => held[r] \in {0, 1}
             /\ pc[r] = "runlock" /\ fallback[r] = "vector" => held[r] = 2
  BY DEF CInv, ReaderInv, ReaderInvOf, Reading
<1>3. QED
  BY <1>1, <1>2

(* Loading fills a field in, and leaves chunks that were not hit alone. *)
LEMMA LoadFacts ==
  ASSUME CInv, NEW r \in Reader
  PROVE  /\ res \in [Reader -> [Chunk -> Partial]]
         /\ \A c \in Chunk : /\ res[r][c] \in Partial
                             /\ [NoRow EXCEPT !.node = nodes[c]] \in Partial
                             /\ [res[r][c] EXCEPT !.params = params[c]] \in Partial
                             /\ [res[r][c] EXCEPT !.skills = skills[c]] \in Partial
<1>1. res \in [Reader -> [Chunk -> Partial]]
  BY DEF CInv, TypeOK
<1>2. ASSUME NEW c \in Chunk
      PROVE  /\ res[r][c] \in Partial
             /\ nodes[c] \in Version \cup {0}
             /\ params[c] \in ParamRows
             /\ skills[c] \in SUBSET AllSkills
  BY <1>1 DEF CInv, TypeOK
<1>3. ASSUME NEW x \in Partial, NEW n \in Version \cup {0}, NEW p \in ParamRows,
             NEW k \in SUBSET AllSkills
      PROVE  /\ [x EXCEPT !.node = n] \in Partial
             /\ [x EXCEPT !.params = p] \in Partial
             /\ [x EXCEPT !.skills = k] \in Partial
  BY DEF Partial
<1>4. QED
  BY <1>1, <1>2, <1>3, Constant

(* What a parameter, a read lock or a loaded relation is put into keeps its      *)
(* type.                                                                     *)
LEMMA ParamsTyped ==
  ASSUME CInv, NEW w \in Writer, PutParam(w)
  PROVE  params' \in [Chunk -> ParamRows]
<1>1. job[w].c \in Chunk /\ job[w].v \in Version
  BY JobFacts DEF PutParam, Upserting
<1>2. params \in [Chunk -> ParamRows]
  BY DEF CInv, TypeOK
<1>3. Append(params[job[w].c], job[w].v) \in ParamRows
  BY <1>1, <1>2 DEF ParamRows
<1>4. \/ params' = params
      \/ params' = [params EXCEPT ![job[w].c] = Append(params[job[w].c], job[w].v)]
  BY DEF PutParam
<1>5. QED
  BY <1>1, <1>2, <1>3, <1>4

LEMMA HeldTyped ==
  ASSUME CInv, NEW r \in Reader, SearchLocks(r) \/ (SearchReturns(r) /\ fallback[r] = "vector")
  PROVE  held' \in [Goroutine -> 0 .. 2]
<1>1. held \in [Goroutine -> 0 .. 2] /\ r \in Goroutine
  BY Apart DEF CInv, TypeOK
<1>2. CASE SearchLocks(r)
  <2>1. held[r] \in {0, 1} /\ held' = [held EXCEPT ![r] = held[r] + 1]
    BY <1>2, HeldFacts DEF SearchLocks, RLock
  <2>2. held[r] + 1 \in 0 .. 2
    BY <2>1
  <2>3. QED
    BY <1>1, <2>1, <2>2
<1>3. CASE SearchReturns(r) /\ fallback[r] = "vector"
  <2>1. held[r] = 2 /\ held' = [held EXCEPT ![r] = held[r] - 1]
    BY <1>3, HeldFacts DEF SearchReturns, RUnlock
  <2>2. held[r] - 1 \in 0 .. 2
    BY <2>1
  <2>3. QED
    BY <1>1, <2>1, <2>2
<1>4. QED
  BY <1>2, <1>3

LEMMA ResTyped ==
  ASSUME CInv, NEW r \in Reader, LoadNodes(r) \/ LoadParams(r) \/ LoadSkills(r)
  PROVE  res' \in [Reader -> [Chunk -> Partial]]
<1>1. res \in [Reader -> [Chunk -> Partial]]
  BY LoadFacts
<1>2. PICK f : res' = [res EXCEPT ![r] = f] /\ f \in [Chunk -> Partial]
  BY LoadFacts DEF LoadNodes, LoadParams, LoadSkills
<1>3. QED
  BY <1>1, <1>2

(* Everything keeps its type. *)
LEMMA TypeStep ==
  ASSUME CInv, [Next]_vars
  PROVE  TypeOK'
<1>0. PcInv'
  BY PcStep
<1> USE <1>0, Apart, Constant DEF CInv, TypeOK, PcInv, Goto, WriterPc, ReaderPc, rows, lock, search, Announce, Unlock, RLock, RUnlock, Return, Jobs
<1>1. ASSUME NEW w \in Writer, CallUpsert(w) PROVE TypeOK'
  BY <1>1 DEF CallUpsert
<1>2. ASSUME NEW w \in Writer, CallBuildEdges(w) PROVE TypeOK'
  BY <1>2 DEF CallBuildEdges
<1>3. ASSUME NEW w \in Writer, UpsertLocks(w) PROVE TypeOK'
  BY <1>3 DEF UpsertLocks
<1>4. ASSUME NEW w \in Writer, PutNode(w) PROVE TypeOK'
  <2>1. job[w].c \in Chunk /\ job[w].v \in Version
    BY <1>4, JobFacts DEF PutNode, Upserting
  <2>2. QED
    BY <1>4, <2>1 DEF PutNode
<1>5. ASSUME NEW w \in Writer, ClearParams(w) PROVE TypeOK'
  BY <1>5 DEF ClearParams
<1>6. ASSUME NEW w \in Writer, PutParam(w) PROVE TypeOK'
  BY <1>6, ParamsTyped DEF PutParam
<1>7. ASSUME NEW w \in Writer, ClearSkills(w) PROVE TypeOK'
  BY <1>7 DEF ClearSkills
<1>8. ASSUME NEW w \in Writer, PutSkill(w) PROVE TypeOK'
  <2>1. job[w].c \in Chunk /\ job[w].v \in Version
    BY <1>8, JobFacts DEF PutSkill, Upserting
  <2>2. PICK k \in AllSkills : skills' = [skills EXCEPT ![job[w].c] = skills[job[w].c] \cup {k}]
    BY <1>8, <2>1 DEF PutSkill
  <2>3. skills' \in [Chunk -> SUBSET AllSkills]
    BY <2>1, <2>2
  <2>4. QED
    BY <1>8, <2>3 DEF PutSkill
<1>9. ASSUME NEW w \in Writer, UpsertReturns(w) PROVE TypeOK'
  BY <1>9 DEF UpsertReturns
<1>10. ASSUME NEW w \in Writer, UpsertFails(w) PROVE TypeOK'
  <2>1. job[w].c \in Chunk
    BY <1>10, JobFacts DEF UpsertFails, Upserting
  <2>2. broken' \in SUBSET Chunk
    BY <1>10, <2>1 DEF UpsertFails
  <2>3. QED
    BY <1>10, <2>2 DEF UpsertFails
<1>11. ASSUME NEW w \in Writer, ScanLocks(w) PROVE TypeOK'
  <2>1. held' \in [Goroutine -> 0 .. 2]
    <3>1. held'[w] \in 0 .. 2 /\ w \in Goroutine
      BY <1>11, HeldFacts DEF ScanLocks
    <3>2. QED
      BY <1>11, <3>1 DEF ScanLocks
  <2>2. QED
    BY <1>11, <2>1 DEF ScanLocks
<1>12. ASSUME NEW w \in Writer, Scan(w) PROVE TypeOK'
  <2>1. held' \in [Goroutine -> 0 .. 2]
    <3>1. held'[w] \in 0 .. 2 /\ w \in Goroutine
      BY <1>12, HeldFacts DEF Scan
    <3>2. QED
      BY <1>12, <3>1 DEF Scan
  <2>2. snap' \in [Writer -> SUBSET Chunk]
    <3>1. snap' = snap \/ snap' = [snap EXCEPT ![w] = Stored]
      BY <1>12 DEF Scan
    <3>2. Stored \in SUBSET Chunk
      BY DEF Stored
    <3>3. QED
      BY <3>1, <3>2
  <2>3. QED
    BY <1>12, <2>1, <2>2 DEF Scan
<1>13. ASSUME NEW w \in Writer, EdgesLock(w) PROVE TypeOK'
  BY <1>13 DEF EdgesLock
<1>14. ASSUME NEW w \in Writer, PutEdges(w) PROVE TypeOK'
  BY <1>14 DEF PutEdges
<1>15. ASSUME NEW r \in Reader, CallSearch(r) PROVE TypeOK'
  BY <1>15 DEF CallSearch
<1>16. ASSUME NEW r \in Reader, SearchLocks(r) PROVE TypeOK'
  BY <1>16, HeldTyped DEF SearchLocks
<1>17. ASSUME NEW r \in Reader, Query(r) PROVE TypeOK'
  <2>1. hits' \in [Reader -> SUBSET Chunk]
    BY <1>17 DEF Query, Stored
  <2>2. QED
    BY <1>17, <2>1 DEF Query
<1>18. ASSUME NEW r \in Reader, FallBack(r) PROVE TypeOK'
  BY <1>18 DEF FallBack
<1>19. ASSUME NEW r \in Reader, SearchFails(r) PROVE TypeOK'
  <2>1. Return(r) /\ UNCHANGED <<rows, graph, job, snap>>
    BY <1>19 DEF SearchFails
  <2> HIDE DEF Return
  <2>2. QED
    BY <2>1, ReturnFacts
<1>20. ASSUME NEW r \in Reader, LoadNodes(r) PROVE TypeOK'
  BY <1>20, ResTyped DEF LoadNodes
<1>21. ASSUME NEW r \in Reader, LoadParams(r) PROVE TypeOK'
  BY <1>21, ResTyped DEF LoadParams
<1>22. ASSUME NEW r \in Reader, LoadSkills(r) PROVE TypeOK'
  BY <1>22, ResTyped DEF LoadSkills
<1>23. ASSUME NEW r \in Reader, SearchReturns(r) PROVE TypeOK'
  <2> HIDE DEF Return
  <2>1. CASE fallback[r] = "vector"
    <3>1. held' \in [Goroutine -> 0 .. 2]
      BY <1>23, <2>1, HeldTyped
    <3>2. /\ fallback' \in [Reader -> {"no", "vector", "keyword"}]
          /\ hits' \in [Reader -> SUBSET Chunk]
      <4>1. /\ fallback' = [fallback EXCEPT ![r] = "keyword"]
            /\ hits' = [hits EXCEPT ![r] = {}]
        BY <1>23, <2>1 DEF SearchReturns
      <4>2. QED
        BY <4>1
    <3>3. UNCHANGED <<rows, graph, job, snap, hybrid, res, writer>>
      BY <1>23, <2>1 DEF SearchReturns
    <3>4. QED
      BY <3>1, <3>2, <3>3
  <2>2. CASE fallback[r] # "vector"
    <3>1. Return(r) /\ UNCHANGED <<rows, graph, job, snap>>
      BY <1>23, <2>2 DEF SearchReturns
    <3>2. QED
      BY <3>1, ReturnFacts
  <2>3. QED
    BY <2>1, <2>2
<1>24. CASE UNCHANGED vars
  BY <1>24 DEF vars, rows, lock, search
<1>25. QED
  BY <1>1, <1>2, <1>3, <1>4, <1>5, <1>6, <1>7, <1>8, <1>9, <1>10, <1>11,
     <1>12, <1>13, <1>14, <1>15, <1>16, <1>17, <1>18, <1>19, <1>20, <1>21,
     <1>22, <1>23, <1>24
  DEF Next, WriterStep, ReaderStep

(* The lock is one writer's, and its job is known while it writes. *)
LEMMA WriterStepInv ==
  ASSUME CInv, [Next]_vars
  PROVE  WriterInv'
<1> SUFFICES ASSUME NEW x \in Writer PROVE WriterInvOf(x)'
  BY DEF WriterInv
<1>0. WriterInvOf(x) /\ \A y \in Writer : WriterInvOf(y)
  BY DEF CInv, WriterInv
<1>a. pc \in [Goroutine -> WriterPc \cup ReaderPc]
  BY DEF CInv, PcInv
<1>b. held \in [Goroutine -> 0 .. 2] /\ job \in [Writer -> Jobs \cup {NoJob}]
  BY DEF CInv, TypeOK, Jobs
<1>c. \A r \in Reader : ReaderInvOf(r)
  BY DEF CInv, ReaderInv
<1> USE <1>0, <1>a, <1>b, <1>c, Apart, Constant DEF WriterInvOf, Goto, Inside, Awaiting, Upserting, lock, search, rows
<1>1. ASSUME NEW w \in Writer, CallUpsert(w) PROVE WriterInvOf(x)'
  <2>1. PICK c \in Chunk, v \in Version : job' = [job EXCEPT ![w] = [c |-> c, v |-> v]]
    BY <1>1 DEF CallUpsert
  <2>2. [c |-> c, v |-> v] \in Jobs
    BY DEF Jobs
  <2>3. job'[x] \in Jobs \cup {NoJob} /\ (x = w => job'[x] \in Jobs) /\ (x # w => job'[x] = job[x])
    BY <2>1, <2>2
  <2>4. pc[w] = "idle" /\ pc' = [pc EXCEPT ![w] = "lock"] /\ UNCHANGED <<writer, held>>
    BY <1>1 DEF CallUpsert
  <2>5. QED
    BY <2>3, <2>4
<1>2. ASSUME NEW w \in Writer, CallBuildEdges(w) PROVE WriterInvOf(x)'
  BY <1>2 DEF CallBuildEdges, Announce, Acquired, Unlock, RLock, RUnlock
<1>3. ASSUME NEW w \in Writer, UpsertLocks(w) PROVE WriterInvOf(x)'
  BY <1>3 DEF UpsertLocks, Announce, Acquired, Unlock, RLock, RUnlock
<1>4. ASSUME NEW w \in Writer, PutNode(w) PROVE WriterInvOf(x)'
  BY <1>4 DEF PutNode, Announce, Acquired, Unlock, RLock, RUnlock
<1>5. ASSUME NEW w \in Writer, ClearParams(w) PROVE WriterInvOf(x)'
  BY <1>5 DEF ClearParams, Announce, Acquired, Unlock, RLock, RUnlock
<1>6. ASSUME NEW w \in Writer, PutParam(w) PROVE WriterInvOf(x)'
  BY <1>6 DEF PutParam, Announce, Acquired, Unlock, RLock, RUnlock
<1>7. ASSUME NEW w \in Writer, ClearSkills(w) PROVE WriterInvOf(x)'
  BY <1>7 DEF ClearSkills, Announce, Acquired, Unlock, RLock, RUnlock
<1>8. ASSUME NEW w \in Writer, PutSkill(w) PROVE WriterInvOf(x)'
  BY <1>8 DEF PutSkill, Announce, Acquired, Unlock, RLock, RUnlock
<1>9. ASSUME NEW w \in Writer, UpsertReturns(w) PROVE WriterInvOf(x)'
  BY <1>9 DEF UpsertReturns, Announce, Acquired, Unlock, RLock, RUnlock
<1>10. ASSUME NEW w \in Writer, UpsertFails(w) PROVE WriterInvOf(x)'
  BY <1>10 DEF UpsertFails, Announce, Acquired, Unlock, RLock, RUnlock
<1>11. ASSUME NEW w \in Writer, ScanLocks(w) PROVE WriterInvOf(x)'
  BY <1>11 DEF ScanLocks, Announce, Acquired, Unlock, RLock, RUnlock
<1>12. ASSUME NEW w \in Writer, Scan(w) PROVE WriterInvOf(x)'
  BY <1>12 DEF Scan, Announce, Acquired, Unlock, RLock, RUnlock
<1>13. ASSUME NEW w \in Writer, EdgesLock(w) PROVE WriterInvOf(x)'
  BY <1>13 DEF EdgesLock, Announce, Acquired, Unlock, RLock, RUnlock
<1>14. ASSUME NEW w \in Writer, PutEdges(w) PROVE WriterInvOf(x)'
  BY <1>14 DEF PutEdges, Announce, Acquired, Unlock, RLock, RUnlock
<1>15. ASSUME NEW r \in Reader, CallSearch(r) PROVE WriterInvOf(x)'
  BY <1>15 DEF CallSearch, RLock, RUnlock, Return, ReaderInvOf, Reading
<1>16. ASSUME NEW r \in Reader, SearchLocks(r) PROVE WriterInvOf(x)'
  BY <1>16 DEF SearchLocks, RLock, RUnlock, Return, ReaderInvOf, Reading
<1>17. ASSUME NEW r \in Reader, Query(r) PROVE WriterInvOf(x)'
  BY <1>17 DEF Query, RLock, RUnlock, Return, ReaderInvOf, Reading
<1>18. ASSUME NEW r \in Reader, FallBack(r) PROVE WriterInvOf(x)'
  BY <1>18 DEF FallBack, RLock, RUnlock, Return, ReaderInvOf, Reading
<1>19. ASSUME NEW r \in Reader, SearchFails(r) PROVE WriterInvOf(x)'
  BY <1>19 DEF SearchFails, RLock, RUnlock, Return, ReaderInvOf, Reading
<1>20. ASSUME NEW r \in Reader, LoadNodes(r) PROVE WriterInvOf(x)'
  BY <1>20 DEF LoadNodes, RLock, RUnlock, Return, ReaderInvOf, Reading
<1>21. ASSUME NEW r \in Reader, LoadParams(r) PROVE WriterInvOf(x)'
  BY <1>21 DEF LoadParams, RLock, RUnlock, Return, ReaderInvOf, Reading
<1>22. ASSUME NEW r \in Reader, LoadSkills(r) PROVE WriterInvOf(x)'
  BY <1>22 DEF LoadSkills, RLock, RUnlock, Return, ReaderInvOf, Reading
<1>23. ASSUME NEW r \in Reader, SearchReturns(r) PROVE WriterInvOf(x)'
  BY <1>23 DEF SearchReturns, RLock, RUnlock, Return, ReaderInvOf, Reading
<1>24. CASE UNCHANGED vars
  BY <1>24 DEF vars, rows, lock, search
<1>25. QED
  BY <1>1, <1>2, <1>3, <1>4, <1>5, <1>6, <1>7, <1>8, <1>9, <1>10, <1>11,
     <1>12, <1>13, <1>14, <1>15, <1>16, <1>17, <1>18, <1>19, <1>20, <1>21,
     <1>22, <1>23, <1>24
  DEF Next, WriterStep, ReaderStep

(* A search takes and gives back its read locks in turn. *)
LEMMA ReaderStepInv ==
  ASSUME CInv, [Next]_vars
  PROVE  ReaderInv'
<1> SUFFICES ASSUME NEW x \in Reader PROVE ReaderInvOf(x)'
  BY DEF ReaderInv
<1>0. ReaderInvOf(x) /\ \A w \in Writer : WriterInvOf(w)
  BY DEF CInv, WriterInv, ReaderInv
<1>a. pc \in [Goroutine -> WriterPc \cup ReaderPc] /\ pc[x] \in ReaderPc
  BY DEF CInv, PcInv
<1>b. held \in [Goroutine -> 0 .. 2] /\ fallback \in [Reader -> {"no", "vector", "keyword"}]
  BY DEF CInv, TypeOK
<1> USE <1>0, <1>a, <1>b, Apart DEF ReaderInvOf, Goto, Reading, ReaderPc, lock, search, rows
<1>1. ASSUME NEW w \in Writer, CallUpsert(w) PROVE ReaderInvOf(x)'
  BY <1>1 DEF CallUpsert, Announce, Unlock, RLock, RUnlock, WriterInvOf
<1>2. ASSUME NEW w \in Writer, CallBuildEdges(w) PROVE ReaderInvOf(x)'
  BY <1>2 DEF CallBuildEdges, Announce, Unlock, RLock, RUnlock, WriterInvOf
<1>3. ASSUME NEW w \in Writer, UpsertLocks(w) PROVE ReaderInvOf(x)'
  BY <1>3 DEF UpsertLocks, Announce, Unlock, RLock, RUnlock, WriterInvOf
<1>4. ASSUME NEW w \in Writer, PutNode(w) PROVE ReaderInvOf(x)'
  BY <1>4 DEF PutNode, Announce, Unlock, RLock, RUnlock, WriterInvOf
<1>5. ASSUME NEW w \in Writer, ClearParams(w) PROVE ReaderInvOf(x)'
  BY <1>5 DEF ClearParams, Announce, Unlock, RLock, RUnlock, WriterInvOf
<1>6. ASSUME NEW w \in Writer, PutParam(w) PROVE ReaderInvOf(x)'
  BY <1>6 DEF PutParam, Announce, Unlock, RLock, RUnlock, WriterInvOf
<1>7. ASSUME NEW w \in Writer, ClearSkills(w) PROVE ReaderInvOf(x)'
  BY <1>7 DEF ClearSkills, Announce, Unlock, RLock, RUnlock, WriterInvOf
<1>8. ASSUME NEW w \in Writer, PutSkill(w) PROVE ReaderInvOf(x)'
  BY <1>8 DEF PutSkill, Announce, Unlock, RLock, RUnlock, WriterInvOf
<1>9. ASSUME NEW w \in Writer, UpsertReturns(w) PROVE ReaderInvOf(x)'
  BY <1>9 DEF UpsertReturns, Announce, Unlock, RLock, RUnlock, WriterInvOf
<1>10. ASSUME NEW w \in Writer, UpsertFails(w) PROVE ReaderInvOf(x)'
  BY <1>10 DEF UpsertFails, Announce, Unlock, RLock, RUnlock, WriterInvOf
<1>11. ASSUME NEW w \in Writer, ScanLocks(w) PROVE ReaderInvOf(x)'
  BY <1>11 DEF ScanLocks, Announce, Unlock, RLock, RUnlock, WriterInvOf
<1>12. ASSUME NEW w \in Writer, Scan(w) PROVE ReaderInvOf(x)'
  BY <1>12 DEF Scan, Announce, Unlock, RLock, RUnlock, WriterInvOf
<1>13. ASSUME NEW w \in Writer, EdgesLock(w) PROVE ReaderInvOf(x)'
  BY <1>13 DEF EdgesLock, Announce, Unlock, RLock, RUnlock, WriterInvOf
<1>14. ASSUME NEW w \in Writer, PutEdges(w) PROVE ReaderInvOf(x)'
  BY <1>14 DEF PutEdges, Announce, Unlock, RLock, RUnlock, WriterInvOf
<1>15. ASSUME NEW r \in Reader, CallSearch(r) PROVE ReaderInvOf(x)'
  BY <1>15 DEF CallSearch, RLock, RUnlock, Return
<1>16. ASSUME NEW r \in Reader, SearchLocks(r) PROVE ReaderInvOf(x)'
  BY <1>16 DEF SearchLocks, RLock, RUnlock, Return
<1>17. ASSUME NEW r \in Reader, Query(r) PROVE ReaderInvOf(x)'
  BY <1>17 DEF Query, RLock, RUnlock, Return
<1>18. ASSUME NEW r \in Reader, FallBack(r) PROVE ReaderInvOf(x)'
  BY <1>18 DEF FallBack, RLock, RUnlock, Return
<1>19. ASSUME NEW r \in Reader, SearchFails(r) PROVE ReaderInvOf(x)'
  BY <1>19 DEF SearchFails, RLock, RUnlock, Return
<1>20. ASSUME NEW r \in Reader, LoadNodes(r) PROVE ReaderInvOf(x)'
  BY <1>20 DEF LoadNodes, RLock, RUnlock, Return
<1>21. ASSUME NEW r \in Reader, LoadParams(r) PROVE ReaderInvOf(x)'
  BY <1>21 DEF LoadParams, RLock, RUnlock, Return
<1>22. ASSUME NEW r \in Reader, LoadSkills(r) PROVE ReaderInvOf(x)'
  BY <1>22 DEF LoadSkills, RLock, RUnlock, Return
<1>23. ASSUME NEW r \in Reader, SearchReturns(r) PROVE ReaderInvOf(x)'
  BY <1>23 DEF SearchReturns, RLock, RUnlock, Return
<1>24. CASE UNCHANGED vars
  BY <1>24 DEF vars, rows, lock, search
<1>25. QED
  BY <1>1, <1>2, <1>3, <1>4, <1>5, <1>6, <1>7, <1>8, <1>9, <1>10, <1>11,
     <1>12, <1>13, <1>14, <1>15, <1>16, <1>17, <1>18, <1>19, <1>20, <1>21,
     <1>22, <1>23, <1>24
  DEF Next, WriterStep, ReaderStep

(* Where calls are not to overlap they do not. *)
LEMMA OverlapStep ==
  ASSUME CInv, [Next]_vars
  PROVE  OverlapInv'
<1>a. pc \in [Goroutine -> WriterPc \cup ReaderPc]
  BY DEF CInv, PcInv
<1> USE <1>a, Apart DEF CInv, OverlapInv, Goto, rows, MayWrite, MaySearch, Inside, Upserting
<1>1. ASSUME NEW w \in Writer, CallUpsert(w) PROVE OverlapInv'
  BY <1>1 DEF CallUpsert
<1>2. ASSUME NEW w \in Writer, CallBuildEdges(w) PROVE OverlapInv'
  BY <1>2 DEF CallBuildEdges
<1>3. ASSUME NEW w \in Writer, UpsertLocks(w) PROVE OverlapInv'
  BY <1>3 DEF UpsertLocks
<1>4. ASSUME NEW w \in Writer, PutNode(w) PROVE OverlapInv'
  BY <1>4 DEF PutNode
<1>5. ASSUME NEW w \in Writer, ClearParams(w) PROVE OverlapInv'
  BY <1>5 DEF ClearParams
<1>6. ASSUME NEW w \in Writer, PutParam(w) PROVE OverlapInv'
  BY <1>6 DEF PutParam
<1>7. ASSUME NEW w \in Writer, ClearSkills(w) PROVE OverlapInv'
  BY <1>7 DEF ClearSkills
<1>8. ASSUME NEW w \in Writer, PutSkill(w) PROVE OverlapInv'
  BY <1>8 DEF PutSkill
<1>9. ASSUME NEW w \in Writer, UpsertReturns(w) PROVE OverlapInv'
  BY <1>9 DEF UpsertReturns
<1>10. ASSUME NEW w \in Writer, UpsertFails(w) PROVE OverlapInv'
  BY <1>10 DEF UpsertFails
<1>11. ASSUME NEW w \in Writer, ScanLocks(w) PROVE OverlapInv'
  BY <1>11 DEF ScanLocks
<1>12. ASSUME NEW w \in Writer, Scan(w) PROVE OverlapInv'
  BY <1>12 DEF Scan
<1>13. ASSUME NEW w \in Writer, EdgesLock(w) PROVE OverlapInv'
  BY <1>13 DEF EdgesLock
<1>14. ASSUME NEW w \in Writer, PutEdges(w) PROVE OverlapInv'
  BY <1>14 DEF PutEdges
<1>15. ASSUME NEW r \in Reader, CallSearch(r) PROVE OverlapInv'
  BY <1>15 DEF CallSearch, Return
<1>16. ASSUME NEW r \in Reader, SearchLocks(r) PROVE OverlapInv'
  BY <1>16 DEF SearchLocks, Return
<1>17. ASSUME NEW r \in Reader, Query(r) PROVE OverlapInv'
  BY <1>17 DEF Query, Return
<1>18. ASSUME NEW r \in Reader, FallBack(r) PROVE OverlapInv'
  BY <1>18 DEF FallBack, Return
<1>19. ASSUME NEW r \in Reader, SearchFails(r) PROVE OverlapInv'
  BY <1>19 DEF SearchFails, Return
<1>20. ASSUME NEW r \in Reader, LoadNodes(r) PROVE OverlapInv'
  BY <1>20 DEF LoadNodes, Return
<1>21. ASSUME NEW r \in Reader, LoadParams(r) PROVE OverlapInv'
  BY <1>21 DEF LoadParams, Return
<1>22. ASSUME NEW r \in Reader, LoadSkills(r) PROVE OverlapInv'
  BY <1>22 DEF LoadSkills, Return
<1>23. ASSUME NEW r \in Reader, SearchReturns(r) PROVE OverlapInv'
  BY <1>23 DEF SearchReturns, Return
<1>24. CASE UNCHANGED vars
  BY <1>24 DEF vars, rows, lock, search
<1>25. QED
  BY <1>1, <1>2, <1>3, <1>4, <1>5, <1>6, <1>7, <1>8, <1>9, <1>10, <1>11,
     <1>12, <1>13, <1>14, <1>15, <1>16, <1>17, <1>18, <1>19, <1>20, <1>21,
     <1>22, <1>23, <1>24
  DEF Next, WriterStep, ReaderStep

(* What the steps of an Upsert can rely on. *)
LEMMA UpsertFacts ==
  ASSUME CInv
  PROVE  /\ nodes \in [Chunk -> Version \cup {0}] /\ params \in [Chunk -> ParamRows]
         /\ skills \in [Chunk -> SUBSET AllSkills]
         /\ pc \in [Goroutine -> WriterPc \cup ReaderPc]
         /\ job \in [Writer -> Jobs \cup {NoJob}]
         /\ \A w \in Writer : /\ pc[w] \in Upserting => job[w].c \in Chunk /\ job[w].v \in Version
                              /\ pc[w] \notin Upserting => job[w].c \notin Chunk
         /\ \A w, y \in Writer : pc[w] \in Inside /\ y # w => pc[y] \notin Inside
<1>1. \A w \in Writer : pc[w] \notin Upserting => job[w].c \notin Chunk
  BY Constant DEF CInv, WriterInv, WriterInvOf
<1>2. \A w \in Writer : pc[w] \in Upserting => job[w].c \in Chunk /\ job[w].v \in Version
  BY JobFacts
<1>3. \A w, y \in Writer : pc[w] \in Inside /\ y # w => pc[y] \notin Inside
  BY Alone
<1>4. QED
  BY <1>1, <1>2, <1>3 DEF CInv, TypeOK, PcInv, Jobs

(* An Upsert writes one relation after the other. *)
LEMMA StageStep ==
  ASSUME CInv, [Next]_vars
  PROVE  StageInv'
<1> SUFFICES ASSUME NEW x \in Writer PROVE StageInvOf(x)'
  BY DEF StageInv
<1>0. StageInvOf(x)
  BY DEF CInv, StageInv
<1> USE <1>0, UpsertFacts, Apart, Constant DEF StageInvOf, Goto, rows, search, Inside, Upserting
<1>1. ASSUME NEW w \in Writer, CallUpsert(w) PROVE StageInvOf(x)'
  BY <1>1 DEF CallUpsert
<1>2. ASSUME NEW w \in Writer, CallBuildEdges(w) PROVE StageInvOf(x)'
  BY <1>2 DEF CallBuildEdges
<1>3. ASSUME NEW w \in Writer, UpsertLocks(w) PROVE StageInvOf(x)'
  BY <1>3 DEF UpsertLocks
<1>4. ASSUME NEW w \in Writer, PutNode(w) PROVE StageInvOf(x)'
  BY <1>4 DEF PutNode
<1>5. ASSUME NEW w \in Writer, ClearParams(w) PROVE StageInvOf(x)'
  <2>1. CASE x # w
    BY <1>5, <2>1 DEF ClearParams
  <2>2. CASE x = w
    <3>1. /\ pc[w] = "rmParams" /\ UNCHANGED <<nodes, skills, job>>
          /\ params' = [params EXCEPT ![job[w].c] = <<>>]
          /\ pc' = [pc EXCEPT ![w] = "params"]
      BY <1>5 DEF ClearParams
    <3>2. job[w].c \in Chunk /\ ParamsOf[job[w].v] \in Nat /\ nodes[job[w].c] = job[w].v
      BY <2>2, <3>1
    <3>3. params'[job[w].c] = <<>> /\ pc'[w] = "params"
      BY <3>1, <3>2
    <3>4. <<>> \in Seq({job[w].v}) /\ Len(<<>>) <= ParamsOf[job[w].v]
      BY <3>2
    <3>5. QED
      BY <2>2, <3>1, <3>2, <3>3, <3>4
  <2>3. QED
    BY <2>1, <2>2
<1>6. ASSUME NEW w \in Writer, PutParam(w) PROVE StageInvOf(x)'
  <2> DEFINE c == job[w].c
             v == job[w].v
  <2>1. /\ pc[w] = "params" /\ UNCHANGED <<nodes, skills, job>>
        /\ c \in Chunk /\ v \in Version /\ ParamsOf[v] \in Nat
    BY <1>6 DEF PutParam
  <2>2. CASE x # w
    BY <1>6, <2>1, <2>2 DEF PutParam
  <2>3. CASE x = w /\ Len(params[c]) < ParamsOf[v]
    <3>1. params[c] \in Seq({v}) /\ nodes[c] = v
      BY <2>1, <2>3
    <3>2. Append(params[c], v) \in Seq({v}) /\ Len(Append(params[c], v)) = Len(params[c]) + 1
      BY <3>1
    <3>3. Len(params[c]) + 1 <= ParamsOf[v]
      BY <2>1, <2>3, <3>1
    <3>4. params' = [params EXCEPT ![c] = Append(params[c], v)] /\ pc' = pc
      BY <1>6, <2>3 DEF PutParam
    <3>5. params'[c] = Append(params[c], v)
      BY <2>1, <3>4
    <3>6. QED
      BY <2>1, <2>3, <3>1, <3>2, <3>3, <3>4, <3>5
  <2>4. CASE x = w /\ ~(Len(params[c]) < ParamsOf[v])
    <3>1. params[c] \in Seq({v}) /\ nodes[c] = v /\ Len(params[c]) <= ParamsOf[v]
      BY <2>1, <2>4
    <3>2. params[c] = [i \in 1 .. ParamsOf[v] |-> v]
      BY <2>1, <2>4, <3>1
    <3>3. params' = params /\ pc' = [pc EXCEPT ![w] = "rmSkills"]
      BY <1>6, <2>4 DEF PutParam
    <3>4. QED
      BY <2>1, <2>4, <3>1, <3>2, <3>3
  <2>5. QED
    BY <2>2, <2>3, <2>4
<1>7. ASSUME NEW w \in Writer, ClearSkills(w) PROVE StageInvOf(x)'
  BY <1>7 DEF ClearSkills
<1>8. ASSUME NEW w \in Writer, PutSkill(w) PROVE StageInvOf(x)'
  BY <1>8 DEF PutSkill
<1>9. ASSUME NEW w \in Writer, UpsertReturns(w) PROVE StageInvOf(x)'
  BY <1>9 DEF UpsertReturns
<1>10. ASSUME NEW w \in Writer, UpsertFails(w) PROVE StageInvOf(x)'
  BY <1>10 DEF UpsertFails
<1>11. ASSUME NEW w \in Writer, ScanLocks(w) PROVE StageInvOf(x)'
  BY <1>11 DEF ScanLocks
<1>12. ASSUME NEW w \in Writer, Scan(w) PROVE StageInvOf(x)'
  BY <1>12 DEF Scan
<1>13. ASSUME NEW w \in Writer, EdgesLock(w) PROVE StageInvOf(x)'
  BY <1>13 DEF EdgesLock
<1>14. ASSUME NEW w \in Writer, PutEdges(w) PROVE StageInvOf(x)'
  BY <1>14 DEF PutEdges
<1>15. ASSUME NEW r \in Reader, CallSearch(r) PROVE StageInvOf(x)'
  BY <1>15 DEF CallSearch, Return
<1>16. ASSUME NEW r \in Reader, SearchLocks(r) PROVE StageInvOf(x)'
  BY <1>16 DEF SearchLocks, Return
<1>17. ASSUME NEW r \in Reader, Query(r) PROVE StageInvOf(x)'
  BY <1>17 DEF Query, Return
<1>18. ASSUME NEW r \in Reader, FallBack(r) PROVE StageInvOf(x)'
  BY <1>18 DEF FallBack, Return
<1>19. ASSUME NEW r \in Reader, SearchFails(r) PROVE StageInvOf(x)'
  BY <1>19 DEF SearchFails, Return
<1>20. ASSUME NEW r \in Reader, LoadNodes(r) PROVE StageInvOf(x)'
  BY <1>20 DEF LoadNodes, Return
<1>21. ASSUME NEW r \in Reader, LoadParams(r) PROVE StageInvOf(x)'
  BY <1>21 DEF LoadParams, Return
<1>22. ASSUME NEW r \in Reader, LoadSkills(r) PROVE StageInvOf(x)'
  BY <1>22 DEF LoadSkills, Return
<1>23. ASSUME NEW r \in Reader, SearchReturns(r) PROVE StageInvOf(x)'
  BY <1>23 DEF SearchReturns, Return
<1>24. CASE UNCHANGED vars
  BY <1>24 DEF vars, rows, lock, search
<1>25. QED
  BY <1>1, <1>2, <1>3, <1>4, <1>5, <1>6, <1>7, <1>8, <1>9, <1>10, <1>11,
     <1>12, <1>13, <1>14, <1>15, <1>16, <1>17, <1>18, <1>19, <1>20, <1>21,
     <1>22, <1>23, <1>24
  DEF Next, WriterStep, ReaderStep

(* An Upsert that returns leaves its chunk whole, and all others as they were. *)
LEMMA WholeStep ==
  ASSUME CInv, [Next]_vars
  PROVE  WholeInv'
<1> SUFFICES ASSUME NEW c \in Chunk PROVE WholeInvOf(c)'
  BY DEF WholeInv
<1>0. WholeInvOf(c)
  BY DEF CInv, WholeInv
<1>a. nodes'[c] = nodes[c] /\ params'[c] = params[c] /\ skills'[c] = skills[c] =>
        Row(c)' = Row(c) /\ RowOf(nodes[c])' = RowOf(nodes[c])
  BY DEF Row, RowOf
<1> USE <1>0, <1>a, UpsertFacts, Apart, Constant DEF WholeInvOf, Goto, rows, search, Inside, Upserting
<1>1. ASSUME NEW w \in Writer, CallUpsert(w) PROVE WholeInvOf(c)'
  BY <1>1 DEF CallUpsert
<1>2. ASSUME NEW w \in Writer, CallBuildEdges(w) PROVE WholeInvOf(c)'
  BY <1>2 DEF CallBuildEdges
<1>3. ASSUME NEW w \in Writer, UpsertLocks(w) PROVE WholeInvOf(c)'
  BY <1>3 DEF UpsertLocks
<1>4. ASSUME NEW w \in Writer, PutNode(w) PROVE WholeInvOf(c)'
  BY <1>4 DEF PutNode
<1>5. ASSUME NEW w \in Writer, ClearParams(w) PROVE WholeInvOf(c)'
  BY <1>5 DEF ClearParams
<1>6. ASSUME NEW w \in Writer, PutParam(w) PROVE WholeInvOf(c)'
  BY <1>6 DEF PutParam
<1>7. ASSUME NEW w \in Writer, ClearSkills(w) PROVE WholeInvOf(c)'
  BY <1>7 DEF ClearSkills
<1>8. ASSUME NEW w \in Writer, PutSkill(w) PROVE WholeInvOf(c)'
  BY <1>8 DEF PutSkill
<1>9. ASSUME NEW w \in Writer, UpsertReturns(w) PROVE WholeInvOf(c)'
  <2>1. CASE c # job[w].c
    BY <1>9, <2>1 DEF UpsertReturns
  <2>2. CASE c = job[w].c
    <3> DEFINE v == job[w].v
    <3>1. pc[w] = "skills" /\ UNCHANGED <<nodes, params, skills>> /\ SkillsOf[v] \subseteq skills[c]
      BY <1>9, <2>2 DEF UpsertReturns
    <3>2. StageInvOf(w) /\ v \in Version /\ v # 0
      BY <3>1 DEF CInv, StageInv
    <3>3. /\ nodes[c] = v /\ params[c] = [i \in 1 .. ParamsOf[v] |-> v]
          /\ skills[c] = SkillsOf[v]
      BY <2>2, <3>1, <3>2 DEF StageInvOf
    <3>4. Row(c) = RowOf(nodes[c])
      BY <3>2, <3>3 DEF Row, RowOf
    <3>5. QED
      BY <1>a, <3>1, <3>4
  <2>3. QED
    BY <2>1, <2>2
<1>10. ASSUME NEW w \in Writer, UpsertFails(w) PROVE WholeInvOf(c)'
  BY <1>10 DEF UpsertFails
<1>11. ASSUME NEW w \in Writer, ScanLocks(w) PROVE WholeInvOf(c)'
  BY <1>11 DEF ScanLocks
<1>12. ASSUME NEW w \in Writer, Scan(w) PROVE WholeInvOf(c)'
  BY <1>12 DEF Scan
<1>13. ASSUME NEW w \in Writer, EdgesLock(w) PROVE WholeInvOf(c)'
  BY <1>13 DEF EdgesLock
<1>14. ASSUME NEW w \in Writer, PutEdges(w) PROVE WholeInvOf(c)'
  BY <1>14 DEF PutEdges
<1>15. ASSUME NEW r \in Reader, CallSearch(r) PROVE WholeInvOf(c)'
  BY <1>15 DEF CallSearch, Return
<1>16. ASSUME NEW r \in Reader, SearchLocks(r) PROVE WholeInvOf(c)'
  BY <1>16 DEF SearchLocks, Return
<1>17. ASSUME NEW r \in Reader, Query(r) PROVE WholeInvOf(c)'
  BY <1>17 DEF Query, Return
<1>18. ASSUME NEW r \in Reader, FallBack(r) PROVE WholeInvOf(c)'
  BY <1>18 DEF FallBack, Return
<1>19. ASSUME NEW r \in Reader, SearchFails(r) PROVE WholeInvOf(c)'
  BY <1>19 DEF SearchFails, Return
<1>20. ASSUME NEW r \in Reader, LoadNodes(r) PROVE WholeInvOf(c)'
  BY <1>20 DEF LoadNodes, Return
<1>21. ASSUME NEW r \in Reader, LoadParams(r) PROVE WholeInvOf(c)'
  BY <1>21 DEF LoadParams, Return
<1>22. ASSUME NEW r \in Reader, LoadSkills(r) PROVE WholeInvOf(c)'
  BY <1>22 DEF LoadSkills, Return
<1>23. ASSUME NEW r \in Reader, SearchReturns(r) PROVE WholeInvOf(c)'
  BY <1>23 DEF SearchReturns, Return
<1>24. CASE UNCHANGED vars
  BY <1>24 DEF vars, rows, lock, search
<1>25. QED
  BY <1>1, <1>2, <1>3, <1>4, <1>5, <1>6, <1>7, <1>8, <1>9, <1>10, <1>11,
     <1>12, <1>13, <1>14, <1>15, <1>16, <1>17, <1>18, <1>19, <1>20, <1>21,
     <1>22, <1>23, <1>24
  DEF Next, WriterStep, ReaderStep

(* What a search has read does not change while it reads on. *)
LEMMA ReadStep ==
  ASSUME CInv, [Next]_vars
  PROVE  ReadInv'
<1> SUFFICES ASSUME NEW x \in Reader PROVE ReadInvOf(x)'
  BY DEF ReadInv
<1>0. ReadInvOf(x) /\ ReaderInvOf(x)
  BY DEF CInv, ReadInv, ReaderInv
<1>a. /\ pc \in [Goroutine -> WriterPc \cup ReaderPc] /\ hits \in [Reader -> SUBSET Chunk]
      /\ fallback \in [Reader -> {"no", "vector", "keyword"}]
      /\ res \in [Reader -> [Chunk -> Partial]]
  BY DEF CInv, PcInv, TypeOK
<1>b. \A w \in Writer : pc[w] \in Inside => pc[x] \notin Reading /\ fallback[x] = "no"
  BY Alone
<1>c. nodes' = nodes /\ params' = params /\ skills' = skills =>
        \A c \in Chunk : Row(c)' = Row(c)
  BY DEF Row
<1> USE <1>0, <1>a, <1>b, <1>c, Apart DEF ReadInvOf, Goto, rows, search, Inside, Reading, Loading
<1>1. ASSUME NEW w \in Writer, CallUpsert(w) PROVE ReadInvOf(x)'
  BY <1>1 DEF CallUpsert
<1>2. ASSUME NEW w \in Writer, CallBuildEdges(w) PROVE ReadInvOf(x)'
  BY <1>2 DEF CallBuildEdges
<1>3. ASSUME NEW w \in Writer, UpsertLocks(w) PROVE ReadInvOf(x)'
  BY <1>3 DEF UpsertLocks
<1>4. ASSUME NEW w \in Writer, PutNode(w) PROVE ReadInvOf(x)'
  BY <1>4 DEF PutNode
<1>5. ASSUME NEW w \in Writer, ClearParams(w) PROVE ReadInvOf(x)'
  BY <1>5 DEF ClearParams
<1>6. ASSUME NEW w \in Writer, PutParam(w) PROVE ReadInvOf(x)'
  BY <1>6 DEF PutParam
<1>7. ASSUME NEW w \in Writer, ClearSkills(w) PROVE ReadInvOf(x)'
  BY <1>7 DEF ClearSkills
<1>8. ASSUME NEW w \in Writer, PutSkill(w) PROVE ReadInvOf(x)'
  BY <1>8 DEF PutSkill
<1>9. ASSUME NEW w \in Writer, UpsertReturns(w) PROVE ReadInvOf(x)'
  BY <1>9 DEF UpsertReturns
<1>10. ASSUME NEW w \in Writer, UpsertFails(w) PROVE ReadInvOf(x)'
  BY <1>10 DEF UpsertFails
<1>11. ASSUME NEW w \in Writer, ScanLocks(w) PROVE ReadInvOf(x)'
  BY <1>11 DEF ScanLocks
<1>12. ASSUME NEW w \in Writer, Scan(w) PROVE ReadInvOf(x)'
  BY <1>12 DEF Scan
<1>13. ASSUME NEW w \in Writer, EdgesLock(w) PROVE ReadInvOf(x)'
  BY <1>13 DEF EdgesLock
<1>14. ASSUME NEW w \in Writer, PutEdges(w) PROVE ReadInvOf(x)'
  BY <1>14 DEF PutEdges
<1>15. ASSUME NEW r \in Reader, CallSearch(r) PROVE ReadInvOf(x)'
  BY <1>15 DEF CallSearch, Return
<1>16. ASSUME NEW r \in Reader, SearchLocks(r) PROVE ReadInvOf(x)'
  BY <1>16 DEF SearchLocks, Return
<1>17. ASSUME NEW r \in Reader, Query(r) PROVE ReadInvOf(x)'
  BY <1>17 DEF Query, Return
<1>18. ASSUME NEW r \in Reader, FallBack(r) PROVE ReadInvOf(x)'
  BY <1>18 DEF FallBack, Return
<1>19. ASSUME NEW r \in Reader, SearchFails(r) PROVE ReadInvOf(x)'
  BY <1>19 DEF SearchFails, Return
<1>20. ASSUME NEW r \in Reader, LoadNodes(r) PROVE ReadInvOf(x)'
  BY <1>20 DEF LoadNodes, Return
<1>21. ASSUME NEW r \in Reader, LoadParams(r) PROVE ReadInvOf(x)'
  BY <1>21 DEF LoadParams, Return
<1>22. ASSUME NEW r \in Reader, LoadSkills(r) PROVE ReadInvOf(x)'
  BY <1>22 DEF LoadSkills, Return
<1>23. ASSUME NEW r \in Reader, SearchReturns(r) PROVE ReadInvOf(x)'
  <2>0. pc[r] = "runlock" /\ UNCHANGED <<nodes, params, skills>>
    BY <1>23 DEF SearchReturns
  <2>1. CASE x # r
    BY <1>23, <2>1 DEF SearchReturns, Return
  <2>2. CASE x = r /\ fallback[r] # "vector"
    BY <1>23, <2>2 DEF SearchReturns, Return
  <2>3. CASE x = r /\ fallback[r] = "vector"
    <3>1. /\ pc'[x] = "rlock" /\ fallback'[x] = "keyword" /\ res' = res /\ hits'[x] = {}
      BY <1>23, <2>3 DEF SearchReturns
    <3>2. ASSUME NEW c \in Chunk PROVE res[x][c] = NoRow \/ res[x][c] = Row(c)
      <4>1. CASE c \in hits[x]
        <5>1. /\ res[x][c] \in Partial /\ res[x][c].node = nodes[c]
              /\ res[x][c].params = params[c] /\ res[x][c].skills = skills[c]
          BY <2>0, <2>3, <4>1
        <5>2. QED
          BY <5>1 DEF Row, Partial
      <4>2. CASE c \notin hits[x]
        BY <2>3, <4>2
      <4>3. QED
        BY <4>1, <4>2
    <3>3. QED
      BY <1>c, <2>0, <3>1, <3>2
  <2>4. QED
    BY <2>1, <2>2, <2>3
<1>24. CASE UNCHANGED vars
  BY <1>24 DEF vars, rows, lock, search
<1>25. QED
  BY <1>1, <1>2, <1>3, <1>4, <1>5, <1>6, <1>7, <1>8, <1>9, <1>10, <1>11,
     <1>12, <1>13, <1>14, <1>15, <1>16, <1>17, <1>18, <1>19, <1>20, <1>21,
     <1>22, <1>23, <1>24
  DEF Next, WriterStep, ReaderStep

LEMMA CInvInit == Init => CInv
<1> SUFFICES ASSUME Init PROVE CInv
  OBVIOUS
<1>1. TypeOK
  <2>1. res \in [Reader -> [Chunk -> Partial]]
    BY Constant DEF Init
  <2>2. pc \in [Goroutine -> {"idle"}]
    BY DEF Init
  <2>3. QED
    BY <2>1, <2>2, Apart, Constant DEF Init, TypeOK, WriterPc, ReaderPc
<1>2. PcInv
  BY Apart DEF Init, PcInv, WriterPc, ReaderPc
<1>3. WriterInv /\ ReaderInv /\ OverlapInv /\ StageInv
  BY Apart
  DEF Init, WriterInv, WriterInvOf, ReaderInv, ReaderInvOf, OverlapInv, StageInv, StageInvOf,
      Inside, Awaiting, Upserting, Reading
<1>4. WholeInv
  BY DEF Init, WholeInv, WholeInvOf, Row, RowOf, NoRow
<1>5. ReadInv
  BY DEF Init, ReadInv, ReadInvOf
<1>6. QED
  BY <1>1, <1>2, <1>3, <1>4, <1>5 DEF CInv

LEMMA CInvStep == CInv /\ [Next]_vars => CInv'
  BY TypeStep, PcStep, WriterStepInv, ReaderStepInv, OverlapStep, StageStep, WholeStep, ReadStep
  DEF CInv

(* The inductive invariant of the store holds in every reachable state.       *)
THEOREM StoreInvariance == Spec => []CInv
  BY CInvInit, CInvStep, PTL DEF Spec

(* Rows, locks and goroutines are always of their types.                     *)
THEOREM StoreTypeCorrect == Spec => []TypeOK
  BY StoreInvariance, PTL DEF CInv

(* A chunk nobody is writing, whose last Upsert did not fail, has the rows of   *)
(* one version, though they lie in three relations.                          *)
THEOREM RowsAreWholeAlways == Spec => []RowsAreWhole
<1>1. CInv => RowsAreWhole
  BY DEF CInv, WholeInv, WholeInvOf, RowsAreWhole
<1>2. QED
  BY <1>1, StoreInvariance, PTL

(* A search returns one state of the store, through both halves of a fallback  *)
(* as well.                                                                  *)
THEOREM ResultIsSnapshotAlways == Spec => []ResultIsSnapshot
<1>1. CInv => ResultIsSnapshot
  <2> SUFFICES ASSUME CInv, NEW r \in Reader, pc[r] = "runlock", NEW c \in Chunk,
                      res[r][c] # NoRow
               PROVE  res[r][c] = Row(c) /\ (c \notin broken => res[r][c] = RowOf(nodes[c]))
    BY DEF ResultIsSnapshot, Loaded
  <2>1. ReadInvOf(r) /\ res[r][c] \in Partial
    BY DEF CInv, ReadInv, TypeOK
  <2>2. res[r][c] = Row(c)
    <3>1. CASE c \in hits[r]
      <4>1. /\ res[r][c].node = nodes[c]
            /\ res[r][c].params = params[c] /\ res[r][c].skills = skills[c]
        BY <2>1, <3>1 DEF ReadInvOf, Loading
      <4>2. QED
        BY <2>1, <4>1 DEF Row, Partial
    <3>2. CASE c \notin hits[r]
      BY <2>1, <3>2 DEF ReadInvOf
    <3>3. QED
      BY <3>1, <3>2
  <2>3. \A w \in Writer : pc[w] \notin Inside
    BY Alone DEF Reading
  <2>4. \A w \in Writer : job[w].c = c => pc[w] \in {"lock", "wait", "node"}
    BY <2>3, UpsertFacts DEF Inside, Upserting
  <2>5. c \notin broken => Row(c) = RowOf(nodes[c])
    BY <2>4 DEF CInv, WholeInv, WholeInvOf
  <2>6. QED
    BY <2>2, <2>5
<1>2. QED
  BY <1>1, StoreInvariance, PTL

(* If all callers wait, they overlap, and one has fallen back while another      *)
(* awaits the write lock.                                                    *)
THEOREM OnlyFallBackBlocksAlways == Spec => []OnlyFallBackBlocks
<1>1. CInv => OnlyFallBackBlocks
  <2> SUFFICES ASSUME CInv, Busy # {}, \A g \in Busy : Waiting(g)
               PROVE  /\ overlap
                      /\ \E r \in Reader : pc[r] = "rlock" /\ held[r] = 1 /\ fallback[r] # "no"
    BY DEF OnlyFallBackBlocks
  <2>0. /\ \A w \in Writer : WriterInvOf(w) /\ pc[w] \in WriterPc
        /\ \A r \in Reader : ReaderInvOf(r) /\ pc[r] \in ReaderPc
        /\ writer \in Writer \cup {Nobody} /\ Goroutine = Writer \cup Reader
    BY DEF CInv, WriterInv, ReaderInv, PcInv, TypeOK, Goroutine
  <2>1. writer \in Writer
    <3> SUFFICES ASSUME writer = Nobody PROVE FALSE
      BY <2>0
    <3>1. PICK g \in Goroutine : pc[g] \in {"wait", "ewait"}
      BY DEF Busy, Waiting
    <3>2. g \in Writer
      BY <2>0, <3>1 DEF ReaderPc
    <3>3. writer = g
      BY <2>0, <3>1, <3>2 DEF WriterInvOf, Awaiting
    <3>4. QED
      BY <3>2, <3>3, Apart
  <2>2. pc[writer] \in Inside \cup Awaiting
    BY <2>0, <2>1 DEF WriterInvOf
  <2>3. writer \in Busy
    BY <2>1, <2>2, Apart DEF Busy, Inside, Awaiting
  <2>4. PICK g \in Goroutine : held[g] # 0
    BY <2>2, <2>3 DEF Waiting, Acquired, Inside, Awaiting
  <2>5. g \in Reader
    <3> SUFFICES ASSUME g \in Writer PROVE FALSE
      BY <2>0
    <3>1. pc[g] = "scan"
      BY <2>0, <2>4 DEF WriterInvOf
    <3>2. g \in Busy /\ ~Waiting(g)
      BY <3>1 DEF Busy, Waiting
    <3>3. QED
      BY <3>2
  <2>6. ReaderInvOf(g) /\ pc[g] \in ReaderPc
    BY <2>0, <2>5
  <2>7. pc[g] # "idle"
    BY <2>4, <2>6 DEF ReaderInvOf, Reading
  <2>8. pc[g] = "rlock"
    BY <2>6, <2>7 DEF Busy, Waiting, ReaderPc
  <2>9. held[g] = 1 /\ fallback[g] # "no"
    BY <2>4, <2>6, <2>8 DEF ReaderInvOf, Reading
  <2>10. overlap
    BY <2>1, <2>3, <2>5, <2>7 DEF CInv, OverlapInv, Busy
  <2>11. QED
    BY <2>5, <2>8, <2>9, <2>10
<1>2. QED
  BY <1>1, StoreInvariance, PTL
=============================================================================
