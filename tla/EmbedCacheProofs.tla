-------------------------- MODULE EmbedCacheProofs --------------------------
(***************************************************************************)
(* Proofs about the embedding cache: for any number of processes, goroutines, *)
(* texts and models, on a faulty disk or a sound one, no torn file is ever    *)
(* served, and what is settled for a text is what every later call returns.   *)
(***************************************************************************)
EXTENDS EmbedCache, TLAPS

(* A goroutine past the call has a text, and past the computation a vector.   *)
VecInv ==
  \A p \in Process, w \in Worker :
    /\ pc[p][w] # "idle" => text[p][w] \in Text
    /\ pc[p][w] \in {"lock", "truncate", "write"} => vec[p][w] \in Vector

CInv == TypeOK /\ VecInv /\ NeverServesTorn

(* What a step of one goroutine does to a function of processes and workers. *)
LEMMA Update ==
  ASSUME NEW S, NEW f \in [Process -> [Worker -> S]],
         NEW p \in Process, NEW w \in Worker, NEW v \in S
  PROVE  /\ [f EXCEPT ![p][w] = v] \in [Process -> [Worker -> S]]
         /\ [f EXCEPT ![p][w] = v][p][w] = v
         /\ \A q \in Process, x \in Worker :
              q # p \/ x # w => [f EXCEPT ![p][w] = v][q][x] = f[q][x]
  OBVIOUS

PC == {"idle", "load", "compute", "lock", "truncate", "write"}

(* A goroutine that moves on keeps its text and moves only itself. *)
LEMMA GotoFacts ==
  ASSUME TypeOK, NEW p \in Process, NEW w \in Worker, NEW l \in PC, Goto(p, w, l)
  PROVE  /\ pc' \in [Process -> [Worker -> PC]]
         /\ pc'[p][w] = l
         /\ \A q \in Process, x \in Worker : q # p \/ x # w => pc'[q][x] = pc[q][x]
<1>1. pc \in [Process -> [Worker -> PC]]
  BY DEF TypeOK, PC
<1>2. QED
  BY <1>1, Update DEF Goto

(* Embed returns a whole vector, or what it is given is not one. *)
LEMMA ReturnFacts ==
  ASSUME CInv, NEW p \in Process, NEW w \in Worker, NEW v \in Vector,
         pc[p][w] # "idle", Return(p, w, v)
  PROVE  /\ got' \in [Text -> SUBSET (Vector \cup {"torn"})]
         /\ NeverServesTorn'
         /\ text' \in [Process -> [Worker -> Text \cup {None}]]
         /\ vec' \in [Process -> [Worker -> Vector \cup {None}]]
         /\ pc' \in [Process -> [Worker -> PC]]
         /\ VecInv'
<1>1. text[p][w] \in Text
  BY DEF CInv, VecInv
<1>2. v # "torn"
  BY CacheAssumption DEF Vector
<1>3. got' = [got EXCEPT ![text[p][w]] = got[text[p][w]] \cup {v}]
  BY DEF Return
<1>4. got' \in [Text -> SUBSET (Vector \cup {"torn"})]
  BY <1>1, <1>3 DEF CInv, TypeOK
<1>5. NeverServesTorn'
  BY <1>1, <1>2, <1>3 DEF CInv, TypeOK, NeverServesTorn
<1>6. /\ text' \in [Process -> [Worker -> Text \cup {None}]]
      /\ \A q \in Process, x \in Worker : q # p \/ x # w => text'[q][x] = text[q][x]
  BY Update DEF CInv, TypeOK, Return
<1>7. /\ vec' \in [Process -> [Worker -> Vector \cup {None}]]
      /\ \A q \in Process, x \in Worker : q # p \/ x # w => vec'[q][x] = vec[q][x]
  BY Update DEF CInv, TypeOK, Return
<1>8. /\ pc' \in [Process -> [Worker -> PC]]
      /\ pc'[p][w] = "idle"
      /\ \A q \in Process, x \in Worker : q # p \/ x # w => pc'[q][x] = pc[q][x]
  <2>1. Goto(p, w, "idle") /\ "idle" \in PC
    BY DEF Return, PC
  <2>2. QED
    BY <2>1, GotoFacts DEF CInv
<1>9. VecInv'
  <2> SUFFICES ASSUME NEW q \in Process, NEW x \in Worker
               PROVE  /\ pc'[q][x] # "idle" => text'[q][x] \in Text
                      /\ pc'[q][x] \in {"lock", "truncate", "write"} => vec'[q][x] \in Vector
    BY DEF VecInv
  <2>1. CASE q = p /\ x = w
    BY <2>1, <1>8
  <2>2. CASE q # p \/ x # w
    BY <2>2, <1>6, <1>7, <1>8 DEF CInv, VecInv
  <2>3. QED
    BY <2>1, <2>2
<1>10. QED
  BY <1>4, <1>5, <1>6, <1>7, <1>8, <1>9

(* A goroutine that moves on without returning keeps what is known of it. *)
LEMMA MoveFacts ==
  ASSUME CInv, NEW p \in Process, NEW w \in Worker, NEW l \in PC, Goto(p, w, l),
         text' = text, vec' = vec, pc[p][w] # "idle",
         l \in {"lock", "truncate", "write"} => vec[p][w] \in Vector
  PROVE  pc' \in [Process -> [Worker -> PC]] /\ VecInv'
<1>1. /\ pc' \in [Process -> [Worker -> PC]]
      /\ pc'[p][w] = l
      /\ \A q \in Process, x \in Worker : q # p \/ x # w => pc'[q][x] = pc[q][x]
  BY GotoFacts DEF CInv
<1>2. VecInv'
  BY <1>1 DEF CInv, VecInv
<1>3. QED
  BY <1>1, <1>2

(* Every step keeps the invariant. *)
LEMMA CInvStep == CInv /\ [Next]_vars => CInv'
<1> SUFFICES ASSUME CInv, [Next]_vars PROVE CInv'
  OBVIOUS
<1> USE CacheAssumption
<1>1. ASSUME NEW p \in Process, Start(p) PROVE CInv'
  BY <1>1 DEF Start, CInv, TypeOK, VecInv, NeverServesTorn
<1>2. ASSUME NEW p \in Process, Stop(p) PROVE CInv'
  <2>1. TypeOK'
    BY <1>2 DEF Stop, CInv, TypeOK
  <2>2. VecInv'
    BY <1>2 DEF Stop, CInv, TypeOK, VecInv
  <2>3. NeverServesTorn'
    BY <1>2 DEF Stop, CInv, NeverServesTorn
  <2>4. QED
    BY <2>1, <2>2, <2>3 DEF CInv
<1>3. ASSUME NEW p \in Process, NEW w \in Worker, Call(p, w) PROVE CInv'
  <2>1. PICK t \in Text : text' = [text EXCEPT ![p][w] = t]
    BY <1>3 DEF Call
  <2>2. /\ text' \in [Process -> [Worker -> Text \cup {None}]]
        /\ text'[p][w] = t
        /\ \A q \in Process, x \in Worker : q # p \/ x # w => text'[q][x] = text[q][x]
    BY <2>1, Update DEF CInv, TypeOK
  <2>3. /\ pc' \in [Process -> [Worker -> PC]]
        /\ pc'[p][w] = "load"
        /\ \A q \in Process, x \in Worker : q # p \/ x # w => pc'[q][x] = pc[q][x]
    <3>1. Goto(p, w, "load") /\ "load" \in PC
      BY <1>3 DEF Call, PC
    <3>2. QED
      BY <3>1, GotoFacts DEF CInv
  <2>4. UNCHANGED <<file, model, mu, vec, got>>
    BY <1>3 DEF Call
  <2>5. VecInv'
    BY <2>2, <2>3, <2>4 DEF CInv, VecInv
  <2>6. QED
    BY <2>2, <2>3, <2>4, <2>5 DEF CInv, TypeOK, PC, NeverServesTorn
<1>4. ASSUME NEW p \in Process, NEW w \in Worker, Load(p, w) PROVE CInv'
  <2> DEFINE f == file[text[p][w]]
  <2>0. pc[p][w] = "load" /\ UNCHANGED <<file, model, mu>>
    BY <1>4 DEF Load, At
  <2>1. CASE f \in Vector
    <3>1. Return(p, w, f)
      BY <1>4, <2>1 DEF Load
    <3>2. QED
      BY <2>0, <2>1, <3>1, ReturnFacts DEF CInv, TypeOK, PC
  <2>2. CASE f \notin Vector
    <3>1. Goto(p, w, "compute") /\ UNCHANGED <<text, vec, got>> /\ "compute" \in PC
      BY <1>4, <2>2 DEF Load, PC
    <3>2. pc' \in [Process -> [Worker -> PC]] /\ VecInv'
      BY <2>0, <3>1, MoveFacts
    <3>3. QED
      BY <2>0, <3>1, <3>2 DEF CInv, TypeOK, PC, NeverServesTorn
  <2>3. QED
    BY <2>1, <2>2
<1>5. ASSUME NEW p \in Process, NEW w \in Worker, Compute(p, w) PROVE CInv'
  <2>1. PICK v \in {model[p], Zero} : vec' = [vec EXCEPT ![p][w] = v]
    BY <1>5 DEF Compute
  <2>2. v \in Vector
    BY <1>5, <2>1 DEF Compute, At, CInv, TypeOK, Vector
  <2>3. /\ vec' \in [Process -> [Worker -> Vector \cup {None}]]
        /\ vec'[p][w] = v
        /\ \A q \in Process, x \in Worker : q # p \/ x # w => vec'[q][x] = vec[q][x]
    BY <2>1, <2>2, Update DEF CInv, TypeOK
  <2>4. /\ pc' \in [Process -> [Worker -> PC]]
        /\ pc'[p][w] = "lock"
        /\ \A q \in Process, x \in Worker : q # p \/ x # w => pc'[q][x] = pc[q][x]
    <3>1. Goto(p, w, "lock") /\ "lock" \in PC
      BY <1>5 DEF Compute, PC
    <3>2. QED
      BY <3>1, GotoFacts DEF CInv
  <2>5. pc[p][w] = "compute" /\ UNCHANGED <<file, model, mu, text, got>>
    BY <1>5 DEF Compute, At
  <2>6. VecInv'
    BY <2>2, <2>3, <2>4, <2>5 DEF CInv, VecInv
  <2>7. QED
    BY <2>3, <2>4, <2>5, <2>6 DEF CInv, TypeOK, PC, NeverServesTorn
<1>6. ASSUME NEW p \in Process, NEW w \in Worker, Lock(p, w) PROVE CInv'
  <2>1. pc[p][w] = "lock" /\ Goto(p, w, "truncate") /\ "truncate" \in PC
        /\ UNCHANGED <<file, model, text, vec, got>>
    BY <1>6 DEF Lock, At, PC
  <2>2. pc' \in [Process -> [Worker -> PC]] /\ VecInv'
    BY <2>1, MoveFacts DEF CInv, VecInv
  <2>3. mu' \in [Process -> Worker \cup {"free"}]
    BY <1>6 DEF Lock, CInv, TypeOK
  <2>4. QED
    BY <2>1, <2>2, <2>3 DEF CInv, TypeOK, PC, NeverServesTorn
<1>7. ASSUME NEW p \in Process, NEW w \in Worker, Truncate(p, w) PROVE CInv'
  <2>1. pc[p][w] = "truncate" /\ Goto(p, w, "write") /\ "write" \in PC
        /\ UNCHANGED <<model, mu, text, vec, got>>
    BY <1>7 DEF Truncate, At, PC
  <2>2. pc' \in [Process -> [Worker -> PC]] /\ VecInv'
    BY <2>1, MoveFacts DEF CInv, VecInv
  <2>3. file' \in [Text -> Vector \cup {"absent", "torn"}]
    BY <1>7 DEF Truncate, CInv, TypeOK
  <2>4. QED
    BY <2>1, <2>2, <2>3 DEF CInv, TypeOK, PC, NeverServesTorn
<1>8. ASSUME NEW p \in Process, NEW w \in Worker, OpenFails(p, w) PROVE CInv'
  <2>1. pc[p][w] = "truncate" /\ Return(p, w, vec[p][w]) /\ UNCHANGED <<file, model>>
    BY <1>8 DEF OpenFails, At
  <2>2. vec[p][w] \in Vector
    BY <2>1 DEF CInv, VecInv
  <2>3. mu' \in [Process -> Worker \cup {"free"}]
    BY <1>8 DEF OpenFails, CInv, TypeOK
  <2>4. QED
    BY <2>1, <2>2, <2>3, ReturnFacts DEF CInv, TypeOK, PC
<1>9. ASSUME NEW p \in Process, NEW w \in Worker, Write(p, w) PROVE CInv'
  <2>1. pc[p][w] = "write" /\ Return(p, w, vec[p][w]) /\ UNCHANGED model
    BY <1>9 DEF Write, At
  <2>2. vec[p][w] \in Vector
    BY <2>1 DEF CInv, VecInv
  <2>3. mu' \in [Process -> Worker \cup {"free"}]
    BY <1>9 DEF Write, CInv, TypeOK
  <2>4. file' \in [Text -> Vector \cup {"absent", "torn"}]
    <3>1. PICK f \in Written(p, w) : file' = [file EXCEPT ![text[p][w]] = f]
      BY <1>9 DEF Write
    <3>2. f \in Vector \cup {"torn"}
      BY <2>2 DEF Written
    <3>3. QED
      BY <3>1, <3>2 DEF CInv, TypeOK
  <2>5. QED
    BY <2>1, <2>2, <2>3, <2>4, ReturnFacts DEF CInv, TypeOK, PC
<1>10. CASE UNCHANGED vars
  BY <1>10 DEF vars, CInv, TypeOK, VecInv, NeverServesTorn
<1>11. QED
  BY <1>1, <1>2, <1>3, <1>4, <1>5, <1>6, <1>7, <1>8, <1>9, <1>10 DEF Next, Step

(* The inductive invariant of the cache holds in every reachable state. *)
THEOREM CacheInvariance == Safety => []CInv
<1>1. Init => CInv
  BY DEF Init, CInv, TypeOK, VecInv, NeverServesTorn, None
<1>2. QED
  BY <1>1, CInvStep, PTL DEF Safety

(* Files, mutexes and goroutines are always of their types. *)
THEOREM CacheTypeCorrect == Safety => []TypeOK
  BY CacheInvariance, PTL DEF CInv

(* loadCached never serves a file whose size is not a vector's, whichever      *)
(* writes were cut off or interleaved with the reads.                         *)
THEOREM NeverServesTornAlways == Safety => []NeverServesTorn
  BY CacheInvariance, PTL DEF CInv

(* What is settled for a text is for good: since loadCached finds the file, no  *)
(* call of any process ever gets to compute or write again, and all of them    *)
(* return what is in it.                                                      *)
THEOREM CachedStaysAlways == Safety => CachedStays
<1> DEFINE Missing == {"compute", "lock", "truncate", "write"}
<1>1. ASSUME CInv, Next, NEW t \in Text, Settled(t)
      PROVE  /\ Settled(t)'
             /\ file'[t] = file[t]
             /\ got'[t] \ got[t] \subseteq {file[t]}
  <2> DEFINE NoMiss == \A p \in Process, w \in Worker :
                          text'[p][w] = t => pc'[p][w] \notin Missing
             Same == file'[t] = file[t]
             GotIt == got'[t] \ got[t] \subseteq {file[t]}
  <2>1. /\ file[t] \in Vector
        /\ \A p \in Process, w \in Worker : text[p][w] = t => pc[p][w] \notin Missing
    BY <1>1 DEF Settled
  <2>2. TypeOK /\ file \in [Text -> Vector \cup {"absent", "torn"}]
    BY <1>1 DEF CInv, TypeOK
  <2>3. SUFFICES NoMiss /\ Same /\ GotIt
    BY <2>1 DEF Settled
  <2> HIDE DEF Missing
  (* A goroutine that returns is idle, and leaves the others where they are.  *)
  <2>4. ASSUME NEW p \in Process, NEW w \in Worker, NEW v, Return(p, w, v)
        PROVE  NoMiss /\ (text[p][w] # t \/ v = file[t] => GotIt)
    <3>1. /\ Goto(p, w, "idle") /\ "idle" \in PC
          /\ got' = [got EXCEPT ![text[p][w]] = got[text[p][w]] \cup {v}]
          /\ text' = [text EXCEPT ![p][w] = None]
      BY <2>4 DEF Return, PC
    <3>2. /\ pc'[p][w] = "idle"
          /\ \A q \in Process, x \in Worker : q # p \/ x # w => pc'[q][x] = pc[q][x]
      BY <2>2, <3>1, GotoFacts
    <3>3. \A q \in Process, x \in Worker : q # p \/ x # w => text'[q][x] = text[q][x]
      BY <2>2, <3>1, Update DEF TypeOK
    <3>4. NoMiss
      BY <2>1, <3>2, <3>3 DEF Missing
    <3>5. text[p][w] # t \/ v = file[t] => GotIt
      BY <2>2, <3>1 DEF TypeOK
    <3>6. QED
      BY <3>4, <3>5
  (* One that moves on under another text changes nothing about t.            *)
  <2>5. ASSUME NEW p \in Process, NEW w \in Worker, NEW l \in PC, Goto(p, w, l),
               text' = text, text[p][w] # t
        PROVE  NoMiss
    BY <2>1, <2>2, <2>5, GotoFacts
  <2>6. ASSUME NEW p \in Process, Start(p) PROVE NoMiss /\ Same /\ GotIt
    BY <2>1, <2>6 DEF Start
  <2>7. ASSUME NEW p \in Process, Stop(p) PROVE NoMiss /\ Same /\ GotIt
    BY <2>1, <2>2, <2>7 DEF Stop, TypeOK, Missing
  <2>8. ASSUME NEW p \in Process, NEW w \in Worker, Call(p, w)
        PROVE  NoMiss /\ Same /\ GotIt
    <3>1. /\ Goto(p, w, "load") /\ "load" \in PC /\ UNCHANGED <<file, got>>
          /\ \E u \in Text : text' = [text EXCEPT ![p][w] = u]
      BY <2>8 DEF Call, PC
    <3>2. /\ pc'[p][w] = "load"
          /\ \A q \in Process, x \in Worker : q # p \/ x # w => pc'[q][x] = pc[q][x]
      BY <2>2, <3>1, GotoFacts
    <3>3. \A q \in Process, x \in Worker : q # p \/ x # w => text'[q][x] = text[q][x]
      BY <2>2, <3>1, Update DEF TypeOK
    <3>4. NoMiss
      BY <2>1, <3>2, <3>3 DEF Missing
    <3>5. QED
      BY <3>1, <3>4
  (* The lookup of t is a hit.                                                *)
  <2>9. ASSUME NEW p \in Process, NEW w \in Worker, Load(p, w)
        PROVE  NoMiss /\ Same /\ GotIt
    <3>1. CASE file[text[p][w]] \in Vector
      <4>1. Return(p, w, file[text[p][w]]) /\ file' = file
        BY <2>9, <3>1 DEF Load
      <4>2. QED
        BY <2>4, <4>1
    <3>2. CASE file[text[p][w]] \notin Vector
      <4>1. /\ Goto(p, w, "compute") /\ "compute" \in PC
            /\ UNCHANGED <<file, text, got>> /\ text[p][w] # t
        BY <2>1, <2>9, <3>2 DEF Load, PC
      <4>2. QED
        BY <2>5, <4>1
    <3>3. QED
      BY <3>1, <3>2
  <2>10. ASSUME NEW p \in Process, NEW w \in Worker, Compute(p, w)
         PROVE  NoMiss /\ Same /\ GotIt
    <3>1. /\ Goto(p, w, "lock") /\ "lock" \in PC /\ UNCHANGED <<file, text, got>>
          /\ text[p][w] # t
      BY <2>1, <2>10 DEF Compute, At, PC, Missing
    <3>2. QED
      BY <2>5, <3>1
  <2>11. ASSUME NEW p \in Process, NEW w \in Worker, Lock(p, w)
         PROVE  NoMiss /\ Same /\ GotIt
    <3>1. /\ Goto(p, w, "truncate") /\ "truncate" \in PC /\ UNCHANGED <<file, text, got>>
          /\ text[p][w] # t
      BY <2>1, <2>11 DEF Lock, At, PC, Missing
    <3>2. QED
      BY <2>5, <3>1
  <2>12. ASSUME NEW p \in Process, NEW w \in Worker, Truncate(p, w)
         PROVE  NoMiss /\ Same /\ GotIt
    <3>1. /\ Goto(p, w, "write") /\ "write" \in PC /\ UNCHANGED <<text, got>>
          /\ text[p][w] # t
      BY <2>1, <2>12 DEF Truncate, At, PC, Missing
    <3>2. Same
      BY <2>2, <2>12, <3>1 DEF Truncate
    <3>3. QED
      BY <2>5, <3>1, <3>2
  <2>13. ASSUME NEW p \in Process, NEW w \in Worker, OpenFails(p, w)
         PROVE  NoMiss /\ Same /\ GotIt
    <3>1. Return(p, w, vec[p][w]) /\ file' = file /\ text[p][w] # t
      BY <2>1, <2>13 DEF OpenFails, At, Missing
    <3>2. QED
      BY <2>4, <3>1
  <2>14. ASSUME NEW p \in Process, NEW w \in Worker, Write(p, w)
         PROVE  NoMiss /\ Same /\ GotIt
    <3>1. Return(p, w, vec[p][w]) /\ text[p][w] # t
      BY <2>1, <2>14 DEF Write, At, Missing
    <3>2. Same
      BY <2>2, <2>14, <3>1 DEF Write
    <3>3. QED
      BY <2>4, <3>1, <3>2
  <2>15. QED
    BY <1>1, <2>6, <2>7, <2>8, <2>9, <2>10, <2>11, <2>12, <2>13, <2>14 DEF Next, Step
<1>2. CInv /\ [Next]_vars =>
        [\A t \in Text : Settled(t) =>
           /\ Settled(t)'
           /\ file'[t] = file[t]
           /\ got'[t] \ got[t] \subseteq {file[t]}]_vars
  BY <1>1
<1>3. QED
  BY <1>2, CacheInvariance, PTL DEF Safety, CachedStays
=============================================================================
