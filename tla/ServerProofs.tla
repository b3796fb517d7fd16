---------------------------- MODULE ServerProofs ----------------------------
(***************************************************************************)
(* Proofs about the HTTP server: for any backends and any number of requests, *)
(* answers are labelled with their source, no handler is cut off within the   *)
(* grace period, and a process that has shut down leaves nothing open.       *)
(***************************************************************************)
EXTENDS Server, TLAPS

Reply == [label : Backend \cup {NoBackend}, from : Backend \cup {NoBackend}, ok : BOOLEAN]

(* While backends are loaded nothing else goes on.                           *)
LoadInv ==
  main = "load" =>
    /\ sig = "none"
    /\ \A r \in Request : hpc[r] = "none"
    /\ \A j \in 1 .. next - 1 : store[ToLoad[j]] = "open"

(* From then on there is an active backend, and it is loaded.                *)
ActiveInv == main \notin {"load", "dead"} => active \in Backend /\ store[active] # "none"

(* No store is closed before the shutdown is over the drain, and none is open *)
(* after it; handlers go on into it only if the grace period has run out.     *)
ClosingInv ==
  /\ sig \in {"none", "wait", "drain"} => \A b \in Backend : store[b] # "closed"
  /\ sig = "done" => \A b \in Backend : store[b] # "open"
  /\ sig \in {"close", "done"} /\ ~grace => \A r \in Request : hpc[r] \notin InHandler
  /\ main = "exited" => sig = "done"

(* What handler r has captured is loaded, and what it has read so far is from *)
(* there; it has answered only if it is over.                                *)
HandlerInvOf(r) ==
  /\ hpc[r] \in {"captured", "reading", "llm", "answer"} =>
       cur[r] \in Backend /\ store[cur[r]] # "none"
  /\ hpc[r] \in {"llm", "answer"} /\ kind[r] \in {"search", "explain"} =>
       reply[r].from = cur[r]
  /\ reply[r].ok => hpc[r] = "over"
  /\ reply[r].ok /\ kind[r] \in {"search", "explain"} => reply[r].label = reply[r].from

HandlerInv == \A r \in Request : HandlerInvOf(r)

SInv == TypeOK /\ LoadInv /\ ActiveInv /\ ClosingInv /\ HandlerInv

(* Answers are of their type, whichever field is written. *)
LEMMA ReplyFacts ==
  ASSUME NEW p \in Reply, NEW b \in Backend \cup {NoBackend},
         NEW c \in Backend \cup {NoBackend}, NEW ok \in BOOLEAN
  PROVE  /\ [label |-> b, from |-> c, ok |-> ok] \in Reply
         /\ [p EXCEPT !.from = b] \in Reply
         /\ [p EXCEPT !.label = b, !.ok = ok] \in Reply
  BY DEF Reply

(* Everything keeps its type. *)
LEMMA TypeStep ==
  ASSUME SInv, [Next]_vars
  PROVE  TypeOK'
<1> USE ServerAssumption DEF SInv, TypeOK, InHandler, After, Loaded, ActiveInv, LoadInv, handlers
<1>1. CASE LoadBackend
  BY <1>1 DEF LoadBackend
<1>2. CASE LoadFails
  BY <1>2 DEF LoadFails
<1>3. CASE LoadDone
  BY <1>3 DEF LoadDone
<1>4. CASE Listen
  BY <1>4 DEF Listen
<1>5. CASE ListenFails
  BY <1>5 DEF ListenFails
<1>6. CASE Notify
  BY <1>6 DEF Notify
<1>7. CASE Signal
  BY <1>7 DEF Signal
<1>8. CASE BeginShutdown
  BY <1>8 DEF BeginShutdown
<1>9. CASE Drained
  BY <1>9 DEF Drained
<1>10. CASE GraceExpires
  BY <1>10 DEF GraceExpires
<1>11. CASE CloseStore
  BY <1>11 DEF CloseStore
<1>12. CASE ShutdownDone
  BY <1>12 DEF ShutdownDone
<1>13. CASE Exit
  BY <1>13 DEF Exit
<1>14. ASSUME NEW r \in Request, Accept(r) PROVE TypeOK'
  BY <1>14 DEF Accept
<1>15. ASSUME NEW r \in Request, Refuse(r) PROVE TypeOK'
  BY <1>15 DEF Refuse
<1>16. ASSUME NEW r \in Request, Switch(r) PROVE TypeOK'
  <2>0. reply \in [Request -> Reply] /\ reply[r] \in Reply
    BY DEF Reply
  <2>1. PICK b \in Backend :
          \/ b \in Loaded /\ active' = b
             /\ reply' = [reply EXCEPT ![r] = [label |-> b, from |-> b, ok |-> TRUE]]
          \/ active' = active /\ reply' = reply
    <3> HIDE DEF Loaded, TypeOK, LoadInv, ActiveInv
    <3>1. QED
      BY <1>16 DEF Switch
  <2>2. reply' \in [Request -> Reply]
    <3>1. [label |-> b, from |-> b, ok |-> TRUE] \in Reply
      BY <2>0, ReplyFacts
    <3>2. QED
      BY <2>0, <2>1, <3>1
  <2>3. active' \in Backend \cup {NoBackend}
    BY <2>1
  <2>4. QED
    BY <1>16, <2>2, <2>3 DEF Switch, Reply
<1>17. ASSUME NEW r \in Request, Current(r) PROVE TypeOK'
  BY <1>17 DEF Current
<1>18. ASSUME NEW r \in Request, BeginRead(r) PROVE TypeOK'
  BY <1>18 DEF BeginRead
<1>19. ASSUME NEW r \in Request, EndRead(r) PROVE TypeOK'
  <2>0. reply \in [Request -> Reply] /\ reply[r] \in Reply
    BY DEF Reply
  <2>1. [reply[r] EXCEPT !.from = cur[r]] \in Reply
    BY <2>0, ReplyFacts
  <2>2. reply' \in [Request -> Reply]
    BY <1>19, <2>0, <2>1 DEF EndRead
  <2>3. hpc' \in [Request -> {"none", "over"} \cup InHandler]
    BY <1>19 DEF EndRead
  <2>4. QED
    BY <1>19, <2>2, <2>3 DEF EndRead, Reply
<1>20. ASSUME NEW r \in Request, Complete(r) PROVE TypeOK'
  BY <1>20 DEF Complete
<1>21. ASSUME NEW r \in Request, WriteExpires(r) PROVE TypeOK'
  BY <1>21 DEF WriteExpires
<1>22. ASSUME NEW r \in Request, Answer(r) PROVE TypeOK'
  <2>0. reply \in [Request -> Reply] /\ reply[r] \in Reply
    BY DEF Reply
  <2>1. [reply[r] EXCEPT !.label = IF kind[r] = "eval" THEN NoBackend ELSE cur[r],
                         !.ok = ~expired[r]] \in Reply
    <3>1. (IF kind[r] = "eval" THEN NoBackend ELSE cur[r]) \in Backend \cup {NoBackend}
      OBVIOUS
    <3>2. (~expired[r]) \in BOOLEAN
      OBVIOUS
    <3>3. QED
      BY <2>0, <3>1, <3>2, ReplyFacts
  <2>2. reply' \in [Request -> Reply]
    BY <1>22, <2>0, <2>1 DEF Answer
  <2>3. QED
    BY <1>22, <2>2 DEF Answer, Reply
<1>23. CASE UNCHANGED vars
  BY <1>23 DEF vars
<1>24. QED
  BY <1>1, <1>2, <1>3, <1>4, <1>5, <1>6, <1>7, <1>8, <1>9, <1>10, <1>11,
     <1>12, <1>13, <1>14, <1>15, <1>16, <1>17, <1>18, <1>19, <1>20, <1>21,
     <1>22, <1>23
  DEF Next, Main, Shutdown, Handler, Ended

(* Nothing starts before the backends are loaded. *)
LEMMA LoadStep ==
  ASSUME SInv, [Next]_vars
  PROVE  LoadInv'
<1> USE ServerAssumption DEF SInv, LoadInv, TypeOK, handlers
<1>1. CASE LoadBackend
  BY <1>1 DEF LoadBackend
<1>2. CASE LoadFails
  BY <1>2 DEF LoadFails
<1>3. CASE LoadDone
  BY <1>3 DEF LoadDone
<1>4. CASE Listen
  BY <1>4 DEF Listen
<1>5. CASE ListenFails
  BY <1>5 DEF ListenFails
<1>6. CASE Notify
  BY <1>6 DEF Notify
<1>7. CASE Signal
  BY <1>7 DEF Signal
<1>8. CASE BeginShutdown
  BY <1>8 DEF BeginShutdown
<1>9. CASE Drained
  BY <1>9 DEF Drained
<1>10. CASE GraceExpires
  BY <1>10 DEF GraceExpires
<1>11. CASE CloseStore
  BY <1>11 DEF CloseStore
<1>12. CASE ShutdownDone
  BY <1>12 DEF ShutdownDone
<1>13. CASE Exit
  BY <1>13 DEF Exit
<1>14. ASSUME NEW r \in Request, Accept(r) PROVE LoadInv'
  BY <1>14 DEF Accept
<1>15. ASSUME NEW r \in Request, Refuse(r) PROVE LoadInv'
  BY <1>15 DEF Refuse
<1>16. ASSUME NEW r \in Request, Switch(r) PROVE LoadInv'
  BY <1>16 DEF Switch
<1>17. ASSUME NEW r \in Request, Current(r) PROVE LoadInv'
  BY <1>17 DEF Current
<1>18. ASSUME NEW r \in Request, BeginRead(r) PROVE LoadInv'
  BY <1>18 DEF BeginRead
<1>19. ASSUME NEW r \in Request, EndRead(r) PROVE LoadInv'
  BY <1>19 DEF EndRead
<1>20. ASSUME NEW r \in Request, Complete(r) PROVE LoadInv'
  BY <1>20 DEF Complete
<1>21. ASSUME NEW r \in Request, WriteExpires(r) PROVE LoadInv'
  BY <1>21 DEF WriteExpires
<1>22. ASSUME NEW r \in Request, Answer(r) PROVE LoadInv'
  BY <1>22 DEF Answer
<1>23. CASE UNCHANGED vars
  BY <1>23 DEF vars
<1>24. QED
  BY <1>1, <1>2, <1>3, <1>4, <1>5, <1>6, <1>7, <1>8, <1>9, <1>10, <1>11,
     <1>12, <1>13, <1>14, <1>15, <1>16, <1>17, <1>18, <1>19, <1>20, <1>21,
     <1>22, <1>23
  DEF Next, Main, Shutdown, Handler, Ended

(* Only what is loaded becomes active, and it stays loaded. *)
LEMMA ActiveStep ==
  ASSUME SInv, [Next]_vars
  PROVE  ActiveInv'
<1> USE ServerAssumption DEF SInv, LoadInv, ActiveInv, TypeOK, Loaded, handlers
<1>1. CASE LoadBackend
  BY <1>1 DEF LoadBackend
<1>2. CASE LoadFails
  BY <1>2 DEF LoadFails
<1>3. CASE LoadDone
  BY <1>3 DEF LoadDone
<1>4. CASE Listen
  BY <1>4 DEF Listen
<1>5. CASE ListenFails
  BY <1>5 DEF ListenFails
<1>6. CASE Notify
  BY <1>6 DEF Notify
<1>7. CASE Signal
  BY <1>7 DEF Signal
<1>8. CASE BeginShutdown
  BY <1>8 DEF BeginShutdown
<1>9. CASE Drained
  BY <1>9 DEF Drained
<1>10. CASE GraceExpires
  BY <1>10 DEF GraceExpires
<1>11. CASE CloseStore
  BY <1>11 DEF CloseStore
<1>12. CASE ShutdownDone
  BY <1>12 DEF ShutdownDone
<1>13. CASE Exit
  BY <1>13 DEF Exit
<1>14. ASSUME NEW r \in Request, Accept(r) PROVE ActiveInv'
  BY <1>14 DEF Accept
<1>15. ASSUME NEW r \in Request, Refuse(r) PROVE ActiveInv'
  BY <1>15 DEF Refuse
<1>16. ASSUME NEW r \in Request, Switch(r) PROVE ActiveInv'
  BY <1>16 DEF Switch
<1>17. ASSUME NEW r \in Request, Current(r) PROVE ActiveInv'
  BY <1>17 DEF Current
<1>18. ASSUME NEW r \in Request, BeginRead(r) PROVE ActiveInv'
  BY <1>18 DEF BeginRead
<1>19. ASSUME NEW r \in Request, EndRead(r) PROVE ActiveInv'
  BY <1>19 DEF EndRead
<1>20. ASSUME NEW r \in Request, Complete(r) PROVE ActiveInv'
  BY <1>20 DEF Complete
<1>21. ASSUME NEW r \in Request, WriteExpires(r) PROVE ActiveInv'
  BY <1>21 DEF WriteExpires
<1>22. ASSUME NEW r \in Request, Answer(r) PROVE ActiveInv'
  BY <1>22 DEF Answer
<1>23. CASE UNCHANGED vars
  BY <1>23 DEF vars
<1>24. QED
  BY <1>1, <1>2, <1>3, <1>4, <1>5, <1>6, <1>7, <1>8, <1>9, <1>10, <1>11,
     <1>12, <1>13, <1>14, <1>15, <1>16, <1>17, <1>18, <1>19, <1>20, <1>21,
     <1>22, <1>23
  DEF Next, Main, Shutdown, Handler, Ended

(* Drain first, then close, then exit. *)
LEMMA ClosingStep ==
  ASSUME SInv, [Next]_vars
  PROVE  ClosingInv'
<1> USE ServerAssumption DEF SInv, LoadInv, ClosingInv, TypeOK, Alive, InHandler, handlers
<1>1. CASE LoadBackend
  BY <1>1 DEF LoadBackend
<1>2. CASE LoadFails
  BY <1>2 DEF LoadFails
<1>3. CASE LoadDone
  BY <1>3 DEF LoadDone
<1>4. CASE Listen
  BY <1>4 DEF Listen
<1>5. CASE ListenFails
  BY <1>5 DEF ListenFails
<1>6. CASE Notify
  BY <1>6 DEF Notify
<1>7. CASE Signal
  BY <1>7 DEF Signal
<1>8. CASE BeginShutdown
  BY <1>8 DEF BeginShutdown
<1>9. CASE Drained
  BY <1>9 DEF Drained
<1>10. CASE GraceExpires
  BY <1>10 DEF GraceExpires
<1>11. CASE CloseStore
  BY <1>11 DEF CloseStore
<1>12. CASE ShutdownDone
  BY <1>12 DEF ShutdownDone
<1>13. CASE Exit
  BY <1>13 DEF Exit
<1>14. ASSUME NEW r \in Request, Accept(r) PROVE ClosingInv'
  BY <1>14 DEF Accept
<1>15. ASSUME NEW r \in Request, Refuse(r) PROVE ClosingInv'
  BY <1>15 DEF Refuse
<1>16. ASSUME NEW r \in Request, Switch(r) PROVE ClosingInv'
  BY <1>16 DEF Switch
<1>17. ASSUME NEW r \in Request, Current(r) PROVE ClosingInv'
  BY <1>17 DEF Current
<1>18. ASSUME NEW r \in Request, BeginRead(r) PROVE ClosingInv'
  BY <1>18 DEF BeginRead
<1>19. ASSUME NEW r \in Request, EndRead(r) PROVE ClosingInv'
  BY <1>19 DEF EndRead
<1>20. ASSUME NEW r \in Request, Complete(r) PROVE ClosingInv'
  BY <1>20 DEF Complete
<1>21. ASSUME NEW r \in Request, WriteExpires(r) PROVE ClosingInv'
  BY <1>21 DEF WriteExpires
<1>22. ASSUME NEW r \in Request, Answer(r) PROVE ClosingInv'
  BY <1>22 DEF Answer
<1>23. CASE UNCHANGED vars
  BY <1>23 DEF vars
<1>24. QED
  BY <1>1, <1>2, <1>3, <1>4, <1>5, <1>6, <1>7, <1>8, <1>9, <1>10, <1>11,
     <1>12, <1>13, <1>14, <1>15, <1>16, <1>17, <1>18, <1>19, <1>20, <1>21,
     <1>22, <1>23
  DEF Next, Main, Shutdown, Handler, Ended

(* A handler keeps to the backend it captured. *)
LEMMA HandlerStep ==
  ASSUME SInv, [Next]_vars
  PROVE  HandlerInv'
<1> USE ServerAssumption DEF SInv, LoadInv, ActiveInv, HandlerInv, HandlerInvOf, TypeOK, Alive, handlers
<1>1. CASE LoadBackend
  BY <1>1 DEF LoadBackend
<1>2. CASE LoadFails
  BY <1>2 DEF LoadFails
<1>3. CASE LoadDone
  BY <1>3 DEF LoadDone
<1>4. CASE Listen
  BY <1>4 DEF Listen
<1>5. CASE ListenFails
  BY <1>5 DEF ListenFails
<1>6. CASE Notify
  BY <1>6 DEF Notify
<1>7. CASE Signal
  BY <1>7 DEF Signal
<1>8. CASE BeginShutdown
  BY <1>8 DEF BeginShutdown
<1>9. CASE Drained
  BY <1>9 DEF Drained
<1>10. CASE GraceExpires
  BY <1>10 DEF GraceExpires
<1>11. CASE CloseStore
  BY <1>11 DEF CloseStore
<1>12. CASE ShutdownDone
  BY <1>12 DEF ShutdownDone
<1>13. CASE Exit
  BY <1>13 DEF Exit
<1>14. ASSUME NEW r \in Request, Accept(r) PROVE HandlerInv'
  BY <1>14 DEF Accept
<1>15. ASSUME NEW r \in Request, Refuse(r) PROVE HandlerInv'
  BY <1>15 DEF Refuse
<1>16. ASSUME NEW r \in Request, Switch(r) PROVE HandlerInv'
  BY <1>16 DEF Switch
<1>17. ASSUME NEW r \in Request, Current(r) PROVE HandlerInv'
  BY <1>17 DEF Current
<1>18. ASSUME NEW r \in Request, BeginRead(r) PROVE HandlerInv'
  BY <1>18 DEF BeginRead
<1>19. ASSUME NEW r \in Request, EndRead(r) PROVE HandlerInv'
  <2>1. ASSUME NEW q \in Request PROVE HandlerInvOf(q)'
    <3>1. CASE q /= r
      BY <1>19, <3>1 DEF EndRead
    <3>2. CASE q = r
      <4>1. reply[r] \in Reply /\ reply \in [Request -> Reply]
        BY DEF Reply
      <4>2. CASE hpc' = [hpc EXCEPT ![r] = "over"] /\ reply' = reply
        BY <1>19, <3>2, <4>2 DEF EndRead
      <4>3. CASE reply' = [reply EXCEPT ![r].from = cur[r]]
                 /\ \E to \in {"answer"} \cup After(kind[r]) : hpc' = [hpc EXCEPT ![r] = to]
        <5>1. reply'[r].from = cur[r] /\ reply'[r].ok = reply[r].ok
          BY <4>1, <4>3 DEF Reply
        <5>2. ~reply[r].ok /\ cur[r] \in Backend /\ store[cur[r]] /= "none"
          BY <1>19 DEF EndRead
        <5>3. cur' = cur /\ store' = store
          BY <1>19 DEF EndRead
        <5>4. QED
          BY <3>2, <5>1, <5>2, <5>3
      <4>4. QED
        BY <1>19, <4>2, <4>3 DEF EndRead
    <3>3. QED
      BY <3>1, <3>2
  <2>2. QED
    BY <2>1
<1>20. ASSUME NEW r \in Request, Complete(r) PROVE HandlerInv'
  BY <1>20 DEF Complete
<1>21. ASSUME NEW r \in Request, WriteExpires(r) PROVE HandlerInv'
  BY <1>21 DEF WriteExpires
<1>22. ASSUME NEW r \in Request, Answer(r) PROVE HandlerInv'
  BY <1>22 DEF Answer
<1>23. CASE UNCHANGED vars
  BY <1>23 DEF vars
<1>24. QED
  BY <1>1, <1>2, <1>3, <1>4, <1>5, <1>6, <1>7, <1>8, <1>9, <1>10, <1>11,
     <1>12, <1>13, <1>14, <1>15, <1>16, <1>17, <1>18, <1>19, <1>20, <1>21,
     <1>22, <1>23
  DEF Next, Main, Shutdown, Handler, Ended

(* The invariant holds at first, and every step keeps it. *)
LEMMA SInvInit == Init => SInv
<1> SUFFICES ASSUME Init PROVE SInv
  OBVIOUS
<1>1. TypeOK
  <2>1. NoReply \in Reply
    BY DEF NoReply, Reply
  <2>2. next \in 1 .. Len(ToLoad) + 1
    BY ServerAssumption DEF Init
  <2>3. QED
    BY <2>1, <2>2 DEF Init, TypeOK, Reply
<1>2. LoadInv /\ ActiveInv /\ ClosingInv
  BY DEF Init, LoadInv, ActiveInv, ClosingInv
<1>3. HandlerInv
  BY DEF Init, HandlerInv, HandlerInvOf, NoReply
<1>4. QED
  BY <1>1, <1>2, <1>3 DEF SInv

(* The server's inductive invariant holds in every reachable state.          *)
THEOREM ServerInvariance == Spec => []SInv
<1>1. Init => SInv
  BY SInvInit
<1>2. SInv /\ [Next]_vars => SInv'
  BY TypeStep, LoadStep, ActiveStep, ClosingStep, HandlerStep DEF SInv
<1>3. QED
  BY <1>1, <1>2, PTL DEF Spec

(* The server's variables are always of their types.                         *)
THEOREM ServerTypeCorrect == Spec => []TypeOK
  BY ServerInvariance, PTL DEF SInv

(* A search or an explanation is labelled with the backend its results come   *)
(* from, for any number of requests and switches.                            *)
THEOREM LabelIsSourceAlways == Spec => []LabelIsSource
<1>1. SInv => LabelIsSource
  BY DEF SInv, HandlerInv, HandlerInvOf, LabelIsSource
<1>2. QED
  BY <1>1, ServerInvariance, PTL

(* A handler finds its store closed only after the grace period.             *)
THEOREM NoReadAfterCloseAlways == Spec => []NoReadAfterClose
<1>1. SInv => NoReadAfterClose
  <2> SUFFICES ASSUME SInv, NEW r \in Request, hpc[r] \in {"captured", "reading"}
               PROVE  store[cur[r]] = "open" \/ (store[cur[r]] = "closed" /\ grace)
    BY DEF NoReadAfterClose
  <2>1. cur[r] \in Backend /\ store[cur[r]] \in {"open", "closed"}
    BY DEF SInv, TypeOK, HandlerInv, HandlerInvOf
  <2>2. sig \notin {"none", "wait", "drain"} => grace
    BY DEF SInv, TypeOK, ClosingInv, InHandler
  <2>3. QED
    BY <2>1, <2>2 DEF SInv, TypeOK, ClosingInv
<1>2. QED
  BY <1>1, ServerInvariance, PTL

(* A process that has shut down has closed its stores, and, within the grace  *)
(* period, has answered every request.                                       *)
THEOREM CleanExitAlways == Spec => []CleanExit
<1>1. SInv => CleanExit
  BY DEF SInv, ClosingInv, CleanExit
<1>2. QED
  BY <1>1, ServerInvariance, PTL
=============================================================================
