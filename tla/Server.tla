------------------------------- MODULE Server -------------------------------
(***************************************************************************)
(* The HTTP server of cmd/legacylens/main.go: runServer loads its backends   *)
(* one after the other, then handlers read and switch the active backend     *)
(* under serverState.mu and search the store they captured, until a signal   *)
(* makes the shutdown goroutine drain the handlers for a grace period, close *)
(* the stores and let main return.                                           *)
(***************************************************************************)
EXTENDS Naturals, Sequences

CONSTANTS
  Backend,      \* the names a request may ask for
  ToLoad,       \* backendsToLoad: the names to load, in order
  Request       \* HTTP requests over the life of the server

ASSUME ServerAssumption ==
  /\ ToLoad \in Seq(Backend)
  /\ ToLoad # <<>>

VARIABLES
  main,       \* progress of runServer
  next,       \* position in ToLoad while loading
  store,      \* each backend's store: "none", "open" or "closed"
  active,     \* serverState.active
  sig,        \* progress of the shutdown goroutine
  signalled,  \* has SIGINT or SIGTERM been sent
  grace,      \* has the grace period run out
  hpc, kind,  \* per request: progress of its handler, and which handler it is
  cur,        \* the backend the handler captured
  expired,    \* has its WriteTimeout run out
  reply       \* what the handler answered: a label, the store it read, a status

NoBackend == "none"
handlers == <<hpc, kind, cur, expired, reply>>
vars == <<main, next, store, active, sig, signalled, grace, handlers>>

Kind == {"health", "switch", "search", "explain", "eval"}

(* A request is over when it was answered, or with the process. *)
InHandler == {"accepted", "captured", "reading", "llm", "answer"}

Loaded == {b \in Backend : store[b] # "none"}
NoReply == [label |-> NoBackend, from |-> NoBackend, ok |-> FALSE]

TypeOK ==
  /\ main \in {"load", "start", "listen", "stopping", "exited", "dead"}
  /\ next \in 1 .. Len(ToLoad) + 1
  /\ store \in [Backend -> {"none", "open", "closed"}]
  /\ active \in Backend \cup {NoBackend}
  /\ sig \in {"none", "wait", "drain", "close", "done"}
  /\ signalled \in BOOLEAN
  /\ grace \in BOOLEAN
  /\ hpc \in [Request -> {"none", "over"} \cup InHandler]
  /\ kind \in [Request -> Kind]
  /\ cur \in [Request -> Backend \cup {NoBackend}]
  /\ expired \in [Request -> BOOLEAN]
  /\ reply \in [Request -> [label : Backend \cup {NoBackend},
                            from  : Backend \cup {NoBackend},
                            ok    : BOOLEAN]]

Init ==
  /\ main = "load"
  /\ next = 1
  /\ store = [b \in Backend |-> "none"]
  /\ active = NoBackend
  /\ sig = "none"
  /\ signalled = FALSE
  /\ grace = FALSE
  /\ hpc = [r \in Request |-> "none"]
  /\ kind \in [Request -> Kind]
  /\ cur = [r \in Request |-> NoBackend]
  /\ expired = [r \in Request |-> FALSE]
  /\ reply = [r \in Request |-> NoReply]

Alive == main \notin {"exited", "dead"}

-----------------------------------------------------------------------------
(* Start-up. *)

(* Init, Count and, for an empty index, IngestRepo. *)
LoadBackend ==
  /\ main = "load"
  /\ next <= Len(ToLoad)
  /\ store' = [store EXCEPT ![ToLoad[next]] = "open"]
  /\ next' = next + 1
  /\ UNCHANGED <<main, active, sig, signalled, grace, handlers>>

(* log.Fatalf: any backend that fails to load ends the process. *)
LoadFails ==
  /\ main = "load"
  /\ next <= Len(ToLoad)
  /\ main' = "dead"
  /\ UNCHANGED <<next, store, active, sig, signalled, grace, handlers>>

(* The first backend becomes active, and the goroutine that will wait for a *)
(* signal is started.                                                        *)
LoadDone ==
  /\ main = "load"
  /\ next > Len(ToLoad)
  /\ active' = ToLoad[1]
  /\ main' = "start"
  /\ UNCHANGED <<next, store, sig, signalled, grace, handlers>>

(* ListenAndServe returns at once if Shutdown came first. *)
Listen ==
  /\ main = "start"
  /\ main' = IF sig \in {"none", "wait"} THEN "listen" ELSE "stopping"
  /\ UNCHANGED <<next, store, active, sig, signalled, grace, handlers>>

ListenFails ==
  /\ main = "start"
  /\ main' = "dead"
  /\ UNCHANGED <<next, store, active, sig, signalled, grace, handlers>>

-----------------------------------------------------------------------------
(* Handlers. *)

Accept(r) ==
  /\ main = "listen"
  /\ sig \in {"none", "wait"}
  /\ hpc[r] = "none"
  /\ hpc' = [hpc EXCEPT ![r] = "accepted"]
  /\ UNCHANGED <<main, next, store, active, sig, signalled, grace, kind, cur, expired, reply>>

(* Method or parameter refused: no backend is touched. *)
Refuse(r) ==
  /\ Alive
  /\ hpc[r] = "accepted"
  /\ hpc' = [hpc EXCEPT ![r] = "over"]
  /\ UNCHANGED <<main, next, store, active, sig, signalled, grace, kind, cur, expired, reply>>

(* /api/switch: look-up and assignment are one critical section. *)
Switch(r) ==
  /\ Alive
  /\ hpc[r] = "accepted"
  /\ kind[r] = "switch"
  /\ \E b \in Backend :
       IF b \in Loaded
       THEN /\ active' = b
            /\ reply' = [reply EXCEPT ![r] = [label |-> b, from |-> b, ok |-> TRUE]]
       ELSE UNCHANGED <<active, reply>>
  /\ hpc' = [hpc EXCEPT ![r] = "over"]
  /\ UNCHANGED <<main, next, store, sig, signalled, grace, kind, cur, expired>>

(* cur := state.current(), for /health, /api/search, /api/explain, /api/eval. *)
Current(r) ==
  /\ Alive
  /\ hpc[r] = "accepted"
  /\ kind[r] # "switch"
  /\ cur' = [cur EXCEPT ![r] = active]
  /\ hpc' = [hpc EXCEPT ![r] = IF kind[r] = "health" THEN "answer" ELSE "captured"]
  /\ UNCHANGED <<main, next, store, active, sig, signalled, grace, kind, expired, reply>>

(* The engine goes to the store; a closed store gives an error. *)
BeginRead(r) ==
  /\ Alive
  /\ hpc[r] = "captured"
  /\ IF store[cur[r]] = "open"
     THEN hpc' = [hpc EXCEPT ![r] = "reading"]
     ELSE hpc' = [hpc EXCEPT ![r] = "over"]
  /\ UNCHANGED <<main, next, store, active, sig, signalled, grace, kind, cur, expired, reply>>

(* Fault: the state of the store is taken for its name. *)
EndReadWithState(r) ==
  /\ Alive
  /\ hpc[r] = "reading"
  /\ reply' = [reply EXCEPT ![r].from = store[cur[r]]]
  /\ hpc' = [hpc EXCEPT ![r] = "answer"]
  /\ UNCHANGED <<main, next, store, active, sig, signalled, grace, kind, cur, expired>>

After(k) ==
  CASE k = "eval" -> {"captured"}
    [] k = "explain" -> {"llm"}
    [] OTHER -> {}

(* Results come back from the store that was captured.  An evaluation has    *)
(* more queries for the same engine; an explanation of some results asks the *)
(* language model, if one is configured.  Any store may give an error        *)
(* instead, and one that is closed meanwhile may answer still.                *)
EndRead(r) ==
  /\ Alive
  /\ hpc[r] = "reading"
  /\ \/ /\ reply' = [reply EXCEPT ![r].from = cur[r]]
        /\ \E to \in {"answer"} \cup After(kind[r]) : hpc' = [hpc EXCEPT ![r] = to]
     \/ hpc' = [hpc EXCEPT ![r] = "over"] /\ UNCHANGED reply
  /\ UNCHANGED <<main, next, store, active, sig, signalled, grace, kind, cur, expired>>

(* Complete answers or fails, and a template takes the place of its answer;   *)
(* or its client gives up after 60 s, by when WriteTimeout, which is as long *)
(* and began with the request, has run out.                                  *)
Complete(r) ==
  /\ Alive
  /\ hpc[r] = "llm"
  /\ \/ UNCHANGED expired
     \/ expired' = [expired EXCEPT ![r] = TRUE]
  /\ hpc' = [hpc EXCEPT ![r] = "answer"]
  /\ UNCHANGED <<main, next, store, active, sig, signalled, grace, kind, cur, reply>>

(* Any other handler may be as slow. *)
WriteExpires(r) ==
  /\ Alive
  /\ hpc[r] \in {"captured", "reading"}
  /\ ~expired[r]
  /\ expired' = [expired EXCEPT ![r] = TRUE]
  /\ UNCHANGED <<main, next, store, active, sig, signalled, grace, hpc, kind, cur, reply>>

(* Fault: the answer is labelled with the backend active by then. *)
AnswerWithActive(r) ==
  /\ Alive
  /\ hpc[r] = "answer"
  /\ reply' = [reply EXCEPT ![r].label = active, ![r].ok = ~expired[r]]
  /\ hpc' = [hpc EXCEPT ![r] = "over"]
  /\ UNCHANGED <<main, next, store, active, sig, signalled, grace, kind, cur, expired>>

(* "backend": cur.name, in every answer but that of an evaluation.  Past the  *)
(* deadline the connection is closed instead.                                *)
Answer(r) ==
  /\ Alive
  /\ hpc[r] = "answer"
  /\ reply' = [reply EXCEPT ![r].label = IF kind[r] = "eval" THEN NoBackend ELSE cur[r],
                            ![r].ok = ~expired[r]]
  /\ hpc' = [hpc EXCEPT ![r] = "over"]
  /\ UNCHANGED <<main, next, store, active, sig, signalled, grace, kind, cur, expired>>

Handler(r) ==
  \/ Refuse(r) \/ Switch(r) \/ Current(r) \/ BeginRead(r) \/ EndRead(r)
  \/ Complete(r) \/ WriteExpires(r) \/ Answer(r)

-----------------------------------------------------------------------------
(* Shutdown. *)

Notify ==
  /\ sig = "none"
  /\ main \in {"start", "listen"}
  /\ sig' = "wait"
  /\ UNCHANGED <<main, next, store, active, signalled, grace, handlers>>

(* A signal that comes before signal.Notify kills the process; only the      *)
(* first of those that come after it is received.                            *)
Signal ==
  /\ Alive
  /\ ~signalled
  /\ signalled' = TRUE
  /\ main' = IF sig = "none" THEN "dead" ELSE main
  /\ UNCHANGED <<next, store, active, sig, grace, handlers>>

(* Fault: the stores are closed before the handlers are drained. *)
BeginShutdownClosing ==
  /\ Alive
  /\ sig = "wait"
  /\ signalled
  /\ sig' = "close"
  /\ main' = IF main = "listen" THEN "stopping" ELSE main
  /\ UNCHANGED <<next, store, active, signalled, grace, handlers>>

(* srv.Shutdown closes the listener, so that ListenAndServe returns. *)
BeginShutdown ==
  /\ Alive
  /\ sig = "wait"
  /\ signalled
  /\ sig' = "drain"
  /\ main' = IF main = "listen" THEN "stopping" ELSE main
  /\ UNCHANGED <<next, store, active, signalled, grace, handlers>>

Drained ==
  /\ Alive
  /\ sig = "drain"
  /\ \A r \in Request : hpc[r] \notin InHandler
  /\ sig' = "close"
  /\ UNCHANGED <<main, next, store, active, signalled, grace, handlers>>

(* Fault: Shutdown is called with a context that never expires. *)
GraceNeverExpires == FALSE

GraceExpires ==
  /\ Alive
  /\ sig = "drain"
  /\ \E r \in Request : hpc[r] \in InHandler
  /\ grace' = TRUE
  /\ sig' = "close"
  /\ UNCHANGED <<main, next, store, active, signalled, handlers>>

CloseStore ==
  /\ Alive
  /\ sig = "close"
  /\ \E b \in Backend :
       /\ store[b] = "open"
       /\ store' = [store EXCEPT ![b] = "closed"]
  /\ UNCHANGED <<main, next, active, sig, signalled, grace, handlers>>

ShutdownDone ==
  /\ Alive
  /\ sig = "close"
  /\ \A b \in Backend : store[b] # "open"
  /\ sig' = "done"
  /\ UNCHANGED <<main, next, store, active, signalled, grace, handlers>>

(* Fault: main returns when ListenAndServe does. *)
ExitAtOnce ==
  /\ main = "stopping"
  /\ main' = "exited"
  /\ UNCHANGED <<next, store, active, sig, signalled, grace, handlers>>

(* <-shutdownDone.  Handlers still running end with the process. *)
Exit ==
  /\ main = "stopping"
  /\ sig = "done"
  /\ main' = "exited"
  /\ UNCHANGED <<next, store, active, sig, signalled, grace, handlers>>

Main == LoadBackend \/ LoadDone \/ Listen \/ Exit
Shutdown == Notify \/ BeginShutdown \/ Drained \/ CloseStore \/ ShutdownDone

(* The process has ended; or nobody sends a signal any more. *)
Ended == (~Alive \/ main = "listen") /\ UNCHANGED vars

Next ==
  \/ Main \/ LoadFails \/ ListenFails
  \/ Signal \/ Shutdown \/ GraceExpires
  \/ \E r \in Request : Accept(r) \/ Handler(r)
  \/ Ended

(* main and the shutdown goroutine keep running, and the timer of the grace  *)
(* period fires.  Nothing is assumed of the handlers: an explanation may     *)
(* wait for the language model longer than the grace period.                 *)
Spec ==
  /\ Init
  /\ [][Next]_vars
  /\ WF_vars(Main)
  /\ WF_vars(Shutdown)
  /\ WF_vars(GraceExpires)

-----------------------------------------------------------------------------
(* Properties. *)

(* An answer names the backend its results come from, whatever is switched   *)
(* while it is being computed.                                               *)
LabelIsSource ==
  \A r \in Request :
    kind[r] \in {"search", "explain"} /\ reply[r].ok => reply[r].label = reply[r].from

(* A handler has a store that is loaded and open for all its reads, whatever  *)
(* is switched meanwhile; it finds it closed only after the grace period.     *)
NoReadAfterClose ==
  \A r \in Request : hpc[r] \in {"captured", "reading"} =>
    store[cur[r]] = "open" \/ (store[cur[r]] = "closed" /\ grace)

(* A process that shuts down on a signal closes every store it opened, and,  *)
(* within the grace period, ends with no request unanswered.                 *)
CleanExit ==
  main = "exited" =>
    /\ \A b \in Backend : store[b] # "open"
    /\ grace \/ \A r \in Request : hpc[r] \notin InHandler

(* Once the shutdown goroutine listens for signals, a signal ends the        *)
(* process, even if a handler never returns.                                 *)
SignalEnds == (signalled /\ sig # "none") ~> ~Alive
=============================================================================
