-------------------------------- MODULE Page --------------------------------
(***************************************************************************)
(* The web page (cmd/legacylens/static/index.html) in front of a server that *)
(* others use too.  JavaScript runs one handler at a time: what interleaves  *)
(* is the user's input, the server's handling of each request, and the        *)
(* arrival of each answer, in any order, or its failure.                      *)
(*                                                                         *)
(* The server is its active backend here; that an answer carries the name of *)
(* the backend it was computed from is Server's LabelIsSource.               *)
(***************************************************************************)
EXTENDS Naturals

CONSTANTS
  Question,     \* contents of the query box together with the mode
  Backend,      \* what the server may have loaded
  Ask           \* requests for an answer that may be under way together

ASSUME PageAssumption == Backend # {}

VARIABLES
  loaded, active,   \* the server: its backends, and the one it answers from
  input,        \* the query box and the mode
  busy,         \* is the button disabled
  known,        \* serverBackend
  switchable,   \* may the page switch
  select,       \* the drop-down's value, and whether it is disabled
  status,       \* the status line
  shown,        \* the results area
  health, switch, ask,  \* the requests under way
  astray        \* has active changed since the page last heard of it

NoBackend == "none"
server == <<loaded, active, astray>>
page == <<input, busy, known, switchable, select, status, shown>>
requests == <<health, switch, ask>>
vars == <<server, page, requests>>

(* A request is not under way, sent, or answered by the server.              *)
Idle == [st |-> "idle", q |-> NoBackend, b |-> NoBackend]
Sent(q, b) == [st |-> "sent", q |-> q, b |-> b]
Answered(r, b) == [r EXCEPT !.st = "answered", !.b = b]

(* A line of text, the spinner, or the results for a question from a backend. *)
Line(k) == [k |-> k, q |-> NoBackend, b |-> NoBackend]
Results(q, b) == [k |-> "results", q |-> q, b |-> b]
Shows == {Line(k) : k \in {"empty", "failed"}} \cup
           {Results(q, b) : q \in Question, b \in Backend}
Says == {Line(k) : k \in {"text", "spinner"}} \cup
          {Results(q, b) : q \in Question, b \in Backend}

TypeOK ==
  /\ loaded \in SUBSET Backend /\ active \in loaded
  /\ input \in Question
  /\ busy \in BOOLEAN
  /\ known \in loaded \cup {NoBackend}
  /\ switchable \in BOOLEAN
  /\ select \in [value : Backend, disabled : BOOLEAN]
  /\ status \in Says
  /\ shown \in Shows
  /\ \A r \in {health, switch} \cup {ask[i] : i \in Ask} :
       /\ r.st \in {"idle", "sent", "answered"}
       /\ r.q \in Question \cup {NoBackend}
       /\ r.b \in Backend \cup {NoBackend}
  /\ astray \in BOOLEAN

(* The script runs checkHealth once.                                         *)
Init ==
  /\ loaded \in SUBSET Backend /\ active \in loaded
  /\ input \in Question
  /\ busy = FALSE
  /\ known = NoBackend
  /\ switchable = FALSE
  /\ select \in [value : Backend, disabled : {FALSE}]
  /\ status = Line("text")
  /\ shown = Line("empty")
  /\ health = Sent(NoBackend, NoBackend)
  /\ switch = Idle
  /\ ask = [i \in Ask |-> Idle]
  /\ astray = FALSE

-----------------------------------------------------------------------------
(* The user. *)

(* Typing, or setMode. *)
Type ==
  /\ input' \in Question \ {input}
  /\ UNCHANGED <<server, busy, known, switchable, select, status, shown, requests>>

(* doSearch and doExplain.  The button may be disabled, but the Enter key     *)
(* works all the same.                                                       *)
DoAction(i) ==
  /\ ask[i] = Idle
  /\ ask' = [ask EXCEPT ![i] = Sent(input, NoBackend)]
  /\ busy' = TRUE
  /\ status' = Line("spinner")
  /\ UNCHANGED <<server, input, known, switchable, select, shown, health, switch>>

(* switchBackend, when the user picks another value.  A page that has not     *)
(* heard of another backend only says so, and leaves the value as picked;     *)
(* the backend that it takes for active is not asked for.                    *)
SwitchBackend(b) ==
  /\ ~select.disabled
  /\ b # select.value
  /\ IF ~switchable
     THEN /\ status' = Line("text")
          /\ select' = [select EXCEPT !.value = b]
          /\ UNCHANGED switch
     ELSE IF b = known
     THEN select' = [select EXCEPT !.value = b] /\ UNCHANGED <<status, switch>>
     ELSE /\ b \in loaded
          /\ status' = Line("spinner")
          /\ select' = [value |-> b, disabled |-> TRUE]
          /\ switch' = Sent(NoBackend, b)
  /\ UNCHANGED <<server, input, busy, known, switchable, shown, health, ask>>

-----------------------------------------------------------------------------
(* The server. *)

HandleHealth ==
  /\ health.st = "sent"
  /\ health' = Answered(health, active)
  /\ astray' = FALSE
  /\ UNCHANGED <<loaded, active, page, switch, ask>>

HandleSwitch ==
  /\ switch.st = "sent"
  /\ active' = switch.b
  /\ switch' = Answered(switch, switch.b)
  /\ astray' = FALSE
  /\ UNCHANGED <<loaded, page, health, ask>>

HandleAsk(i) ==
  /\ ask[i].st = "sent"
  /\ ask' = [ask EXCEPT ![i] = Answered(@, active)]
  /\ UNCHANGED <<server, page, health, switch>>

(* Another page switches the server. *)
Elsewhere ==
  /\ active' \in loaded \ {active}
  /\ astray' = TRUE
  /\ UNCHANGED <<loaded, page, requests>>

-----------------------------------------------------------------------------
(* Answers reach the page. *)

(* Fault: the drop-down is set without waiting for the answer. *)
HealthArrivesEarly ==
  /\ health # Idle
  /\ known' = health.b
  /\ switchable' = (\E b \in loaded : b # active)
  /\ select' = [value |-> health.b, disabled |-> select.disabled /\ ~switchable']
  /\ health' = Idle
  /\ UNCHANGED <<server, input, busy, status, shown, switch, ask>>

HealthArrives ==
  /\ health.st = "answered"
  /\ known' = health.b
  /\ switchable' = (\E b \in loaded : b # active)
  /\ select' = [value |-> health.b, disabled |-> select.disabled /\ ~switchable']
  /\ health' = Idle
  /\ UNCHANGED <<server, input, busy, status, shown, switch, ask>>

(* The page stays as it is, without a backend. *)
HealthFails ==
  /\ health # Idle
  /\ health' = Idle
  /\ UNCHANGED <<server, page, switch, ask>>

SwitchArrives ==
  /\ switch.st = "answered"
  /\ known' = switch.b
  /\ status' = Line("text")
  /\ select' = [value |-> switch.b, disabled |-> FALSE]
  /\ switch' = Idle
  /\ UNCHANGED <<server, input, busy, switchable, shown, health, ask>>

(* Fault: the drop-down keeps the value that was asked for. *)
SwitchFailsKeeping ==
  /\ switch # Idle
  /\ status' = Line("text")
  /\ select' = [select EXCEPT !.disabled = FALSE]
  /\ switch' = Idle
  /\ astray' = (astray \/ switch.st = "answered")
  /\ UNCHANGED <<loaded, active, input, busy, known, switchable, shown, health, ask>>

(* An error, or an answer that is lost after the server has switched.  A       *)
(* request given up before the server has handled it may be handled later: to  *)
(* the page, that is a switch from Elsewhere.                                *)
SwitchFails ==
  /\ switch # Idle
  /\ status' = Line("text")
  /\ select' = [value |-> known, disabled |-> FALSE]
  /\ switch' = Idle
  /\ astray' = (astray \/ switch.st = "answered")
  /\ UNCHANGED <<loaded, active, input, busy, known, switchable, shown, health, ask>>

(* Fault: the question on the status line is read from the query box. *)
AskArrivesRereading(i) ==
  /\ ask[i].st = "answered"
  /\ busy' = FALSE
  /\ status' = Results(input, ask[i].b)
  /\ shown' = Results(ask[i].q, ask[i].b)
  /\ ask' = [ask EXCEPT ![i] = Idle]
  /\ UNCHANGED <<server, input, known, switchable, select, health, switch>>

(* The last to arrive is shown, whichever was asked last.                    *)
AskArrives(i) ==
  /\ ask[i].st = "answered"
  /\ busy' = FALSE
  /\ status' = Results(ask[i].q, ask[i].b)
  /\ shown' = Results(ask[i].q, ask[i].b)
  /\ ask' = [ask EXCEPT ![i] = Idle]
  /\ UNCHANGED <<server, input, known, switchable, select, health, switch>>

(* Fault: only an answer enables the button. *)
AskFailsDisabled(i) ==
  /\ ask[i] # Idle
  /\ status' = Line("text")
  /\ shown' = Line("failed")
  /\ ask' = [ask EXCEPT ![i] = Idle]
  /\ UNCHANGED <<server, input, busy, known, switchable, select, health, switch>>

AskFails(i) ==
  /\ ask[i] # Idle
  /\ busy' = FALSE
  /\ status' = Line("text")
  /\ shown' = Line("failed")
  /\ ask' = [ask EXCEPT ![i] = Idle]
  /\ UNCHANGED <<server, input, known, switchable, select, health, switch>>

HealthSettles == HealthArrives \/ HealthFails
SwitchSettles == SwitchArrives \/ SwitchFails
AskSettles(i) == AskArrives(i) \/ AskFails(i)

Next ==
  \/ Type \/ \E b \in Backend : SwitchBackend(b)
  \/ HandleHealth \/ HandleSwitch \/ Elsewhere
  \/ HealthSettles \/ SwitchSettles
  \/ \E i \in Ask : DoAction(i) \/ HandleAsk(i) \/ AskSettles(i)

(* A browser reports an answer or an error for every request it has sent, at  *)
(* the latest when the connection is gone.                                   *)
Spec ==
  /\ Init
  /\ [][Next]_vars
  /\ WF_vars(HealthSettles)
  /\ WF_vars(SwitchSettles)
  /\ \A i \in Ask : WF_vars(AskSettles(i))

-----------------------------------------------------------------------------
(* Properties. *)

(* The status line and the results below it belong together: it never names   *)
(* a question or a backend that the results do not come from, though answers *)
(* arrive out of order, the query box has changed and backends are switched. *)
LabelIsShown == status.k = "results" => shown = status

(* With no switch under way the drop-down shows what the page takes for the   *)
(* active backend; and that is the server's, unless another page has          *)
(* switched it or the answer to a switch was lost.                           *)
KnowsBackend ==
  switch = Idle /\ known # NoBackend =>
    /\ switchable => select.value = known
    /\ astray \/ known = active

(* Nothing stays disabled or spinning: whatever fails, in whatever order,     *)
(* and with several requests under way, each control comes back.             *)
PageSettles ==
  /\ busy ~> ~busy
  /\ select.disabled ~> ~select.disabled
  /\ (status = Line("spinner")) ~> (status # Line("spinner"))
=============================================================================
