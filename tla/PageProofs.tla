----------------------------- MODULE PageProofs -----------------------------
(***************************************************************************)
(* Proofs about the web page: for any questions, backends and number of      *)
(* requests under way, what it shows is from one answer, and it knows the     *)
(* active backend unless another page or a lost answer keeps it from it.     *)
(***************************************************************************)
EXTENDS Page, TLAPS

Req == [st : {"idle", "sent", "answered"}, q : Question \cup {NoBackend},
        b : Backend \cup {NoBackend}]

(* The requests are records of their type.                                   *)
ReqInv == health \in Req /\ switch \in Req /\ ask \in [Ask -> Req]

(* TypeOK without the requests, which ReqInv is about.                       *)
PlainTypes ==
  /\ loaded \in SUBSET Backend /\ active \in loaded
  /\ input \in Question
  /\ busy \in BOOLEAN
  /\ known \in loaded \cup {NoBackend}
  /\ switchable \in BOOLEAN
  /\ select \in [value : Backend, disabled : BOOLEAN]
  /\ status \in Says
  /\ shown \in Shows
  /\ astray \in BOOLEAN

(* The page hears of the server's backends once, before it can switch; an     *)
(* answer on its way has the active backend.                                 *)
HealthInv ==
  /\ health # Idle => ~switchable /\ known = NoBackend /\ switch = Idle
  /\ health.st = "answered" => health.b \in loaded /\ (astray \/ health.b = active)
  /\ switchable => known \in loaded

(* A question under way is one, and so is the backend that answered it.      *)
AskInv ==
  \A i \in Ask : /\ ask[i].st \in {"sent", "answered"} => ask[i].q \in Question
                 /\ ask[i].st = "answered" => ask[i].b \in Backend

(* While a switch is under way the drop-down is disabled, so that there is no *)
(* other; until the server has handled it the page is right about the backend *)
(* as before, and from then on the answer is.                                *)
SwitchInv ==
  /\ switch # Idle => /\ select.disabled /\ switchable /\ switch.b \in loaded
                      /\ switch.st # "idle"
  /\ switch.st # "answered" /\ known # NoBackend => astray \/ known = active
  /\ switch.st = "answered" => astray \/ switch.b = active

PInv == TypeOK /\ ReqInv /\ HealthInv /\ AskInv /\ SwitchInv /\ LabelIsShown /\ KnowsBackend

(* What the constructors of requests and lines make. *)
LEMMA IdleFacts ==
  /\ Idle \in Req /\ Idle.st = "idle"
  /\ \A q \in Question \cup {NoBackend}, b \in Backend \cup {NoBackend} :
       Sent(q, b) \in Req /\ Sent(q, b).st = "sent" /\ Sent(q, b).q = q /\ Sent(q, b).b = b
  /\ \A r \in Req, b \in Backend \cup {NoBackend} :
       Answered(r, b) \in Req /\ Answered(r, b).st = "answered"
         /\ Answered(r, b).q = r.q /\ Answered(r, b).b = b
  BY DEF Req, Idle, Sent, Answered

(* The three ways switchBackend goes. *)
LEMMA SwitchCases ==
  ASSUME PInv, NEW b \in Backend, SwitchBackend(b)
  PROVE  /\ switch = Idle
         /\ \/ /\ ~switchable
               /\ status' = Line("text")
               /\ select' = [value |-> b, disabled |-> select.disabled]
               /\ switch' = switch
            \/ /\ switchable /\ b = known
               /\ select' = [value |-> b, disabled |-> select.disabled]
               /\ status' = status /\ switch' = switch
            \/ /\ switchable /\ b \in loaded
               /\ status' = Line("spinner")
               /\ select' = [value |-> b, disabled |-> TRUE]
               /\ switch' = Sent(NoBackend, b)
<1>1. switch = Idle
  BY DEF PInv, SwitchInv, SwitchBackend
<1>2. select \in [value : Backend, disabled : BOOLEAN]
  BY DEF PInv, TypeOK
<1>3. [select EXCEPT !.value = b] = [value |-> b, disabled |-> select.disabled]
  BY <1>2
<1>4. QED
  BY <1>1, <1>3 DEF SwitchBackend

(* Requests remain requests. *)
LEMMA ReqStep ==
  ASSUME PInv, [Next]_vars
  PROVE  ReqInv'
<1> USE IdleFacts DEF PInv, ReqInv, HealthInv, SwitchInv, TypeOK, server, page, requests
<1>1. CASE Type
  BY <1>1 DEF Type
<1>2. ASSUME NEW b \in Backend, SwitchBackend(b) PROVE ReqInv'
  <2>1. switch = Idle
    BY <1>2, SwitchCases
  <2>2. CASE switch' = switch
    BY <1>2, <2>1, <2>2, SwitchCases DEF SwitchBackend
  <2>3. CASE switch' = Sent(NoBackend, b)
    <3>1. switch'.st = "sent" /\ switch'.b = b /\ switch' # Idle
      BY <2>3 DEF Sent, Idle
    <3>2. /\ switchable /\ b \in loaded
          /\ select' = [value |-> b, disabled |-> TRUE]
      BY <1>2, <2>1, <2>3, <3>1, SwitchCases
    <3>3. QED
      BY <1>2, <2>1, <2>3, <3>1, <3>2 DEF SwitchBackend
  <2>4. QED
    BY <1>2, <2>2, <2>3, SwitchCases
<1>3. CASE HandleHealth
  BY <1>3 DEF HandleHealth
<1>4. CASE HandleSwitch
  BY <1>4 DEF HandleSwitch
<1>5. CASE Elsewhere
  BY <1>5 DEF Elsewhere
<1>6. CASE HealthArrives
  BY <1>6 DEF HealthArrives
<1>7. CASE HealthFails
  BY <1>7 DEF HealthFails
<1>8. CASE SwitchArrives
  BY <1>8 DEF SwitchArrives
<1>9. CASE SwitchFails
  BY <1>9 DEF SwitchFails
<1>10. ASSUME NEW i \in Ask, DoAction(i) PROVE ReqInv'
  BY <1>10 DEF DoAction
<1>11. ASSUME NEW i \in Ask, HandleAsk(i) PROVE ReqInv'
  BY <1>11 DEF HandleAsk
<1>12. ASSUME NEW i \in Ask, AskArrives(i) PROVE ReqInv'
  BY <1>12 DEF AskArrives
<1>13. ASSUME NEW i \in Ask, AskFails(i) PROVE ReqInv'
  BY <1>13 DEF AskFails
<1>14. CASE UNCHANGED vars
  BY <1>14 DEF vars
<1>15. QED
  BY <1>1, <1>2, <1>3, <1>4, <1>5, <1>6, <1>7, <1>8, <1>9, <1>10, <1>11, <1>12, <1>13, <1>14 DEF Next, HealthSettles, SwitchSettles, AskSettles

(* What is on its way is what the server has. *)
LEMMA HealthStep ==
  ASSUME PInv, [Next]_vars
  PROVE  HealthInv'
<1> USE IdleFacts DEF PInv, ReqInv, HealthInv, SwitchInv, TypeOK, server, page, requests
<1>1. CASE Type
  BY <1>1 DEF Type
<1>2. ASSUME NEW b \in Backend, SwitchBackend(b) PROVE HealthInv'
  BY <1>2, SwitchCases DEF SwitchBackend
<1>3. CASE HandleHealth
  BY <1>3 DEF HandleHealth
<1>4. CASE HandleSwitch
  BY <1>4 DEF HandleSwitch
<1>5. CASE Elsewhere
  BY <1>5 DEF Elsewhere
<1>6. CASE HealthArrives
  BY <1>6 DEF HealthArrives
<1>7. CASE HealthFails
  BY <1>7 DEF HealthFails
<1>8. CASE SwitchArrives
  BY <1>8 DEF SwitchArrives
<1>9. CASE SwitchFails
  BY <1>9 DEF SwitchFails
<1>10. ASSUME NEW i \in Ask, DoAction(i) PROVE HealthInv'
  BY <1>10 DEF DoAction
<1>11. ASSUME NEW i \in Ask, HandleAsk(i) PROVE HealthInv'
  BY <1>11 DEF HandleAsk
<1>12. ASSUME NEW i \in Ask, AskArrives(i) PROVE HealthInv'
  BY <1>12 DEF AskArrives
<1>13. ASSUME NEW i \in Ask, AskFails(i) PROVE HealthInv'
  BY <1>13 DEF AskFails
<1>14. CASE UNCHANGED vars
  BY <1>14 DEF vars
<1>15. QED
  BY <1>1, <1>2, <1>3, <1>4, <1>5, <1>6, <1>7, <1>8, <1>9, <1>10, <1>11, <1>12, <1>13, <1>14 DEF Next, HealthSettles, SwitchSettles, AskSettles

(* Questions are questions, wherever they are. *)
LEMMA AskStep ==
  ASSUME PInv, [Next]_vars
  PROVE  AskInv'
<1> USE IdleFacts DEF PInv, ReqInv, AskInv, server, page, requests
<1>1. CASE Type
  BY <1>1 DEF Type
<1>2. ASSUME NEW b \in Backend, SwitchBackend(b) PROVE AskInv'
  BY <1>2, SwitchCases DEF SwitchBackend
<1>3. CASE HandleHealth
  BY <1>3 DEF HandleHealth
<1>4. CASE HandleSwitch
  BY <1>4 DEF HandleSwitch
<1>5. CASE Elsewhere
  BY <1>5 DEF Elsewhere
<1>6. CASE HealthArrives
  BY <1>6 DEF HealthArrives
<1>7. CASE HealthFails
  BY <1>7 DEF HealthFails
<1>8. CASE SwitchArrives
  BY <1>8 DEF SwitchArrives
<1>9. CASE SwitchFails
  BY <1>9 DEF SwitchFails
<1>10. ASSUME NEW i \in Ask, DoAction(i) PROVE AskInv'
  <2>1. ASSUME NEW j \in Ask, j # i
        PROVE  ask'[j] = ask[j]
    BY <1>10, <2>1 DEF DoAction
  <2>2. ask'[i] = Sent(input, NoBackend)
    BY <1>10 DEF DoAction
  <2>3. ASSUME NEW j \in Ask
        PROVE  /\ ask'[j].st \in {"sent", "answered"} => ask'[j].q \in Question
               /\ ask'[j].st = "answered" => ask'[j].b \in Backend
    <3>1. CASE j = i
      <4>0. input \in Question /\ active \in Backend
        BY DEF TypeOK
      <4>1. ask[i] \in Req
        OBVIOUS
      <4>2. /\ ask'[i].st \in {"sent", "answered"} => ask'[i].q \in Question
            /\ ask'[i].st = "answered" => ask'[i].b \in Backend
        BY <1>10, <2>2, <4>1, <4>0 DEF DoAction
      <4>3. QED
        BY <3>1, <4>2
    <3>2. CASE j # i
      BY <2>1, <3>2
    <3>3. QED
      BY <3>1, <3>2
  <2>4. QED
    BY <2>3
<1>11. ASSUME NEW i \in Ask, HandleAsk(i) PROVE AskInv'
  <2>1. ASSUME NEW j \in Ask, j # i
        PROVE  ask'[j] = ask[j]
    BY <1>11, <2>1 DEF HandleAsk
  <2>2. ask'[i] = Answered(ask[i], active)
    BY <1>11 DEF HandleAsk
  <2>3. ASSUME NEW j \in Ask
        PROVE  /\ ask'[j].st \in {"sent", "answered"} => ask'[j].q \in Question
               /\ ask'[j].st = "answered" => ask'[j].b \in Backend
    <3>1. CASE j = i
      <4>0. input \in Question /\ active \in Backend
        BY DEF TypeOK
      <4>1. ask[i] \in Req
        OBVIOUS
      <4>2. /\ ask'[i].st \in {"sent", "answered"} => ask'[i].q \in Question
            /\ ask'[i].st = "answered" => ask'[i].b \in Backend
        BY <1>11, <2>2, <4>1, <4>0 DEF HandleAsk
      <4>3. QED
        BY <3>1, <4>2
    <3>2. CASE j # i
      BY <2>1, <3>2
    <3>3. QED
      BY <3>1, <3>2
  <2>4. QED
    BY <2>3
<1>12. ASSUME NEW i \in Ask, AskArrives(i) PROVE AskInv'
  <2>1. ASSUME NEW j \in Ask, j # i
        PROVE  ask'[j] = ask[j]
    BY <1>12, <2>1 DEF AskArrives
  <2>2. ask'[i] = Idle
    BY <1>12 DEF AskArrives
  <2>3. ASSUME NEW j \in Ask
        PROVE  /\ ask'[j].st \in {"sent", "answered"} => ask'[j].q \in Question
               /\ ask'[j].st = "answered" => ask'[j].b \in Backend
    <3>1. CASE j = i
      <4>0. input \in Question /\ active \in Backend
        BY DEF TypeOK
      <4>1. ask[i] \in Req
        OBVIOUS
      <4>2. /\ ask'[i].st \in {"sent", "answered"} => ask'[i].q \in Question
            /\ ask'[i].st = "answered" => ask'[i].b \in Backend
        BY <1>12, <2>2, <4>1, <4>0 DEF AskArrives
      <4>3. QED
        BY <3>1, <4>2
    <3>2. CASE j # i
      BY <2>1, <3>2
    <3>3. QED
      BY <3>1, <3>2
  <2>4. QED
    BY <2>3
<1>13. ASSUME NEW i \in Ask, AskFails(i) PROVE AskInv'
  <2>1. ASSUME NEW j \in Ask, j # i
        PROVE  ask'[j] = ask[j]
    BY <1>13, <2>1 DEF AskFails
  <2>2. ask'[i] = Idle
    BY <1>13 DEF AskFails
  <2>3. ASSUME NEW j \in Ask
        PROVE  /\ ask'[j].st \in {"sent", "answered"} => ask'[j].q \in Question
               /\ ask'[j].st = "answered" => ask'[j].b \in Backend
    <3>1. CASE j = i
      <4>0. input \in Question /\ active \in Backend
        BY DEF TypeOK
      <4>1. ask[i] \in Req
        OBVIOUS
      <4>2. /\ ask'[i].st \in {"sent", "answered"} => ask'[i].q \in Question
            /\ ask'[i].st = "answered" => ask'[i].b \in Backend
        BY <1>13, <2>2, <4>1, <4>0 DEF AskFails
      <4>3. QED
        BY <3>1, <4>2
    <3>2. CASE j # i
      BY <2>1, <3>2
    <3>3. QED
      BY <3>1, <3>2
  <2>4. QED
    BY <2>3
<1>14. CASE UNCHANGED vars
  BY <1>14 DEF vars
<1>15. QED
  BY <1>1, <1>2, <1>3, <1>4, <1>5, <1>6, <1>7, <1>8, <1>9, <1>10, <1>11, <1>12, <1>13, <1>14 DEF Next, HealthSettles, SwitchSettles, AskSettles

(* One switch at a time, and who knows what meanwhile. *)
LEMMA SwitchStep ==
  ASSUME PInv, [Next]_vars
  PROVE  SwitchInv'
<1> USE IdleFacts DEF PInv, ReqInv, HealthInv, SwitchInv, TypeOK, KnowsBackend, server, page, requests
<1>1. CASE Type
  BY <1>1 DEF Type
<1>2. ASSUME NEW b \in Backend, SwitchBackend(b) PROVE SwitchInv'
  <2>1. switch = Idle
    BY <1>2, SwitchCases
  <2>2. CASE switch' = switch
    BY <1>2, <2>1, <2>2, SwitchCases DEF SwitchBackend
  <2>3. CASE switch' = Sent(NoBackend, b)
    <3>1. switch'.st = "sent" /\ switch'.b = b /\ switch' # Idle
      BY <2>3 DEF Sent, Idle
    <3>2. /\ switchable /\ b \in loaded
          /\ select' = [value |-> b, disabled |-> TRUE]
      BY <1>2, <2>1, <2>3, <3>1, SwitchCases
    <3>3. QED
      BY <1>2, <2>1, <2>3, <3>1, <3>2 DEF SwitchBackend
  <2>4. QED
    BY <1>2, <2>2, <2>3, SwitchCases
<1>3. CASE HandleHealth
  BY <1>3 DEF HandleHealth
<1>4. CASE HandleSwitch
  <2>0. switch.b \in Backend \cup {NoBackend}
    BY DEF Req
  <2>1. switch'.st = "answered" /\ switch'.b = switch.b /\ switch' # Idle
    <3> HIDE DEF SwitchInv, HealthInv, KnowsBackend, TypeOK
    <3>1. switch \in Req /\ switch' = Answered(switch, switch.b)
      BY <1>4 DEF HandleSwitch
    <3>2. Answered(switch, switch.b).st = "answered" /\ Answered(switch, switch.b).b = switch.b
      BY <2>0, <3>1
    <3>3. QED
      BY <3>1, <3>2
  <2>2. switch # Idle
    BY <1>4 DEF HandleSwitch
  <2>3. QED
    BY <1>4, <2>1, <2>2 DEF HandleSwitch
<1>5. CASE Elsewhere
  BY <1>5 DEF Elsewhere
<1>6. CASE HealthArrives
  BY <1>6 DEF HealthArrives
<1>7. CASE HealthFails
  BY <1>7 DEF HealthFails
<1>8. CASE SwitchArrives
  BY <1>8 DEF SwitchArrives
<1>9. CASE SwitchFails
  BY <1>9 DEF SwitchFails
<1>10. ASSUME NEW i \in Ask, DoAction(i) PROVE SwitchInv'
  BY <1>10 DEF DoAction
<1>11. ASSUME NEW i \in Ask, HandleAsk(i) PROVE SwitchInv'
  BY <1>11 DEF HandleAsk
<1>12. ASSUME NEW i \in Ask, AskArrives(i) PROVE SwitchInv'
  BY <1>12 DEF AskArrives
<1>13. ASSUME NEW i \in Ask, AskFails(i) PROVE SwitchInv'
  BY <1>13 DEF AskFails
<1>14. CASE UNCHANGED vars
  BY <1>14 DEF vars
<1>15. QED
  BY <1>1, <1>2, <1>3, <1>4, <1>5, <1>6, <1>7, <1>8, <1>9, <1>10, <1>11, <1>12, <1>13, <1>14 DEF Next, HealthSettles, SwitchSettles, AskSettles

(* Label and results change together. *)
LEMMA LabelStep ==
  ASSUME PInv, [Next]_vars
  PROVE  LabelIsShown'
<1> USE IdleFacts DEF PInv, LabelIsShown, Line, Results, server, page, requests
<1>1. CASE Type
  BY <1>1 DEF Type
<1>2. ASSUME NEW b \in Backend, SwitchBackend(b) PROVE LabelIsShown'
  BY <1>2 DEF SwitchBackend
<1>3. CASE HandleHealth
  BY <1>3 DEF HandleHealth
<1>4. CASE HandleSwitch
  BY <1>4 DEF HandleSwitch
<1>5. CASE Elsewhere
  BY <1>5 DEF Elsewhere
<1>6. CASE HealthArrives
  BY <1>6 DEF HealthArrives
<1>7. CASE HealthFails
  BY <1>7 DEF HealthFails
<1>8. CASE SwitchArrives
  BY <1>8 DEF SwitchArrives
<1>9. CASE SwitchFails
  BY <1>9 DEF SwitchFails
<1>10. ASSUME NEW i \in Ask, DoAction(i) PROVE LabelIsShown'
  BY <1>10 DEF DoAction
<1>11. ASSUME NEW i \in Ask, HandleAsk(i) PROVE LabelIsShown'
  BY <1>11 DEF HandleAsk
<1>12. ASSUME NEW i \in Ask, AskArrives(i) PROVE LabelIsShown'
  BY <1>12 DEF AskArrives
<1>13. ASSUME NEW i \in Ask, AskFails(i) PROVE LabelIsShown'
  BY <1>13 DEF AskFails
<1>14. CASE UNCHANGED vars
  BY <1>14 DEF vars
<1>15. QED
  BY <1>1, <1>2, <1>3, <1>4, <1>5, <1>6, <1>7, <1>8, <1>9, <1>10, <1>11, <1>12, <1>13, <1>14 DEF Next, HealthSettles, SwitchSettles, AskSettles

(* The drop-down follows what the page knows. *)
LEMMA KnowsStep ==
  ASSUME PInv, [Next]_vars
  PROVE  KnowsBackend'
<1> USE IdleFacts DEF PInv, ReqInv, HealthInv, SwitchInv, TypeOK, KnowsBackend, server, page, requests
<1>1. CASE Type
  BY <1>1 DEF Type
<1>2. ASSUME NEW b \in Backend, SwitchBackend(b) PROVE KnowsBackend'
  <2>1. switch = Idle
    BY <1>2, SwitchCases
  <2>2. CASE switch' = switch
    BY <1>2, <2>1, <2>2, SwitchCases DEF SwitchBackend
  <2>3. CASE switch' = Sent(NoBackend, b)
    <3>1. switch'.st = "sent" /\ switch'.b = b /\ switch' # Idle
      BY <2>3 DEF Sent, Idle
    <3>2. /\ switchable /\ b \in loaded
          /\ select' = [value |-> b, disabled |-> TRUE]
      BY <1>2, <2>1, <2>3, <3>1, SwitchCases
    <3>3. QED
      BY <1>2, <2>1, <2>3, <3>1, <3>2 DEF SwitchBackend
  <2>4. QED
    BY <1>2, <2>2, <2>3, SwitchCases
<1>3. CASE HandleHealth
  BY <1>3 DEF HandleHealth
<1>4. CASE HandleSwitch
  BY <1>4 DEF HandleSwitch
<1>5. CASE Elsewhere
  BY <1>5 DEF Elsewhere
<1>6. CASE HealthArrives
  BY <1>6 DEF HealthArrives
<1>7. CASE HealthFails
  BY <1>7 DEF HealthFails
<1>8. CASE SwitchArrives
  BY <1>8 DEF SwitchArrives
<1>9. CASE SwitchFails
  BY <1>9 DEF SwitchFails
<1>10. ASSUME NEW i \in Ask, DoAction(i) PROVE KnowsBackend'
  BY <1>10 DEF DoAction
<1>11. ASSUME NEW i \in Ask, HandleAsk(i) PROVE KnowsBackend'
  BY <1>11 DEF HandleAsk
<1>12. ASSUME NEW i \in Ask, AskArrives(i) PROVE KnowsBackend'
  BY <1>12 DEF AskArrives
<1>13. ASSUME NEW i \in Ask, AskFails(i) PROVE KnowsBackend'
  BY <1>13 DEF AskFails
<1>14. CASE UNCHANGED vars
  BY <1>14 DEF vars
<1>15. QED
  BY <1>1, <1>2, <1>3, <1>4, <1>5, <1>6, <1>7, <1>8, <1>9, <1>10, <1>11, <1>12, <1>13, <1>14 DEF Next, HealthSettles, SwitchSettles, AskSettles

(* The two halves of the type invariant. *)
LEMMA TypeParts == TypeOK <=> PlainTypes /\ \A r \in {health, switch} \cup {ask[i] : i \in Ask} :
       /\ r.st \in {"idle", "sent", "answered"}
       /\ r.q \in Question \cup {NoBackend}
       /\ r.b \in Backend \cup {NoBackend}
  BY DEF TypeOK, PlainTypes

(* What the page may say and show. *)
LEMMA LineFacts ==
  /\ Line("text") \in Says /\ Line("spinner") \in Says /\ Line("failed") \in Shows
  /\ \A q \in Question, b \in Backend : Results(q, b) \in Says /\ Results(q, b) \in Shows
  BY DEF Says, Shows

(* Everything else keeps its type. *)
LEMMA PlainStep ==
  ASSUME PInv, [Next]_vars
  PROVE  PlainTypes'
<1> USE TypeParts DEF PInv, ReqInv, HealthInv, SwitchInv, AskInv, PlainTypes, server, page, requests
<1>1. CASE Type
  BY <1>1 DEF Type
<1>2. ASSUME NEW b \in Backend, SwitchBackend(b) PROVE PlainTypes'
  <2>1. status' \in Says
    BY <1>2, LineFacts, SwitchCases DEF SwitchBackend
  <2>2. select' \in [value : Backend, disabled : BOOLEAN]
    <3>1. select.disabled \in BOOLEAN
      OBVIOUS
    <3>2. PICK x \in BOOLEAN : select' = [value |-> b, disabled |-> x]
      BY <1>2, <3>1, SwitchCases
    <3>3. QED
      BY <3>2
  <2>3. QED
    BY <1>2, <2>1, <2>2 DEF SwitchBackend
<1>3. CASE HandleHealth
  BY <1>3 DEF HandleHealth
<1>4. CASE HandleSwitch
  BY <1>4, IdleFacts DEF HandleSwitch
<1>5. CASE Elsewhere
  BY <1>5 DEF Elsewhere
<1>6. CASE HealthArrives
  BY <1>6 DEF HealthArrives
<1>7. CASE HealthFails
  BY <1>7 DEF HealthFails
<1>8. CASE SwitchArrives
  <2>1. switch.b \in loaded
    BY <1>8, IdleFacts DEF SwitchArrives
  <2>2. QED
    BY <1>8, <2>1, LineFacts DEF SwitchArrives
<1>9. CASE SwitchFails
  BY <1>9, LineFacts DEF SwitchFails
<1>10. ASSUME NEW i \in Ask, DoAction(i) PROVE PlainTypes'
  BY <1>10, LineFacts DEF DoAction
<1>11. ASSUME NEW i \in Ask, HandleAsk(i) PROVE PlainTypes'
  BY <1>11 DEF HandleAsk
<1>12. ASSUME NEW i \in Ask, AskArrives(i) PROVE PlainTypes'
  <2>1. ask[i].q \in Question /\ ask[i].b \in Backend
    BY <1>12 DEF AskArrives
  <2>2. status' \in Says /\ shown' \in Shows
    BY <1>12, <2>1, LineFacts DEF AskArrives
  <2>3. QED
    BY <1>12, <2>2 DEF AskArrives
<1>13. ASSUME NEW i \in Ask, AskFails(i) PROVE PlainTypes'
  BY <1>13, LineFacts DEF AskFails
<1>14. CASE UNCHANGED vars
  BY <1>14 DEF vars
<1>15. QED
  BY <1>1, <1>2, <1>3, <1>4, <1>5, <1>6, <1>7, <1>8, <1>9, <1>10, <1>11, <1>12, <1>13, <1>14 DEF Next, HealthSettles, SwitchSettles, AskSettles

(* The invariant holds at first, and every step keeps it. *)
LEMMA PInvInit == Init => PInv
<1> SUFFICES ASSUME Init PROVE PInv
  OBVIOUS
<1>1. /\ health = Sent(NoBackend, NoBackend) /\ health.st = "sent" /\ health \in Req
      /\ switch = Idle /\ switch.st = "idle"
      /\ \A i \in Ask : ask[i] = Idle /\ ask[i].st = "idle"
  <2>1. health = Sent(NoBackend, NoBackend) /\ switch = Idle /\ ask = [i \in Ask |-> Idle]
    BY DEF Init
  <2>2. Sent(NoBackend, NoBackend) \in Req /\ Sent(NoBackend, NoBackend).st = "sent"
    BY IdleFacts
  <2>3. QED
    BY <2>1, <2>2, IdleFacts
<1>2. ReqInv
  BY <1>1, IdleFacts DEF Init, ReqInv
<1>3. HealthInv /\ AskInv /\ SwitchInv
  BY <1>1 DEF Init, HealthInv, AskInv, SwitchInv
<1>4. PlainTypes
  <2>1. status \in Says /\ shown \in Shows
    BY DEF Init, Says, Shows
  <2>2. select \in [value : Backend, disabled : BOOLEAN]
    BY DEF Init
  <2>3. QED
    BY <2>1, <2>2 DEF Init, PlainTypes
<1>5. TypeOK
  BY <1>2, <1>4, TypeParts DEF ReqInv, Req
<1>6. LabelIsShown /\ KnowsBackend
  BY DEF Init, LabelIsShown, KnowsBackend, Line
<1>7. QED
  BY <1>2, <1>3, <1>5, <1>6 DEF PInv

LEMMA PInvStep == PInv /\ [Next]_vars => PInv'
<1> SUFFICES ASSUME PInv, [Next]_vars PROVE PInv'
  OBVIOUS
<1>1. TypeOK'
  <2>1. \A r \in {health', switch'} \cup {ask'[i] : i \in Ask} :
          /\ r.st \in {"idle", "sent", "answered"}
          /\ r.q \in Question \cup {NoBackend}
          /\ r.b \in Backend \cup {NoBackend}
    BY ReqStep DEF ReqInv, Req
  <2>2. QED
    BY <2>1, PlainStep DEF TypeOK, PlainTypes
<1>2. QED
  BY <1>1, ReqStep, HealthStep, AskStep, SwitchStep, LabelStep, KnowsStep DEF PInv

(* The page's inductive invariant holds in every reachable state.            *)
THEOREM PageInvariance == Spec => []PInv
<1>1. Init => PInv
  BY PInvInit
<1>2. PInv /\ [Next]_vars => PInv'
  BY PInvStep
<1>3. QED
  BY <1>1, <1>2, PTL DEF Spec

(* Requests and what the page shows are always of their types.               *)
THEOREM PageTypeCorrect == Spec => []TypeOK
  BY PageInvariance, PTL DEF PInv

(* The status line never names a question or a backend that the results below *)
(* it do not come from, for any number of questions under way.               *)
THEOREM LabelIsShownAlways == Spec => []LabelIsShown
  BY PageInvariance, PTL DEF PInv

(* With no switch under way the page knows the active backend, unless another *)
(* page or a lost answer came in between.                                    *)
THEOREM KnowsBackendAlways == Spec => []KnowsBackend
  BY PageInvariance, PTL DEF PInv
=============================================================================
