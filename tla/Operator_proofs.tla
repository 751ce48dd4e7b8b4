--------------------------- MODULE Operator_proofs ---------------------------
(***************************************************************************)
(* Theorems about what lies between an operator and a run: the panel and   *)
(* the answers (Panel), for any number of panels, callers, questions and   *)
(* events; the index and the watchers (Control), for any number of servers *)
(* and commands; and one end of the pipe that carries a connection on      *)
(* Windows (NamedPipe), for any number of deadline moves.                  *)
(*                                                                         *)
(* The three modules share no variable: each specification is proved about *)
(* by itself.                                                              *)
(***************************************************************************)
EXTENDS Panel, Control, NamedPipe, FiniteSetTheorems, TLAPS

-----------------------------------------------------------------------------
(* Panel: types *)

(* What the server shows of a run is a view.                               *)
LEMMA ReportedType ==
    ASSUME PanelTypeOK
    PROVE  Reported \in View /\ Nothing \in View
<1>1. 0 \in 0..MaxQuestions  BY PanelAssumption
<1> QED BY <1>1 DEF PanelTypeOK, Reported, Nothing, View

(* What a panel composes is a request.                                     *)
LEMMA ComposedType ==
    ASSUME PanelTypeOK, NEW w \in Watch, NEW read \in 0..MaxQuestions
    PROVE  Composed(w, read) \in Request
<1>1. view[w] \in View /\ 0 \in 0..MaxQuestions  BY PanelAssumption DEF PanelTypeOK
<1> QED BY <1>1 DEF Composed, Request, View

(* The types of what a request can change.                                 *)
RunType ==
    /\ state \in {"running", "needs_input", "superseded", "ended", "pruned"}
    /\ pending \in 0..MaxQuestions /\ last \in 0..MaxQuestions
    /\ pending # 0 => state = "running" /\ pending = last
    /\ landed \subseteq Request

(* A request that reaches the server keeps them.                           *)
LEMMA DispatchType ==
    ASSUME RunType, NEW m \in Request, Dispatch(m)
    PROVE  RunType'
<1>1. /\ m.verb \in {"answer", "continue"} /\ m.q \in 0..MaxQuestions
      /\ m.read \in 0..MaxQuestions /\ 0 \in 0..MaxQuestions
  BY PanelAssumption DEF Request
<1>2. CASE Refused  BY <1>2 DEF RunType, Refused, runVars
<1>3. CASE m.verb = "answer" /\ pending' = 0 /\ Land(m, pending) /\ UNCHANGED <<state, last>>
  <2>1. [m EXCEPT !.q = pending] \in Request  BY <1>1 DEF RunType, Request
  <2> QED BY <1>1, <1>3, <2>1 DEF RunType, Land
<1>4. CASE /\ m.verb = "continue" /\ state = "needs_input" /\ state' = "superseded"
           /\ Land(m, last) /\ UNCHANGED <<pending, last>>
  <2>1. [m EXCEPT !.q = last] \in Request  BY <1>1 DEF RunType, Request
  <2> QED BY <1>1, <1>4, <2>1 DEF RunType, Land
<1> QED BY <1>1, <1>2, <1>3, <1>4 DEF Dispatch, Answered, Continued

(* The types of the rest.                                                  *)
RestType ==
    /\ written \in 0..MaxEvents
    /\ tick \in [Watch -> {"off", "idle", "sized", "fed", "quit"}]
    /\ view \in [Watch -> View] /\ draft \in [Watch -> View]
    /\ typing \in [Watch -> BOOLEAN] /\ broken \in [Watch -> BOOLEAN]
    /\ offset \in [Watch -> 0..MaxEvents] /\ size \in [Watch -> 0..MaxEvents]
    /\ feed \in [Watch -> [Event -> Nat]]
    /\ cli \in [Cli -> {"idle", "typed", "looked", "done"}]
    /\ heard \in [Cli -> 0..MaxQuestions]
    /\ request \in [Cli -> Request]
    /\ late \subseteq Request

(* Both together.                                                          *)
LEMMA PanelTypes == PanelTypeOK <=> RunType /\ RestType
BY DEF PanelTypeOK, RunType, RestType

(* An answer that is sent keeps the types, whichever way it goes.          *)
LEMMA SendType ==
    ASSUME PanelTypeOK, NEW w \in Watch, NEW read \in 0..MaxQuestions, SendAnswer(w, read)
    PROVE  PanelTypeOK'
<1>1. RunType /\ RestType  BY PanelTypes
<1>2. Composed(w, read) \in Request  BY ComposedType
<1>3. RunType'
  <2>1. CASE Dispatch(Composed(w, read))  BY <1>1, <1>2, <2>1, DispatchType
  <2>2. CASE UNCHANGED <<runVars, landed>>  BY <1>1, <2>2 DEF RunType, runVars
  <2> QED BY <2>1, <2>2 DEF SendAnswer
<1>4. RestType'
  <2>1. late' \subseteq Request  BY <1>1, <1>2 DEF SendAnswer, RestType
  <2>2. broken' \in [Watch -> BOOLEAN]  BY <1>1 DEF SendAnswer, RestType
  <2>3. view' \in [Watch -> View] /\ draft' \in [Watch -> View] /\ typing' \in [Watch -> BOOLEAN]
    BY <1>1, ReportedType DEF SendAnswer, RestType
  <2> QED BY <1>1, <2>1, <2>2, <2>3 DEF SendAnswer, RestType, feedVars, cliVars
<1> QED BY <1>3, <1>4 DEF PanelTypeOK, RunType, RestType

(* A panel's steps keep the types.                                         *)
LEMMA WatchType ==
    ASSUME PanelTypeOK, NEW w \in Watch, Open(w) \/ Tick(w) \/ Keys(w)
    PROVE  PanelTypeOK'
<1> USE DEF runVars, screenVars, feedVars, cliVars, wireVars
<1>1. view[w] \in View /\ draft[w] \in View  BY DEF PanelTypeOK
<1>2. CASE Open(w) \/ PollFails(w) \/ Quit(w)
  BY <1>2 DEF Open, PollFails, Quit, PanelTypeOK
<1>3. CASE PollSize(w)
  <2>1. size' \in [Watch -> 0..MaxEvents]  BY <1>3 DEF PollSize, PanelTypeOK
  <2>2. tick' \in [Watch -> {"off", "idle", "sized", "fed", "quit"}]
    BY <1>3 DEF PollSize, PanelTypeOK
  <2> QED BY <1>3, <2>1, <2>2 DEF PollSize, PanelTypeOK
<1>4. CASE PollFeed(w)
  <2>1. [e \in Event |-> IF offset[w] < e /\ e <= written THEN feed[w][e] + 1 ELSE feed[w][e]]
            \in [Event -> Nat]
    BY DEF PanelTypeOK
  <2>2. feed' = [feed EXCEPT ![w] = [e \in Event |->
                    IF offset[w] < e /\ e <= written THEN feed[w][e] + 1 ELSE feed[w][e]]]
    BY <1>4 DEF PollFeed
  <2>3. feed' \in [Watch -> [Event -> Nat]]  BY <2>1, <2>2 DEF PanelTypeOK
  <2>4. offset' \in [Watch -> 0..MaxEvents]  BY <1>4 DEF PollFeed, PanelTypeOK
  <2> QED BY <1>4, <2>3, <2>4 DEF PollFeed, PanelTypeOK
<1>5. CASE PollQuestion(w)
  <2>1. view' \in [Watch -> View] /\ draft' \in [Watch -> View]
    BY <1>1, <1>5, ReportedType DEF PollQuestion, Refreshed, PanelTypeOK
  <2>2. typing' \in [Watch -> BOOLEAN]
    <3>1. \A b \in BOOLEAN : \A c : (b /\ c) \in BOOLEAN  OBVIOUS
    <3> QED BY <1>5, <3>1 DEF PollQuestion, Refreshed, PanelTypeOK
  <2> QED BY <1>5, <2>1, <2>2 DEF PollQuestion, Refreshed, PanelTypeOK
<1>6. CASE BeginTyping(w) \/ TypeText(w) \/ EraseText(w)
  <2>1. draft' \in [Watch -> View]
    BY <1>1, <1>6, ReportedType DEF BeginTyping, TypeText, EraseText, PanelTypeOK
  <2>2. typing' \in [Watch -> BOOLEAN]
    BY <1>6 DEF BeginTyping, TypeText, EraseText, PanelTypeOK
  <2> QED BY <1>6, <2>1, <2>2 DEF BeginTyping, TypeText, EraseText, PanelTypeOK
<1>7. CASE SendTyped(w) \/ SendChoice(w)
  <2>1. view[w].q \in 0..MaxQuestions /\ draft[w].q \in 0..MaxQuestions  BY <1>1 DEF View
  <2> QED BY <1>7, <2>1, SendType DEF SendTyped, SendChoice
<1> QED BY <1>2, <1>3, <1>4, <1>5, <1>6, <1>7 DEF Tick, Keys

(* And so does every other step.                                           *)
LEMMA PanelNextType == PanelTypeOK /\ [PanelNext]_panelVars => PanelTypeOK'
<1> SUFFICES ASSUME PanelTypeOK, [PanelNext]_panelVars PROVE PanelTypeOK'  OBVIOUS
<1> USE DEF runVars, screenVars, feedVars, cliVars, wireVars
<1>1. CASE RunStep
  <2>1. CASE Ask
    <3>1. last + 1 \in 0..MaxQuestions /\ last + 1 # 0
      BY <2>1, PanelAssumption DEF Ask, PanelTypeOK
    <3> QED BY <2>1, <3>1 DEF Ask, PanelTypeOK
  <2>2. CASE DenyQuestion \/ NeedsInput \/ End
    BY <2>2, PanelAssumption DEF DenyQuestion, NeedsInput, End, PanelTypeOK
  <2>3. CASE Prune  BY <2>3 DEF Prune, PanelTypeOK
  <2>4. CASE Append  BY <2>4, PanelAssumption DEF Append, PanelTypeOK
  <2> QED BY <1>1, <2>1, <2>2, <2>3, <2>4 DEF RunStep
<1>2. CASE ServeLate
  <2>1. PICK m \in late : Dispatch(m) /\ late' = late \ {m}  BY <1>2 DEF ServeLate
  <2>2. RunType /\ RestType /\ m \in Request  BY PanelTypes DEF PanelTypeOK
  <2>3. RunType'  BY <2>1, <2>2, DispatchType
  <2>4. RestType'  BY <1>2, <2>1, <2>2 DEF ServeLate, RestType
  <2> QED BY <2>3, <2>4 DEF PanelTypeOK, RunType, RestType
<1>3. ASSUME NEW c \in Cli, TypeCommand(c) \/ LookUp(c)  PROVE PanelTypeOK'
  <2>1. \A m \in {"answer", "continue"} : \A q, read, found \in 0..MaxQuestions :
            [verb |-> m, q |-> q, read |-> read, found |-> found] \in Request
    BY DEF Request
  <2>2. /\ last \in 0..MaxQuestions /\ pending \in 0..MaxQuestions /\ 0 \in 0..MaxQuestions
        /\ heard[c] \in 0..MaxQuestions /\ Reported.q \in 0..MaxQuestions
    BY PanelAssumption, ReportedType DEF PanelTypeOK, View
  <2> HIDE DEF Reported
  <2>3. request' \in [Cli -> Request]
    BY <1>3, <2>1, <2>2 DEF TypeCommand, LookUp, PanelTypeOK
  <2>4. /\ cli' \in [Cli -> {"idle", "typed", "looked", "done"}]
        /\ heard' \in [Cli -> 0..MaxQuestions]
    BY <1>3, <2>2 DEF TypeCommand, LookUp, PanelTypeOK
  <2> QED BY <1>3, <2>3, <2>4 DEF TypeCommand, LookUp, PanelTypeOK
<1>4. ASSUME NEW c \in Cli, AnswerRun(c)  PROVE PanelTypeOK'
  <2>1. RunType /\ RestType /\ request[c] \in Request  BY PanelTypes DEF PanelTypeOK
  <2>2. RunType'
    <3>1. CASE Dispatch(request[c])  BY <2>1, <3>1, DispatchType
    <3>2. CASE UNCHANGED <<runVars, landed>>  BY <2>1, <3>2 DEF RunType
    <3> QED BY <1>4, <3>1, <3>2 DEF AnswerRun
  <2>3. NoRequest \in Request /\ 0 \in 0..MaxQuestions
    BY PanelAssumption DEF NoRequest, Request
  <2>4. RestType'  BY <1>4, <2>1, <2>3 DEF AnswerRun, RestType
  <2> QED BY <2>2, <2>4 DEF PanelTypeOK, RunType, RestType
<1>5. CASE UNCHANGED panelVars  BY <1>5 DEF panelVars, PanelTypeOK
<1> QED BY <1>1, <1>2, <1>3, <1>4, <1>5, WatchType DEF PanelNext

(* Every variable keeps to its type; and a question is pending only for a  *)
(* run that works, and is the last it was asked.                           *)
THEOREM PanelTypeCorrect == PanelSpec => []PanelTypeOK
<1>1. PanelInit => PanelTypeOK
  <2> SUFFICES ASSUME PanelInit PROVE PanelTypeOK  OBVIOUS
  <2>1. 0 \in 0..MaxQuestions /\ 0 \in 0..MaxEvents /\ 0 \in Nat  BY PanelAssumption
  <2>2. Nothing \in View /\ NoRequest \in Request
    BY <2>1 DEF Nothing, View, NoRequest, Request
  <2> QED BY <2>1, <2>2 DEF PanelInit, PanelTypeOK
<1> QED BY <1>1, PanelNextType, PTL DEF PanelSpec

-----------------------------------------------------------------------------
(* Panel: answers *)

(* What a request was composed for, or found: the question it names, or    *)
(* the last one of a run at rest or over.  Without a text it lands nowhere.*)
Faithful(m) ==
    /\ m.verb = "answer" => m.read \in {0, m.q} \/ (m.q # 0 /\ m.found = m.q)
    /\ m.verb = "continue" /\ m.read # 0 => state # "running" /\ last \in {m.read, m.found}

RequestInv ==
    /\ \A m \in late : Faithful(m)
    /\ \A c \in Cli : Faithful(request[c])

(* A panel that shows a run at rest shows its last question, and a text    *)
(* that has been begun was begun for the question on screen.               *)
ScreenInv ==
    \A w \in Watch :
        /\ view[w].resting => state # "running" /\ view[w].q = last
        /\ draft[w].q \in {0, view[w].q}

AnswerInv == RequestInv /\ ScreenInv /\ AnswersWhatWasRead

(* A run that has come to rest asks nothing more.                          *)
StaysAtRest == state # "running" => state' # "running" /\ last' = last

(* An honest request is still honest when the run has gone on, ...         *)
LEMMA FaithfulKept ==
    ASSUME StaysAtRest, NEW m, Faithful(m)
    PROVE  Faithful(m)'
BY DEF StaysAtRest, Faithful

(* ... and what it lands on is what its sender had read or found.          *)
LEMMA DispatchLands ==
    ASSUME RunType, AnswersWhatWasRead, NEW m \in Request, Faithful(m), Dispatch(m)
    PROVE  AnswersWhatWasRead' /\ StaysAtRest
<1>1. CASE Refused  BY <1>1 DEF Refused, runVars, AnswersWhatWasRead, StaysAtRest
<1>2. CASE /\ m.verb = "answer" /\ m.read # 0 /\ Matches(m.q)
           /\ Land(m, pending) /\ UNCHANGED <<state, last>>
  <2>1. pending \in {m.read, m.found}
    BY <1>2 DEF Faithful, Matches
  <2>2. \A a \in landed' : a \in landed \/ a.q \in {a.read, a.found}
    BY <1>2, <2>1 DEF Land, Request
  <2> QED BY <1>2, <2>2 DEF AnswersWhatWasRead, StaysAtRest
<1>3. CASE /\ m.verb = "continue" /\ m.read # 0 /\ state = "needs_input" /\ state' = "superseded"
           /\ Land(m, last) /\ UNCHANGED <<pending, last>>
  <2>1. last \in {m.read, m.found}  BY <1>3 DEF Faithful
  <2>2. \A a \in landed' : a \in landed \/ a.q \in {a.read, a.found}
    BY <1>3, <2>1 DEF Land, Request
  <2> QED BY <1>3, <2>2 DEF AnswersWhatWasRead, StaysAtRest
<1>4. m.verb \in {"answer", "continue"}  BY DEF Request
<1> QED BY <1>1, <1>2, <1>3, <1>4 DEF Dispatch, Answered, Continued

(* What a panel composes from its screen is honest.                        *)
LEMMA ComposedFaithful ==
    ASSUME PanelTypeOK, ScreenInv, NEW w \in Watch, NEW read \in {0, view[w].q}
    PROVE  Faithful(Composed(w, read))
BY DEF ScreenInv, Composed, Faithful

(* A step that leaves requests and screens alone leaves them honest.       *)
LEMMA AnswerKept ==
    ASSUME AnswerInv, StaysAtRest, UNCHANGED <<view, draft, request, late, landed>>
    PROVE  AnswerInv'
<1>1. RequestInv'  BY FaithfulKept DEF AnswerInv, RequestInv
<1>2. ScreenInv'  BY DEF AnswerInv, ScreenInv, StaysAtRest
<1> QED BY <1>1, <1>2 DEF AnswerInv, AnswersWhatWasRead

(* A panel sends what its screen is about, and forgets it.                 *)
LEMMA SendLands ==
    ASSUME PanelTypeOK, AnswerInv, NEW w \in Watch, NEW read \in {0, view[w].q},
           SendAnswer(w, read)
    PROVE  AnswerInv'
<1>1. RunType /\ RestType /\ view[w] \in View  BY PanelTypes DEF PanelTypeOK
<1>2. read \in 0..MaxQuestions  BY <1>1, PanelAssumption DEF View
<1>3. Composed(w, read) \in Request /\ Faithful(Composed(w, read))
  BY <1>2, ComposedType, ComposedFaithful DEF AnswerInv
<1> PICK m \in Request : m = Composed(w, read)  BY <1>3
<1> Faithful(m)  BY <1>3
<1>4. AnswersWhatWasRead' /\ StaysAtRest
  <2>1. CASE Dispatch(m)  BY <1>1, <2>1, DispatchLands DEF AnswerInv
  <2>2. CASE UNCHANGED <<runVars, landed>>
    BY <2>2 DEF AnswerInv, AnswersWhatWasRead, StaysAtRest, runVars
  <2> QED BY <2>1, <2>2 DEF SendAnswer
<1>5. Faithful(m)'  BY <1>4, FaithfulKept
<1>6. RequestInv'
  <2>1. late' \subseteq late \cup {m} /\ request' = request
    BY DEF SendAnswer, cliVars
  <2>2. \A x \in late : Faithful(x)'  BY <1>4, FaithfulKept DEF AnswerInv, RequestInv
  <2>3. \A c \in Cli : Faithful(request[c])'
    BY <1>4, <2>1, FaithfulKept DEF AnswerInv, RequestInv
  <2> QED BY <1>5, <2>1, <2>2, <2>3 DEF RequestInv
<1>7. ScreenInv'
  <2>1. view' = [view EXCEPT ![w] = Nothing] /\ draft' = [draft EXCEPT ![w] = Nothing]
    BY DEF SendAnswer
  <2>2. view'[w] = Nothing /\ draft'[w] = Nothing  BY <1>1, <2>1 DEF RestType
  <2>3. \A v \in Watch : v # w => view'[v] = view[v] /\ draft'[v] = draft[v]
    BY <1>1, <2>1 DEF RestType
  <2> QED BY <1>4, <2>2, <2>3 DEF AnswerInv, ScreenInv, StaysAtRest, Nothing
<1> QED BY <1>4, <1>6, <1>7 DEF AnswerInv

(* Every step keeps all of it.                                             *)
LEMMA AnswerNext == PanelTypeOK /\ AnswerInv /\ [PanelNext]_panelVars => AnswerInv'
<1> SUFFICES ASSUME PanelTypeOK, AnswerInv, [PanelNext]_panelVars PROVE AnswerInv'  OBVIOUS
<1> USE DEF runVars, screenVars, feedVars, cliVars, wireVars
<1>1. RunType /\ RestType  BY PanelTypes
<1>2. CASE RunStep
  <2>1. StaysAtRest /\ UNCHANGED <<view, draft, request, late, landed>>
    BY <1>2 DEF RunStep, Ask, DenyQuestion, NeedsInput, End, Prune, Append, StaysAtRest
  <2> QED BY <2>1, AnswerKept
<1>3. CASE ServeLate
  <2>1. PICK m \in late : Dispatch(m) /\ late' = late \ {m}  BY <1>3 DEF ServeLate
  <2>2. m \in Request /\ Faithful(m)  BY <1>1 DEF RestType, AnswerInv, RequestInv
  <2>3. AnswersWhatWasRead' /\ StaysAtRest
    BY <1>1, <2>1, <2>2, DispatchLands DEF AnswerInv
  <2>4. UNCHANGED <<view, draft, request>>  BY <1>3 DEF ServeLate
  <2>5. RequestInv'
    BY <2>1, <2>3, <2>4, FaithfulKept DEF AnswerInv, RequestInv
  <2>6. ScreenInv'  BY <2>3, <2>4 DEF AnswerInv, ScreenInv, StaysAtRest
  <2> QED BY <2>3, <2>5, <2>6 DEF AnswerInv
<1>4. ASSUME NEW w \in Watch, Open(w) \/ PollSize(w) \/ PollFeed(w) \/ PollFails(w) \/ Quit(w)
      PROVE  AnswerInv'
  <2>1. StaysAtRest /\ UNCHANGED <<view, draft, request, late, landed>>
    BY <1>4 DEF Open, PollSize, PollFeed, PollFails, Quit, StaysAtRest
  <2> QED BY <2>1, AnswerKept
<1>5. ASSUME NEW w \in Watch, PollQuestion(w)  PROVE AnswerInv'
  <2>1. StaysAtRest /\ UNCHANGED <<request, late, landed, state, last>>
    BY <1>5 DEF PollQuestion, StaysAtRest
  <2>2. RequestInv' /\ AnswersWhatWasRead'
    BY <2>1, FaithfulKept DEF AnswerInv, RequestInv, AnswersWhatWasRead
  <2>3. view'[w] = Reported /\ draft'[w] \in {draft[w], Nothing}
        /\ (draft'[w] = draft[w] => view[w] = Reported \/ draft[w] = Nothing)
    BY <1>1, <1>5 DEF PollQuestion, Refreshed, RestType
  <2>4. \A v \in Watch : v # w => view'[v] = view[v] /\ draft'[v] = draft[v]
    BY <1>1, <1>5 DEF PollQuestion, Refreshed, RestType
  <2>5. Reported.resting => state # "running" /\ Reported.q = last  BY DEF Reported
  <2>6. draft[w].q \in {0, view[w].q} /\ Nothing.q = 0
    BY DEF AnswerInv, ScreenInv, Nothing
  <2>7. draft'[w].q \in {0, view'[w].q}  BY <2>3, <2>6
  <2> HIDE DEF Reported
  <2>8. ScreenInv'
    BY <2>1, <2>3, <2>4, <2>5, <2>7 DEF AnswerInv, ScreenInv
  <2> QED BY <2>2, <2>8 DEF AnswerInv
<1>6. ASSUME NEW w \in Watch, BeginTyping(w) \/ TypeText(w) \/ EraseText(w)  PROVE AnswerInv'
  <2>1. StaysAtRest /\ UNCHANGED <<view, request, late, landed, state, last>>
    BY <1>6 DEF BeginTyping, TypeText, EraseText, StaysAtRest
  <2>2. RequestInv' /\ AnswersWhatWasRead'
    BY <2>1, FaithfulKept DEF AnswerInv, RequestInv, AnswersWhatWasRead
  <2>3. draft'[w] \in {Nothing, draft[w], view[w]}
    BY <1>1, <1>6 DEF BeginTyping, TypeText, EraseText, RestType
  <2>4. \A v \in Watch : v # w => draft'[v] = draft[v]
    BY <1>1, <1>6 DEF BeginTyping, TypeText, EraseText, RestType
  <2>5. Nothing.q = 0  BY DEF Nothing
  <2> HIDE DEF Nothing
  <2>6. ScreenInv'  BY <2>1, <2>3, <2>4, <2>5 DEF AnswerInv, ScreenInv
  <2> QED BY <2>2, <2>6 DEF AnswerInv
<1>7. ASSUME NEW w \in Watch, SendTyped(w) \/ SendChoice(w)  PROVE AnswerInv'
  <2>1. draft[w].q \in {0, view[w].q} /\ view[w].q \in {0, view[w].q}
    BY DEF AnswerInv, ScreenInv
  <2> QED BY <1>7, <2>1, SendLands DEF SendTyped, SendChoice
<1>8. ASSUME NEW c \in Cli, TypeCommand(c)  PROVE AnswerInv'
  <2>1. StaysAtRest /\ UNCHANGED <<view, draft, request, late, landed>>
    BY <1>8 DEF TypeCommand, StaysAtRest
  <2> QED BY <2>1, AnswerKept
<1>9. ASSUME NEW c \in Cli, LookUp(c)  PROVE AnswerInv'
  <2>1. StaysAtRest /\ UNCHANGED <<view, draft, late, landed, state, last>>
    BY <1>9 DEF LookUp, StaysAtRest
  <2>2. ScreenInv' /\ AnswersWhatWasRead'
    BY <2>1 DEF AnswerInv, ScreenInv, AnswersWhatWasRead
  <2>3. Faithful(request'[c])
    <3>1. \A h : [verb |-> "answer", q |-> pending, read |-> h, found |-> pending].q # 0
                    => Faithful([verb |-> "answer", q |-> pending, read |-> h, found |-> pending])
      BY DEF Faithful
    <3>2. \A h : state # "running" =>
                     Faithful([verb |-> "continue", q |-> 0, read |-> h, found |-> last])
      BY DEF Faithful
    <3>3. Reported.resting => state # "running"  BY DEF Reported
    <3>4. ~Reported.resting => Reported.q = pending  BY DEF Reported
    <3>5. Faithful(request[c])  BY DEF AnswerInv, RequestInv
    <3> HIDE DEF Faithful, Reported
    <3> QED BY <1>1, <1>9, <3>1, <3>2, <3>3, <3>4, <3>5 DEF LookUp, RestType
  <2>4. \A d \in Cli : d # c => request'[d] = request[d]
    BY <1>1, <1>9 DEF LookUp, RestType
  <2>5. \A d \in Cli : Faithful(request'[d])
    BY <2>3, <2>4 DEF AnswerInv, RequestInv
  <2>6. RequestInv'  BY <2>1, <2>5 DEF AnswerInv, RequestInv, Faithful
  <2> QED BY <2>2, <2>6 DEF AnswerInv
<1>10. ASSUME NEW c \in Cli, AnswerRun(c)  PROVE AnswerInv'
  <2>1. request[c] \in Request /\ Faithful(request[c])
    BY <1>1 DEF RestType, AnswerInv, RequestInv
  <2>2. UNCHANGED <<view, draft>> /\ late' \subseteq late \cup {request[c]}
        /\ request' = [request EXCEPT ![c] = NoRequest]
    BY <1>10 DEF AnswerRun
  <2>3. AnswersWhatWasRead' /\ StaysAtRest
    <3>1. CASE Dispatch(request[c])  BY <1>1, <2>1, <3>1, DispatchLands DEF AnswerInv
    <3>2. CASE UNCHANGED <<runVars, landed>>
      BY <3>2 DEF AnswerInv, AnswersWhatWasRead, StaysAtRest
    <3> QED BY <1>10, <3>1, <3>2 DEF AnswerRun
  <2>4. RequestInv'
    <3>1. \A m \in late \cup {request[c]} : Faithful(m)'
      BY <2>1, <2>3, FaithfulKept DEF AnswerInv, RequestInv
    <3>2. \A d \in Cli : request'[d] = IF d = c THEN NoRequest ELSE request[d]
      BY <1>1, <2>2 DEF RestType
    <3>3. Faithful(NoRequest)'  BY DEF Faithful, NoRequest
    <3>4. ASSUME NEW d \in Cli  PROVE Faithful(request[d])'
      <4>1. PICK m : m = request[d]  OBVIOUS
      <4>2. Faithful(m)'  BY <2>3, <4>1, FaithfulKept DEF AnswerInv, RequestInv
      <4> QED BY <3>2, <3>3, <4>1, <4>2 DEF Faithful
    <3> QED BY <2>2, <3>1, <3>4 DEF RequestInv
  <2>5. ScreenInv'  BY <2>2, <2>3 DEF AnswerInv, ScreenInv, StaysAtRest
  <2> QED BY <2>3, <2>4, <2>5 DEF AnswerInv
<1>11. CASE UNCHANGED panelVars
  <2>1. StaysAtRest /\ UNCHANGED <<view, draft, request, late, landed>>
    BY <1>11 DEF panelVars, StaysAtRest
  <2> QED BY <2>1, AnswerKept
<1> QED BY <1>2, <1>3, <1>4, <1>5, <1>6, <1>7, <1>8, <1>9, <1>10, <1>11 DEF PanelNext, Tick, Keys

(* Whatever answers a question, live or through a continuation, comes from *)
(* a panel on which that question was read, or from a bridge answer whose  *)
(* operator had read it or whose lookup found it; with any number of       *)
(* panels and callers and however late a request arrives.                  *)
THEOREM AnswersCorrect == PanelSpec => []AnswersWhatWasRead
<1>1. PanelInit => AnswerInv
  BY DEF PanelInit, AnswerInv, RequestInv, Faithful, ScreenInv, AnswersWhatWasRead,
         NoRequest, Nothing
<1>2. AnswerInv => AnswersWhatWasRead  BY DEF AnswerInv
<1> QED BY <1>1, <1>2, PanelTypeCorrect, AnswerNext, PTL DEF PanelSpec
-----------------------------------------------------------------------------
(* Panel: the feed *)

(* What panel w has of event e when its events are counted in f and its    *)
(* offset is o: nothing behind the end of the file, at least one of what   *)
(* it has gone past, and a second one only of that.  Between the size and  *)
(* the events the file may have grown, and nothing it has is beyond that   *)
(* size.                                                                   *)
Has(f, o, e) ==
    /\ f \in 0..2
    /\ e <= o => f >= 1
    /\ e > o => f <= 1
    /\ f # 0 => e <= written

FeedInv ==
    \A w \in Watch :
        /\ offset[w] <= written
        /\ \A e \in Event : Has(feed[w][e], offset[w], e)
        /\ tick[w] = "sized" =>
               /\ offset[w] <= size[w] /\ size[w] <= written
               /\ \A e \in Event : feed[w][e] # 0 => e <= size[w]

(* Steps that are not the feed's leave it so, while the file may grow.     *)
LEMMA FeedKept ==
    ASSUME PanelTypeOK, PanelTypeOK', FeedInv, UNCHANGED feedVars, written' >= written,
           \A w \in Watch : tick'[w] = "sized" => tick[w] = "sized"
    PROVE  FeedInv'
<1> SUFFICES ASSUME NEW w \in Watch
             PROVE  /\ offset[w] <= written'
                    /\ \A e \in Event : Has(feed[w][e], offset[w], e)'
                    /\ tick'[w] = "sized" =>
                           /\ offset[w] <= size[w] /\ size[w] <= written'
                           /\ \A e \in Event : feed[w][e] # 0 => e <= size[w]
  BY DEF FeedInv, feedVars
<1>1. /\ offset[w] \in Nat /\ size[w] \in Nat /\ written \in Nat /\ written' \in Nat
      /\ Event \subseteq Nat
  BY PanelAssumption DEF PanelTypeOK, Event
<1>2. offset[w] <= written'  BY <1>1 DEF FeedInv
<1>3. ASSUME NEW e \in Event  PROVE Has(feed[w][e], offset[w], e)'
  <2>1. Has(feed[w][e], offset[w], e)  BY DEF FeedInv
  <2>2. feed[w][e] # 0 => e <= written'  BY <1>1, <2>1 DEF Has
  <2> QED BY <2>1, <2>2 DEF Has, feedVars
<1>4. ASSUME tick'[w] = "sized"
      PROVE  /\ offset[w] <= size[w] /\ size[w] <= written'
             /\ \A e \in Event : feed[w][e] # 0 => e <= size[w]
  <2>1. /\ offset[w] <= size[w] /\ size[w] <= written
        /\ \A e \in Event : feed[w][e] # 0 => e <= size[w]
    BY <1>4 DEF FeedInv
  <2> QED BY <1>1, <2>1
<1> QED BY <1>2, <1>3, <1>4

(* The size is taken: everything the panel has is within it.               *)
LEMMA FeedSized ==
    ASSUME PanelTypeOK, PanelTypeOK', FeedInv, NEW w \in Watch, PollSize(w)
    PROVE  FeedInv'
<1>1. UNCHANGED <<written, offset, feed>>  BY DEF PollSize
<1>2. size'[w] = written  BY DEF PollSize, PanelTypeOK
<1>3. \A v \in Watch : v # w => size'[v] = size[v] /\ tick'[v] = tick[v]
  BY DEF PollSize, PanelTypeOK
<1>4. offset[w] \in Nat /\ written \in Nat  BY PanelAssumption DEF PanelTypeOK
<1>5. \A v \in Watch, e \in Event : Has(feed[v][e], offset[v], e)'
  BY <1>1 DEF FeedInv, Has
<1>6. \A e \in Event : feed[w][e] # 0 => e <= written  BY DEF FeedInv, Has
<1>7. offset[w] <= written /\ written <= written  BY <1>4 DEF FeedInv
<1>8. ASSUME NEW v \in Watch, tick'[v] = "sized"
      PROVE  /\ offset[v] <= size'[v] /\ size'[v] <= written
             /\ \A e \in Event : feed[v][e] # 0 => e <= size'[v]
  <2>1. CASE v = w  BY <2>1, <1>2, <1>6, <1>7
  <2>2. CASE v # w  BY <2>2, <1>3, <1>8 DEF FeedInv
  <2> QED BY <2>1, <2>2
<1> QED BY <1>1, <1>5, <1>8 DEF FeedInv

(* The events are read: those behind the offset once more, and the offset  *)
(* moves to the size.                                                      *)
LEMMA FeedRead ==
    ASSUME PanelTypeOK, PanelTypeOK', FeedInv, NEW w \in Watch, PollFeed(w)
    PROVE  FeedInv'
<1>1. written' = written /\ size' = size /\ tick[w] = "sized"  BY DEF PollFeed
<1>2. offset'[w] = size[w] /\ tick'[w] = "fed"  BY DEF PollFeed, PanelTypeOK
<1>3. \A v \in Watch : v # w => /\ offset'[v] = offset[v] /\ tick'[v] = tick[v]
                                /\ feed'[v] = feed[v]
  BY DEF PollFeed, PanelTypeOK
<1>4. feed'[w] = [e \in Event |->
                     IF offset[w] < e /\ e <= written THEN feed[w][e] + 1 ELSE feed[w][e]]
  BY DEF PollFeed, PanelTypeOK
<1>5. offset[w] \in Nat /\ size[w] \in Nat /\ written \in Nat /\ Event \subseteq Nat
  BY PanelAssumption DEF PanelTypeOK, Event
<1>6. offset[w] <= size[w] /\ size[w] <= written  BY <1>1 DEF FeedInv
<1>7. ASSUME NEW e \in Event  PROVE Has(feed[w][e], offset[w], e)'
  <2>1. Has(feed[w][e], offset[w], e) /\ (feed[w][e] # 0 => e <= size[w])
    BY <1>1 DEF FeedInv
  <2>2. CASE e <= offset[w]
    <3>1. feed'[w][e] = feed[w][e] /\ e <= size[w] /\ e <= written
      BY <1>4, <1>5, <1>6, <2>2
    <3> QED BY <1>1, <1>2, <1>5, <2>1, <2>2, <3>1 DEF Has
  <2>3. CASE offset[w] < e /\ e <= written
    <3>1. feed'[w][e] = feed[w][e] + 1 /\ feed[w][e] \in {0, 1}
      BY <1>4, <1>5, <2>1, <2>3 DEF Has
    <3>2. e > size[w] => feed[w][e] = 0  BY <1>5, <2>1
    <3> QED BY <1>1, <1>2, <1>5, <2>3, <3>1, <3>2 DEF Has
  <2>4. CASE written < e
    <3>1. feed'[w][e] = 0  BY <1>4, <1>5, <2>1, <2>4 DEF Has
    <3> QED BY <1>2, <1>5, <1>6, <2>4, <3>1 DEF Has
  <2> QED BY <1>5, <2>2, <2>3, <2>4
<1>8. ASSUME NEW v \in Watch, v # w, NEW e \in Event  PROVE Has(feed[v][e], offset[v], e)'
  BY <1>1, <1>3, <1>8 DEF FeedInv, Has
<1> QED BY <1>1, <1>2, <1>3, <1>6, <1>7, <1>8 DEF FeedInv

(* Every step keeps it.                                                    *)
LEMMA FeedNext ==
    PanelTypeOK /\ PanelTypeOK' /\ FeedInv /\ [PanelNext]_panelVars => FeedInv'
<1> SUFFICES ASSUME PanelTypeOK, PanelTypeOK', FeedInv, [PanelNext]_panelVars PROVE FeedInv'
  OBVIOUS
<1> USE DEF runVars, screenVars, feedVars, cliVars, wireVars
<1>1. written \in Nat /\ written >= written /\ written + 1 >= written
  BY PanelAssumption DEF PanelTypeOK
<1>2. CASE RunStep
  <2>1. UNCHANGED <<feedVars, tick>> /\ written' \in {written, written + 1}
    BY <1>2 DEF RunStep, Ask, DenyQuestion, NeedsInput, End, Prune, Append
  <2> QED BY <1>1, <2>1, FeedKept
<1>3. CASE ServeLate  BY <1>1, <1>3, FeedKept DEF ServeLate
<1>4. ASSUME NEW w \in Watch, Open(w) \/ Keys(w) \/ PollQuestion(w) \/ PollFails(w)
      PROVE  FeedInv'
  <2>1. UNCHANGED <<feedVars, written>>
    BY <1>4 DEF Open, Keys, PollQuestion, PollFails, BeginTyping, TypeText, EraseText,
                SendTyped, SendChoice, SendAnswer, Quit
  <2>2. \A v \in Watch : tick'[v] = "sized" => tick[v] = "sized"
    BY <1>4 DEF Open, Keys, PollQuestion, PollFails, BeginTyping, TypeText, EraseText,
                SendTyped, SendChoice, SendAnswer, Quit, PanelTypeOK
  <2> QED BY <1>1, <2>1, <2>2, FeedKept
<1>5. ASSUME NEW w \in Watch, PollSize(w) \/ PollFeed(w)  PROVE FeedInv'
  BY <1>5, FeedSized, FeedRead
<1>6. ASSUME NEW c \in Cli, TypeCommand(c) \/ LookUp(c) \/ AnswerRun(c)
      PROVE  FeedInv'
  <2>1. UNCHANGED <<feedVars, tick, written>>  BY <1>6 DEF TypeCommand, LookUp, AnswerRun
  <2> QED BY <1>1, <2>1, FeedKept
<1>7. CASE UNCHANGED panelVars  BY <1>1, <1>7, FeedKept DEF panelVars
<1> QED BY <1>2, <1>3, <1>4, <1>5, <1>6, <1>7 DEF PanelNext, Tick

(* The feed misses nothing the panel has gone past and shows nothing more  *)
(* than twice, however long the file grows while it is read.               *)
THEOREM FeedCorrect == PanelSpec => []FeedComplete
<1>1. PanelInit => FeedInv
  <2> SUFFICES ASSUME PanelInit PROVE FeedInv  OBVIOUS
  <2>1. \A e \in Event : Has(0, 0, e)  BY PanelAssumption DEF Has, Event, PanelInit
  <2> QED BY <2>1 DEF PanelInit, FeedInv
<1>2. FeedInv => FeedComplete
  <2> SUFFICES ASSUME FeedInv, NEW w \in Watch, NEW e \in Event
               PROVE  feed[w][e] <= 2 /\ (e <= offset[w] => feed[w][e] >= 1)
    BY DEF FeedComplete
  <2>1. Has(feed[w][e], offset[w], e)  BY DEF FeedInv
  <2> QED BY <2>1 DEF Has
<1> QED BY <1>1, <1>2, PanelTypeCorrect, FeedNext, PTL DEF PanelSpec
-----------------------------------------------------------------------------
(* Control: types *)

(* The types of the index and the servers that rewrite it.                 *)
IndexType ==
    /\ server \in [Bridge -> ServerStep]
    /\ held \in [Bridge -> SUBSET Bridge]
    /\ open \in [Bridge -> Handle]
    /\ index \in SUBSET Bridge
    /\ tmp \in (SUBSET Bridge) \cup {Missing}
    /\ overlapped \in BOOLEAN

(* The types of the commands, their walks and what they watch.             *)
CommandType ==
    /\ watchers \in [Bridge -> [RunId \cup {None} -> Nat]]
    /\ client \in [Client -> {"idle", "walking", "asking", "connected", "switching",
                              "dropped", "reached", "notFound"}]
    /\ dialled \in [Client -> Bridge \cup {None}]
    /\ seen \in [Client -> {"no"} \cup RunId \cup {None}]
    /\ todo \in [Client -> SUBSET Bridge]
    /\ wanted \in [Client -> RunId \cup {None}]
    /\ ownerWasUp \in [Client -> BOOLEAN] /\ slow \in [Client -> BOOLEAN]

(* Both together.                                                          *)
LEMMA ControlTypes == ControlTypeOK <=> IndexType /\ CommandType
BY DEF ControlTypeOK, IndexType, CommandType

(* A server's own step, but for its end.                                   *)
IndexStep(b) ==
    \/ Listen(b) \/ Register(b) \/ Close(b) \/ Deregister(b)
    \/ OpenTmp(b) \/ WriteTmp(b) \/ RenameTmp(b) \/ RenameFails(b)

(* Steps of the servers keep the types of the index.                       *)
LEMMA IndexStepType ==
    ASSUME IndexType, NEW b \in Bridge, IndexStep(b) \/ Exit(b)
    PROVE  IndexType'
<1> USE DEF serverVars, fileVars
<1>1. \A s \in ServerStep : [server EXCEPT ![b] = s] \in [Bridge -> ServerStep]
  BY DEF IndexType
<1>2. /\ {"listening", "enterOpen", "leaveOpen", "enterWrite", "leaveWrite", "enterRename",
          "leaveRename", "up", "closing", "closed", "failed", "gone"} \subseteq ServerStep
      /\ {"none", "tmp", "index", "unlinked"} \subseteq Handle
      /\ {} \in SUBSET Bridge
  BY DEF ServerStep, Entering, Leaving, Handle
<1>3. \A h \in Handle : [open EXCEPT ![b] = h] \in [Bridge -> Handle]  BY DEF IndexType
<1>4. \A S \in SUBSET Bridge : [held EXCEPT ![b] = S] \in [Bridge -> SUBSET Bridge]
  BY DEF IndexType
<1>5. LiveEntries \cup {b} \in SUBSET Bridge /\ LiveEntries \ {b} \in SUBSET Bridge
  BY DEF IndexType, LiveEntries
<1>6. CASE Listen(b) \/ Close(b)
  BY <1>1, <1>2, <1>6 DEF Listen, Close, Becomes, IndexType
<1>7. CASE Register(b) \/ Deregister(b)
  <2>1. server' \in [Bridge -> ServerStep]
    BY <1>1, <1>2, <1>7 DEF Register, Deregister, Becomes
  <2>2. held' \in [Bridge -> SUBSET Bridge]
    BY <1>4, <1>5, <1>7 DEF Register, Deregister
  <2>3. overlapped' \in BOOLEAN
    <3>1. \A p \in BOOLEAN : \A q : (p \/ q) \in BOOLEAN  OBVIOUS
    <3> QED BY <1>7, <3>1 DEF Register, Deregister, IndexType
  <2> QED BY <1>7, <2>1, <2>2, <2>3 DEF Register, Deregister, IndexType
<1>8. CASE OpenTmp(b)
  <2>1. server' \in [Bridge -> ServerStep] /\ open' \in [Bridge -> Handle]
    BY <1>1, <1>2, <1>3, <1>8 DEF OpenTmp, Becomes
  <2> QED BY <1>2, <1>8, <2>1 DEF OpenTmp, IndexType
<1>9. CASE WriteTmp(b)
  <2>1. /\ server' \in [Bridge -> ServerStep] /\ open' \in [Bridge -> Handle]
        /\ held' \in [Bridge -> SUBSET Bridge]
    BY <1>1, <1>2, <1>3, <1>4, <1>9 DEF WriteTmp, Becomes
  <2>2. \A old : Overwrite(old, held[b]) \subseteq SUBSET Bridge
    BY <1>2 DEF Overwrite, IndexType
  <2> QED BY <1>9, <2>1, <2>2 DEF WriteTmp, IndexType
<1>10. CASE RenameTmp(b)
  <2>1. server' \in [Bridge -> ServerStep]  BY <1>1, <1>2, <1>10 DEF RenameTmp, Becomes
  <2>2. open' \in [Bridge -> Handle]
    <3>1. \A o \in Bridge : (CASE open[o] = "tmp" -> "index"
                               [] open[o] = "index" -> "unlinked"
                               [] OTHER -> open[o]) \in Handle
      BY <1>2 DEF IndexType
    <3> QED BY <1>10, <3>1 DEF RenameTmp
  <2>3. index' \in SUBSET Bridge /\ tmp' = Missing  BY <1>10 DEF RenameTmp, IndexType
  <2> QED BY <1>10, <2>1, <2>2, <2>3 DEF RenameTmp, IndexType
<1>11. CASE RenameFails(b)
  BY <1>1, <1>2, <1>11 DEF RenameFails, Becomes, IndexType
<1>12. CASE Exit(b)
  <2>1. server' \in [Bridge -> ServerStep] /\ open' \in [Bridge -> Handle]
    BY <1>1, <1>2, <1>3, <1>12 DEF Exit, Becomes
  <2> QED BY <1>12, <2>1 DEF Exit, IndexType
<1> QED BY <1>6, <1>7, <1>8, <1>9, <1>10, <1>11, <1>12 DEF IndexStep

(* A command's step.                                                       *)
CommandStep(c) ==
    \/ \E r \in RunId : ReadIndex(c, r)
    \/ \E b \in Bridge : DialWorks(c, b) \/ DialFails(c, b)
    \/ AskNext(c) \/ AskArrives(c) \/ AskTimesOut(c) \/ GiveUp(c)
    \/ \E r \in RunId \cup {None} : AttachFirst(c, r) \/ SwitchFrom(c, r)
    \/ SwitchTo(c) \/ DetachVerb(c) \/ Drop(c) \/ Noticed(c)

(* A count that goes up or down is still a count.                          *)
LEMMA CountType ==
    ASSUME CommandType, NEW b \in Bridge, NEW r \in RunId \cup {None},
           Attach(b, r) \/ Detach(b, r)
    PROVE  watchers' \in [Bridge -> [RunId \cup {None} -> Nat]]
<1>1. watchers[b] \in [RunId \cup {None} -> Nat] /\ watchers[b][r] \in Nat  BY DEF CommandType
<1>2. \A n \in Nat : [watchers[b] EXCEPT ![r] = n] \in [RunId \cup {None} -> Nat]  BY <1>1
<1>3. \A f \in [RunId \cup {None} -> Nat] :
          [watchers EXCEPT ![b] = f] \in [Bridge -> [RunId \cup {None} -> Nat]]
  BY DEF CommandType
<1>4. PICK n \in Nat : watchers' = [watchers EXCEPT ![b][r] = n]
  <2>1. CASE Attach(b, r)
    <3>1. watchers' = [watchers EXCEPT ![b][r] = watchers[b][r] + 1]  BY <2>1 DEF Attach
    <3>2. watchers[b][r] + 1 \in Nat  BY <1>1
    <3> QED BY <3>1, <3>2
  <2>2. CASE Detach(b, r)
    <3> DEFINE n == IF watchers[b][r] > 0 THEN watchers[b][r] - 1 ELSE watchers[b][r]
    <3>1. watchers' = [watchers EXCEPT ![b][r] = n]  BY <2>2 DEF Detach
    <3>2. n \in Nat  BY <1>1
    <3> QED BY <3>1, <3>2
  <2> QED BY <2>1, <2>2
<1>5. watchers' = [watchers EXCEPT ![b] = [watchers[b] EXCEPT ![r] = n]]  BY <1>4
<1> QED BY <1>2, <1>3, <1>5

(* Steps of the commands keep their types.                                 *)
LEMMA CommandStepType ==
    ASSUME IndexType, CommandType, NEW c \in Client, CommandStep(c)
    PROVE  CommandType'
<1> USE DEF watchVars, callVars, Moves, Sees
<1>1. LiveEntries \in SUBSET Bridge  BY DEF LiveEntries, IndexType
<1>2. CASE \E r \in RunId : ReadIndex(c, r)
  <2>1. PICK r \in RunId : ReadIndex(c, r)  BY <1>2
  <2>2. (server[Owner[r]] = "up") \in BOOLEAN  OBVIOUS
  <2>3. /\ todo' \in [Client -> SUBSET Bridge] /\ wanted' \in [Client -> RunId \cup {None}]
        /\ ownerWasUp' \in [Client -> BOOLEAN]
    BY <1>1, <2>1, <2>2 DEF ReadIndex, CommandType
  <2> QED BY <2>1, <2>3 DEF ReadIndex, CommandType
<1>3. CASE \E b \in Bridge : DialWorks(c, b) \/ DialFails(c, b)
  <2>1. PICK b \in Bridge : DialWorks(c, b) \/ DialFails(c, b)  BY <1>3
  <2>2. todo' \in [Client -> SUBSET Bridge]
    <3>1. todo[c] \ {b} \in SUBSET Bridge  BY DEF CommandType
    <3> QED BY <2>1, <3>1 DEF DialWorks, DialFails, CommandType
  <2>3. CASE DialWorks(c, b)  BY <2>2, <2>3 DEF DialWorks, CommandType
  <2>4. CASE DialFails(c, b)  BY <2>2, <2>4 DEF DialFails, CommandType
  <2> QED BY <2>1, <2>3, <2>4
<1>4. CASE AskNext(c) \/ AskTimesOut(c) \/ GiveUp(c)
  BY <1>4 DEF AskNext, AskTimesOut, GiveUp, CommandType
<1>5. CASE AskArrives(c)
  <2>1. /\ client' \in [Client -> {"idle", "walking", "asking", "connected", "switching",
                                   "dropped", "reached", "notFound"}]
        /\ dialled' \in [Client -> Bridge \cup {None}]
    BY <1>5 DEF AskArrives, CommandType
  <2>2. /\ todo' \in [Client -> SUBSET Bridge] /\ wanted' \in [Client -> RunId \cup {None}]
        /\ ownerWasUp' \in [Client -> BOOLEAN] /\ slow' \in [Client -> BOOLEAN]
    BY <1>5 DEF AskArrives, Forget, CommandType
  <2> QED BY <1>5, <2>1, <2>2 DEF AskArrives, CommandType
<1>6. CASE Drop(c)  BY <1>6 DEF Drop, CommandType
<1>7. ASSUME NEW r \in RunId \cup {None}, AttachFirst(c, r) \/ SwitchFrom(c, r)
      PROVE  CommandType'
  <2>1. dialled[c] \in Bridge  BY <1>7 DEF AttachFirst, SwitchFrom, Serves, CommandType
  <2>2. SwitchFrom(c, r) => seen[c] \in RunId \cup {None}  BY DEF SwitchFrom, CommandType
  <2>3. watchers' \in [Bridge -> [RunId \cup {None} -> Nat]]
    BY <1>7, <2>1, <2>2, CountType DEF AttachFirst, SwitchFrom
  <2>4. CASE AttachFirst(c, r)  BY <2>3, <2>4 DEF AttachFirst, CommandType
  <2>5. CASE SwitchFrom(c, r)  BY <2>3, <2>5 DEF SwitchFrom, CommandType
  <2> QED BY <1>7, <2>4, <2>5
<1>8. CASE SwitchTo(c) \/ DetachVerb(c)
  <2>1. dialled[c] \in Bridge /\ wanted[c] \in RunId \cup {None}
    BY <1>8 DEF SwitchTo, DetachVerb, Serves, CommandType
  <2>2. DetachVerb(c) => seen[c] \in RunId \cup {None}  BY DEF DetachVerb, CommandType
  <2>3. watchers' \in [Bridge -> [RunId \cup {None} -> Nat]]
    BY <1>8, <2>1, <2>2, CountType DEF SwitchTo, DetachVerb
  <2> QED BY <1>8, <2>1, <2>3 DEF SwitchTo, DetachVerb, CommandType
<1>9. CASE Noticed(c)
  <2>1. watchers' \in [Bridge -> [RunId \cup {None} -> Nat]]
    <3>1. CASE Serves(c) /\ seen[c] # "no"
      <4>1. dialled[c] \in Bridge /\ seen[c] \in RunId \cup {None}
        BY <3>1 DEF Serves, CommandType
      <4> QED BY <1>9, <3>1, <4>1, CountType DEF Noticed
    <3>2. CASE ~(Serves(c) /\ seen[c] # "no")  BY <1>9, <3>2 DEF Noticed, CommandType
    <3> QED BY <3>1, <3>2
  <2> QED BY <1>9, <2>1 DEF Noticed, CommandType
<1> QED BY <1>2, <1>3, <1>4, <1>5, <1>6, <1>7, <1>8, <1>9 DEF CommandStep

(* Each step is one of the servers' or one of the commands'.               *)
LEMMA ControlSteps ==
    ASSUME ControlNext
    PROVE  \/ \E b \in Bridge : IndexStep(b) \/ Exit(b)
           \/ \E c \in Client : CommandStep(c)
BY DEF ControlNext, IndexStep, CommandStep

(* A server's own step is nothing to the commands, ...                     *)
LEMMA IndexStepAlone ==
    ASSUME NEW b \in Bridge, IndexStep(b)
    PROVE  UNCHANGED <<watchers, client, watchVars, callVars>>
BY DEF IndexStep, Listen, Register, Close, Deregister, OpenTmp, WriteTmp, RenameTmp, RenameFails

(* ... and theirs nothing to the servers.                                  *)
LEMMA CommandStepAlone ==
    ASSUME NEW c \in Client, CommandStep(c)
    PROVE  UNCHANGED <<serverVars, fileVars, overlapped>>
BY DEF CommandStep, ReadIndex, DialWorks, DialFails, AskNext, AskArrives, AskTimesOut, GiveUp,
       AttachFirst, SwitchFrom, SwitchTo, DetachVerb, Drop, Noticed

(* A process that ends takes its counts and its watchers' connections.     *)
LEMMA ExitType ==
    ASSUME CommandType, NEW b \in Bridge, Exit(b)
    PROVE  CommandType'
<1>1. [r \in RunId \cup {None} |-> 0] \in [RunId \cup {None} -> Nat]  OBVIOUS
<1>2. watchers' \in [Bridge -> [RunId \cup {None} -> Nat]]  BY <1>1 DEF Exit, CommandType
<1>3. seen' \in [Client -> {"no"} \cup RunId \cup {None}]  BY DEF Exit, CommandType
<1> QED BY <1>2, <1>3 DEF Exit, CommandType, callVars

(* So every step keeps the types.                                          *)
LEMMA ControlNextType == ControlTypeOK /\ [ControlNext]_controlVars => ControlTypeOK'
<1> SUFFICES ASSUME ControlTypeOK, [ControlNext]_controlVars PROVE ControlTypeOK'  OBVIOUS
<1>1. IndexType /\ CommandType  BY ControlTypes
<1>2. ASSUME NEW b \in Bridge, IndexStep(b)  PROVE IndexType' /\ CommandType'
  <2>1. UNCHANGED <<watchers, client, watchVars, callVars>>  BY <1>2, IndexStepAlone
  <2> QED BY <1>1, <1>2, <2>1, IndexStepType DEF CommandType, watchVars, callVars
<1>3. ASSUME NEW b \in Bridge, Exit(b)  PROVE IndexType' /\ CommandType'
  BY <1>1, <1>3, IndexStepType, ExitType
<1>4. ASSUME NEW c \in Client, CommandStep(c)  PROVE IndexType' /\ CommandType'
  <2>1. UNCHANGED <<serverVars, fileVars, overlapped>>  BY <1>4, CommandStepAlone
  <2> QED BY <1>1, <1>4, <2>1, CommandStepType DEF IndexType, serverVars, fileVars
<1>5. ASSUME UNCHANGED controlVars  PROVE IndexType' /\ CommandType'
  <2>1. IndexType'  BY <1>1, <1>5 DEF controlVars, IndexType, serverVars, fileVars
  <2>2. CommandType'  BY <1>1, <1>5 DEF controlVars, CommandType, watchVars, callVars
  <2> QED BY <2>1, <2>2
<1>6. ASSUME ControlNext  PROVE IndexType' /\ CommandType'
  BY <1>2, <1>3, <1>4, <1>6, ControlSteps
<1>7. IndexType' /\ CommandType'  BY <1>5, <1>6
<1> QED BY <1>7 DEF ControlTypeOK, IndexType, CommandType

(* Every variable keeps to its type.                                       *)
THEOREM ControlTypeCorrect == ControlSpec => []ControlTypeOK
<1>1. ControlInit => ControlTypeOK
  <2> SUFFICES ASSUME ControlInit PROVE ControlTypeOK  OBVIOUS
  <2>1. "new" \in ServerStep /\ "none" \in Handle  BY DEF ServerStep, Handle
  <2>2. IndexType  BY <2>1 DEF ControlInit, IndexType
  <2>3. CommandType  BY DEF ControlInit, CommandType
  <2> QED BY <2>2, <2>3, ControlTypes
<1> QED BY <1>1, ControlNextType, PTL DEF ControlSpec
-----------------------------------------------------------------------------
(* Control: the index names every server that is up *)

(* One server rewrites the index at a time; what it is about to write, or  *)
(* has written, names every server that is up, and itself if it enters.    *)
NamedIn(b, S) ==
    /\ \A o \in Bridge : server[o] = "up" => o \in S
    /\ server[b] \in Entering => b \in S

Ready(b) ==
    /\ server[b] \in {"enterOpen", "leaveOpen", "enterWrite", "leaveWrite"} => NamedIn(b, held[b])
    /\ server[b] \in {"enterWrite", "leaveWrite"} => open[b] = "tmp" /\ tmp = {}
    /\ server[b] \in {"enterRename", "leaveRename"} => NamedIn(b, tmp)

AloneInv ==
    /\ \A b, o \in Bridge : Rewriting(b) /\ Rewriting(o) => b = o
    /\ \A b \in Bridge : server[b] = "up" => b \in index
    /\ \A b \in Bridge : Ready(b)

IndexInv == ~overlapped => AloneInv

(* Where a server is that was up when a command began.                     *)
Opened == {"up", "closing", "closed", "gone"} \cup Leaving

(* A command that nothing has disturbed has the owner still before it, or  *)
(* is asking it.                                                           *)
WalkInv ==
    \A c \in Client : ownerWasUp[c] =>
        /\ client[c] \in {"walking", "asking", "notFound"}
        /\ wanted[c] \in RunId
        /\ server[Owner[wanted[c]]] \in Opened
        /\ ~overlapped /\ ~slow[c] /\ server[Owner[wanted[c]]] = "up" =>
               \/ Owner[wanted[c]] \in todo[c] /\ client[c] \in {"walking", "asking"}
               \/ Owner[wanted[c]] = dialled[c] /\ client[c] = "asking"


(* Where a server is after its own step.                                   *)
LEMMA Elsewhere ==
    ASSUME IndexType, NEW b \in Bridge, IndexStep(b) \/ Exit(b)
    PROVE  /\ \A o \in Bridge : o # b => server'[o] = server[o]
           /\ server'[b] = "up" => server[b] = "enterRename" /\ RenameTmp(b)
           /\ server[b] \in Opened => server'[b] \in Opened
           /\ (Rewriting(b)' /\ ~Rewriting(b)) => Register(b) \/ Deregister(b)
<1> USE DEF Becomes, IndexType
<1>1. \A o \in Bridge : o # b => server'[o] = server[o]
  BY DEF IndexStep, Listen, Register, Close, Deregister, OpenTmp, WriteTmp, RenameTmp,
         RenameFails, Exit
<1>2. CASE Listen(b) \/ Register(b)
  BY <1>1, <1>2 DEF Listen, Register, Opened, Rewriting, Entering, Leaving
<1>3. CASE Close(b) \/ Deregister(b)
  BY <1>1, <1>3 DEF Close, Deregister, Opened, Rewriting, Entering, Leaving
<1>4. CASE OpenTmp(b) \/ WriteTmp(b)
  BY <1>1, <1>4 DEF OpenTmp, WriteTmp, Opened, Rewriting, Entering, Leaving
<1>5. CASE RenameTmp(b) \/ RenameFails(b) \/ Exit(b)
  BY <1>1, <1>5 DEF RenameTmp, RenameFails, Exit, Opened, Rewriting, Entering, Leaving
<1> QED BY <1>2, <1>3, <1>4, <1>5 DEF IndexStep

(* The one server at the index takes its next step there, or ends.         *)
LEMMA RewriterKept ==
    ASSUME IndexType, AloneInv, NEW b \in Bridge, Rewriting(b) \/ Register(b) \/ Deregister(b),
           IndexStep(b) \/ Exit(b), \A o \in Bridge : o # b => ~Rewriting(o)
    PROVE  (\A o \in Bridge : server'[o] = "up" => o \in index') /\ Ready(b)'
<1> USE DEF Becomes, IndexType
<1> DEFINE Up == {o \in Bridge : server[o] = "up"}
<1>1. Up \subseteq index /\ Ready(b) /\ b \notin Up
  BY DEF AloneInv, Rewriting, Entering, Leaving, Register, Deregister
<1>2. /\ \A o \in Bridge : o # b => server'[o] = server[o]
      /\ server'[b] = "up" => server[b] = "enterRename" /\ RenameTmp(b)
  BY Elsewhere
<1>3. \A o \in Bridge : server'[o] = "up" => o \in Up \/ o = b  BY <1>2
<1>4. ~RenameTmp(b) => \A o \in Bridge : server'[o] = "up" => o \in Up  BY <1>2
<1>5. Up \subseteq LiveEntries  BY <1>1 DEF LiveEntries, Alive
<1>6. ASSUME NEW S, Up \subseteq S, server'[b] \in Entering => b \in S, ~RenameTmp(b)
      PROVE  \A o \in Bridge : /\ server'[o] = "up" => o \in S
                               /\ server'[b] \in Entering => b \in S
  BY <1>4, <1>6
<1> HIDE DEF Up
<1>7. CASE Register(b) \/ Deregister(b)
  <2>1. /\ index' = index /\ server'[b] \in {"enterOpen", "leaveOpen"}
        /\ held'[b] = IF Register(b) THEN LiveEntries \cup {b} ELSE LiveEntries \ {b}
        /\ server'[b] \in Entering => Register(b)
    BY <1>7 DEF Register, Deregister, fileVars, Entering
  <2>2. ~RenameTmp(b)  BY <1>7 DEF Register, Deregister, RenameTmp
  <2>3. Up \subseteq held'[b] /\ (server'[b] \in Entering => b \in held'[b])
    BY <1>1, <1>5, <2>1
  <2>4. NamedIn(b, held[b])'  BY <1>6, <2>2, <2>3 DEF NamedIn
  <2> QED BY <1>1, <1>4, <2>1, <2>2, <2>4 DEF Ready
<1>8. CASE OpenTmp(b)
  <2>1. /\ index' = index /\ held' = held /\ tmp' = {} /\ open'[b] = "tmp"
        /\ \/ server[b] = "enterOpen" /\ server'[b] = "enterWrite"
           \/ server[b] = "leaveOpen" /\ server'[b] = "leaveWrite"
    BY <1>8 DEF OpenTmp
  <2>2. ~RenameTmp(b)  BY <2>1 DEF RenameTmp
  <2>3. NamedIn(b, held[b])  BY <1>1, <2>1 DEF Ready
  <2>4. Up \subseteq held[b] /\ (server'[b] \in Entering => b \in held[b])
    BY <2>1, <2>3 DEF NamedIn, Up, Entering, Leaving
  <2>5. NamedIn(b, held[b])'  BY <1>6, <2>1, <2>2, <2>4 DEF NamedIn
  <2> QED BY <1>1, <1>4, <2>1, <2>2, <2>5 DEF Ready
<1>9. CASE WriteTmp(b)
  <2>1. \/ server[b] = "enterWrite" /\ server'[b] = "enterRename"
        \/ server[b] = "leaveWrite" /\ server'[b] = "leaveRename"
    BY <1>9 DEF WriteTmp
  <2>2. open[b] = "tmp" /\ tmp = {} /\ NamedIn(b, held[b])  BY <1>1, <2>1 DEF Ready
  <2>3. tmp' = held[b] /\ index' = index  BY <1>9, <2>2 DEF WriteTmp, Overwrite
  <2>4. ~RenameTmp(b)  BY <2>1 DEF RenameTmp
  <2>5. Up \subseteq held[b] /\ (server'[b] \in Entering => b \in held[b])
    BY <2>1, <2>2 DEF NamedIn, Up, Entering, Leaving
  <2>6. NamedIn(b, tmp)'  BY <1>6, <2>3, <2>4, <2>5 DEF NamedIn
  <2> QED BY <1>1, <1>4, <2>1, <2>3, <2>4, <2>6 DEF Ready
<1>10. CASE RenameTmp(b)
  <2>1. /\ server[b] \in {"enterRename", "leaveRename"} /\ index' = tmp
        /\ server'[b] = IF server[b] = "enterRename" THEN "up" ELSE "closed"
    BY <1>10 DEF RenameTmp
  <2>2. NamedIn(b, tmp)  BY <1>1, <2>1 DEF Ready
  <2>3. Up \subseteq tmp /\ (server'[b] = "up" => b \in tmp)
    BY <2>1, <2>2 DEF NamedIn, Up, Entering
  <2> QED BY <1>3, <2>1, <2>3 DEF Ready
<1>11. CASE RenameFails(b) \/ Exit(b)
  <2>1. index' = index /\ server'[b] \in {"failed", "closed", "gone"}
    BY <1>11 DEF RenameFails, Exit, fileVars
  <2> QED BY <1>1, <1>3, <2>1 DEF Ready, Up
<1>12. ~Listen(b) /\ ~Close(b)
  BY DEF Listen, Close, Rewriting, Register, Deregister, Entering, Leaving
<1> QED BY <1>7, <1>8, <1>9, <1>10, <1>11, <1>12 DEF IndexStep

(* A server that is not at the index comes up to listen, closes or ends.   *)
LEMMA BystanderKept ==
    ASSUME IndexType, AloneInv, NEW b \in Bridge, ~Rewriting(b),
           ~Register(b), ~Deregister(b), IndexStep(b) \/ Exit(b)
    PROVE  /\ \A o \in Bridge : server'[o] = "up" => o \in index'
           /\ \A o \in Bridge : Ready(o)'
           /\ ~Rewriting(b)'
<1>1. Listen(b) \/ Close(b) \/ Exit(b)
  BY DEF IndexStep, OpenTmp, WriteTmp, RenameTmp, RenameFails, Rewriting, Entering, Leaving
<1>2. /\ UNCHANGED <<held, fileVars>> /\ server'[b] \in {"listening", "closing", "gone"}
      /\ \A o \in Bridge : o # b => server'[o] = server[o] /\ open'[o] = open[o]
  BY <1>1 DEF Listen, Close, Exit, Becomes, IndexType
<1>3. \A o \in Bridge : server'[o] = "up" => server[o] = "up"  BY <1>2
<1>4. ~Rewriting(b)'  BY <1>2 DEF Rewriting, Entering, Leaving
<1>5. Ready(b)'  BY <1>2 DEF Ready
<1>6. ASSUME NEW o \in Bridge, o # b  PROVE Ready(o)'
  <2>1. Ready(o) /\ server'[o] = server[o] /\ open'[o] = open[o] /\ held' = held /\ tmp' = tmp
    BY <1>2, <1>6 DEF AloneInv, fileVars
  <2>2. NamedIn(o, held[o]) => NamedIn(o, held[o])'  BY <1>3, <2>1 DEF NamedIn
  <2>3. NamedIn(o, tmp) => NamedIn(o, tmp)'  BY <1>3, <2>1 DEF NamedIn
  <2> QED BY <2>1, <2>2, <2>3 DEF Ready
<1> QED BY <1>2, <1>3, <1>4, <1>5, <1>6 DEF AloneInv, fileVars

(* A server alone at the index leaves there what AloneInv says.            *)
LEMMA AloneKept ==
    ASSUME IndexType, AloneInv, NEW b \in Bridge, IndexStep(b) \/ Exit(b), ~overlapped'
    PROVE  AloneInv'
<1>1. /\ \A o \in Bridge : o # b => server'[o] = server[o]
      /\ (Rewriting(b)' /\ ~Rewriting(b)) => Register(b) \/ Deregister(b)
  BY Elsewhere
<1>2. \A o \in Bridge : o # b => (Rewriting(o)' <=> Rewriting(o))  BY <1>1 DEF Rewriting
<1>3. CASE Rewriting(b) \/ Register(b) \/ Deregister(b)
  <2>1. \A o \in Bridge : o # b => ~Rewriting(o)
    BY <1>3 DEF AloneInv, Register, Deregister
  <2>2. \A o \in Bridge : o # b => ~Rewriting(o)'  BY <1>2, <2>1
  <2>3. (\A o \in Bridge : server'[o] = "up" => o \in index') /\ Ready(b)'
    BY <1>3, <2>1, RewriterKept
  <2>4. \A o \in Bridge : Ready(o)'
    BY <2>2, <2>3 DEF Ready, Rewriting, Entering, Leaving
  <2> QED BY <2>2, <2>3, <2>4 DEF AloneInv
<1>4. CASE ~(Rewriting(b) \/ Register(b) \/ Deregister(b))
  <2>1. /\ \A o \in Bridge : server'[o] = "up" => o \in index'
        /\ \A o \in Bridge : Ready(o)'
        /\ ~Rewriting(b)'
    BY <1>4, BystanderKept
  <2>2. \A o \in Bridge : Rewriting(o)' => Rewriting(o)  BY <1>2, <2>1
  <2> QED BY <2>1, <2>2 DEF AloneInv
<1> QED BY <1>3, <1>4
(* Two servers at the index at once are remembered.                        *)
LEMMA OverlapStays ==
    ASSUME NEW b \in Bridge, IndexStep(b) \/ Exit(b)
    PROVE  overlapped => overlapped'
BY DEF IndexStep, Listen, Register, Close, Deregister, OpenTmp, WriteTmp, RenameTmp,
       RenameFails, Exit

(* A step of a server keeps what a command relies on.                      *)
LEMMA WalkKept ==
    ASSUME ControlTypeOK, WalkInv, NEW b \in Bridge, IndexStep(b) \/ Exit(b)
    PROVE  WalkInv'
<1>1. IndexType /\ CommandType  BY ControlTypes
<1>2. UNCHANGED <<client, dialled, callVars>>
  <2>1. IndexStep(b) => UNCHANGED <<client, watchVars, callVars>>  BY IndexStepAlone
  <2> QED BY <2>1 DEF Exit, watchVars
<1>3. /\ \A o \in Bridge : o # b => server'[o] = server[o]
      /\ server'[b] = "up" => server[b] = "enterRename"
      /\ server[b] \in Opened => server'[b] \in Opened
  BY <1>1, Elsewhere
<1>4. \A o \in Bridge : /\ server[o] \in Opened => server'[o] \in Opened
                        /\ server[o] \in Opened /\ server'[o] = "up" => server[o] = "up"
  BY <1>3 DEF Opened, Leaving
<1>5. ~overlapped' => ~overlapped  BY OverlapStays
<1>6. \A c \in Client : wanted[c] \in RunId => Owner[wanted[c]] \in Bridge
  BY ControlAssumption
<1> QED BY <1>2, <1>4, <1>5, <1>6 DEF WalkInv, callVars

(* A command's own step keeps it too: it begins with every server that is  *)
(* up before it, and passes by none that would have served it.             *)
LEMMA WalkGoes ==
    ASSUME ControlTypeOK, IndexInv, WalkInv, NEW c \in Client, CommandStep(c)
    PROVE  WalkInv'
<1> USE DEF Moves
<1>1. IndexType /\ CommandType  BY ControlTypes
<1>2. server' = server /\ overlapped' = overlapped
  BY CommandStepAlone DEF serverVars
<1> DEFINE Walks(d) == ownerWasUp[d] =>
               /\ client[d] \in {"walking", "asking", "notFound"}
               /\ wanted[d] \in RunId
               /\ server[Owner[wanted[d]]] \in Opened
               /\ ~overlapped /\ ~slow[d] /\ server[Owner[wanted[d]]] = "up" =>
                      \/ Owner[wanted[d]] \in todo[d] /\ client[d] \in {"walking", "asking"}
                      \/ Owner[wanted[d]] = dialled[d] /\ client[d] = "asking"
<1>3. \A d \in Client : Walks(d)  BY DEF WalkInv
<1>4. \A d \in Client : d # c =>
          /\ client'[d] = client[d] /\ dialled'[d] = dialled[d] /\ todo'[d] = todo[d]
          /\ wanted'[d] = wanted[d] /\ ownerWasUp'[d] = ownerWasUp[d] /\ slow'[d] = slow[d]
  <2> USE <1>1 DEF CommandType, watchVars, callVars
  <2>1. CASE \E r \in RunId : ReadIndex(c, r)  BY <2>1 DEF ReadIndex
  <2>2. CASE \E b \in Bridge : DialWorks(c, b) \/ DialFails(c, b)
    BY <2>2 DEF DialWorks, DialFails
  <2>3. CASE AskNext(c) \/ AskTimesOut(c) \/ GiveUp(c) \/ Drop(c)
    BY <2>3 DEF AskNext, AskTimesOut, GiveUp, Drop
  <2>4. CASE AskArrives(c)  BY <2>4 DEF AskArrives, Forget
  <2>5. CASE \E r \in RunId \cup {None} : AttachFirst(c, r) \/ SwitchFrom(c, r)
    BY <2>5 DEF AttachFirst, SwitchFrom
  <2>6. CASE SwitchTo(c) \/ DetachVerb(c) \/ Noticed(c)
    BY <2>6 DEF SwitchTo, DetachVerb, Noticed
  <2> QED BY <2>1, <2>2, <2>3, <2>4, <2>5, <2>6 DEF CommandStep
<1>5. Walks(c)'
  <2> USE <1>1, <1>2 DEF CommandType, watchVars, callVars
  <2>1. CASE \E r \in RunId : ReadIndex(c, r)
    <3>1. PICK r \in RunId : ReadIndex(c, r)  BY <2>1
    <3>2. /\ client'[c] = "walking" /\ todo'[c] = LiveEntries /\ wanted'[c] = r
          /\ ownerWasUp'[c] = (server[Owner[r]] = "up")
      BY <3>1 DEF ReadIndex
    <3>3. Owner[r] \in Bridge  BY ControlAssumption
    <3>4. ~overlapped /\ server[Owner[r]] = "up" => Owner[r] \in LiveEntries
      BY <3>3 DEF IndexInv, AloneInv, LiveEntries, Alive
    <3> QED BY <3>2, <3>3, <3>4 DEF Opened
  <2>2. CASE \E b \in Bridge : DialWorks(c, b) \/ DialFails(c, b)
    <3>1. PICK b \in Bridge : DialWorks(c, b) \/ DialFails(c, b)  BY <2>2
    <3>2. CASE DialWorks(c, b)
      <4>1. /\ client[c] = "walking" /\ client'[c] = "asking" /\ dialled'[c] = b
            /\ todo'[c] = todo[c] \ {b} /\ wanted'[c] = wanted[c]
            /\ ownerWasUp'[c] = ownerWasUp[c] /\ slow'[c] = slow[c]
        BY <3>2 DEF DialWorks
      <4> QED BY <1>3, <4>1
    <3>3. CASE DialFails(c, b)
      <4>1. /\ client[c] = "walking" /\ client'[c] = "walking"
            /\ todo'[c] = todo[c] \ {b} /\ wanted'[c] = wanted[c]
            /\ ownerWasUp'[c] = ownerWasUp[c] /\ slow'[c] = slow[c]
        BY <3>3 DEF DialFails
      <4>2. server[b] # "up"  BY <3>3 DEF DialFails, Accepts, Alive
      <4> QED BY <1>3, <4>1, <4>2
    <3> QED BY <3>1, <3>2, <3>3
  <2>3. CASE AskNext(c)
    <3>1. /\ client[c] = "asking" /\ client'[c] = "walking" /\ todo'[c] = todo[c]
          /\ wanted'[c] = wanted[c] /\ ownerWasUp'[c] = ownerWasUp[c] /\ slow'[c] = slow[c]
      BY <2>3 DEF AskNext
    <3>2. Owner[wanted[c]] = dialled[c] => server[Owner[wanted[c]]] # "up"
      BY <2>3 DEF AskNext, SaysNo
    <3> QED BY <1>3, <3>1, <3>2
  <2>4. CASE AskArrives(c)
    <3>1. ownerWasUp'[c] = FALSE  BY <2>4 DEF AskArrives, Forget
    <3> QED BY <3>1
  <2>5. CASE AskTimesOut(c)
    <3>1. /\ client[c] = "asking" /\ client'[c] = "walking" /\ slow'[c] = TRUE
          /\ wanted'[c] = wanted[c] /\ ownerWasUp'[c] = ownerWasUp[c]
      BY <2>5 DEF AskTimesOut
    <3> QED BY <1>3, <3>1
  <2>6. CASE GiveUp(c)
    <3>1. /\ client[c] = "walking" /\ client'[c] = "notFound" /\ todo[c] = {}
          /\ wanted'[c] = wanted[c] /\ ownerWasUp'[c] = ownerWasUp[c] /\ slow'[c] = slow[c]
      BY <2>6 DEF GiveUp
    <3> QED BY <1>3, <3>1
  <2>7. CASE \/ \E r \in RunId \cup {None} : AttachFirst(c, r) \/ SwitchFrom(c, r)
             \/ SwitchTo(c) \/ DetachVerb(c) \/ Drop(c) \/ Noticed(c)
    <3>1. client[c] \in {"connected", "switching", "dropped"} /\ ownerWasUp' = ownerWasUp
      BY <2>7 DEF AttachFirst, SwitchFrom, SwitchTo, DetachVerb, Drop, Noticed
    <3>2. ~ownerWasUp[c]  BY <1>3, <3>1
    <3> QED BY <3>1, <3>2
  <2> QED BY <2>1, <2>2, <2>3, <2>4, <2>5, <2>6, <2>7 DEF CommandStep
<1>6. ASSUME NEW d \in Client, d # c  PROVE Walks(d)'
  BY <1>2, <1>3, <1>4, <1>6
<1>7. \A d \in Client : Walks(d)'  BY <1>5, <1>6
<1> QED BY <1>7 DEF WalkInv

(* Every step keeps both.                                                  *)
LEMMA ArriveNext ==
    ControlTypeOK /\ IndexInv /\ WalkInv /\ [ControlNext]_controlVars => IndexInv' /\ WalkInv'
<1> SUFFICES ASSUME ControlTypeOK, IndexInv, WalkInv, [ControlNext]_controlVars
             PROVE  IndexInv' /\ WalkInv'
  OBVIOUS
<1>1. IndexType  BY ControlTypes
<1>2. ASSUME NEW b \in Bridge, IndexStep(b) \/ Exit(b)  PROVE IndexInv' /\ WalkInv'
  <2>1. overlapped => overlapped'  BY <1>2, OverlapStays
  <2>2. IndexInv'  BY <1>1, <1>2, <2>1, AloneKept DEF IndexInv
  <2> QED BY <1>2, <2>2, WalkKept
<1>3. UNCHANGED <<serverVars, fileVars, overlapped>> => IndexInv'
  BY DEF IndexInv, AloneInv, Ready, NamedIn, Rewriting, serverVars, fileVars
<1>4. ASSUME NEW c \in Client, CommandStep(c)  PROVE IndexInv' /\ WalkInv'
  BY <1>3, <1>4, CommandStepAlone, WalkGoes
<1>5. CASE UNCHANGED controlVars
  BY <1>3, <1>5 DEF controlVars, WalkInv, serverVars, watchVars, callVars
<1>6. CASE ControlNext  BY <1>2, <1>4, <1>6, ControlSteps
<1> QED BY <1>5, <1>6

(* A command for a run whose server is up from its beginning to its end    *)
(* arrives, with any number of servers in the index, unless a round trip   *)
(* timed out or the index was rewritten by two servers at once.            *)
THEOREM ArrivesCorrect == ControlSpec => []CommandArrives
<1>1. ControlInit => IndexInv /\ WalkInv
  BY DEF ControlInit, IndexInv, AloneInv, Ready, Rewriting, Entering, Leaving, WalkInv
<1>2. WalkInv => CommandArrives  BY DEF WalkInv, CommandArrives
<1> QED BY <1>1, <1>2, ControlTypeCorrect, ArriveNext, PTL DEF ControlSpec
-----------------------------------------------------------------------------
(* Control: the counts of the watchers *)

(* Only a watcher's connection is attached; its server answers until the   *)
(* process ends, and nothing is attached to it then.  A command asks a     *)
(* server.                                                                 *)
LinkOf(c) ==
    /\ seen[c] # "no" => client[c] \in {"connected", "switching", "dropped"}
    /\ client[c] = "asking" => dialled[c] \in Bridge
    /\ client[c] \in {"connected", "switching", "dropped"} =>
           /\ dialled[c] \in Bridge
           /\ Answers(dialled[c]) \/ server[dialled[c]] = "gone"
           /\ server[dialled[c]] = "gone" => seen[c] = "no"

WatchInv == (\A c \in Client : LinkOf(c)) /\ WatchersExact

(* What another command has attached is not touched.                       *)
OthersStay(c) ==
    \A d \in Client : d # c =>
        /\ client'[d] = client[d] /\ dialled'[d] = dialled[d] /\ seen'[d] = seen[d]

(* The attachments at a target are finitely many.                          *)
LEMMA AttachedFinite ==
    ASSUME NEW b, NEW r
    PROVE  IsFiniteSet(Attached(b, r)) /\ Cardinality(Attached(b, r)) \in Nat
<1>1. Attached(b, r) \in SUBSET Client  BY DEF Attached
<1>2. IsFiniteSet(Attached(b, r))  BY <1>1, FS_Subset, ControlAssumption
<1> QED BY <1>2, FS_CardinalityType

(* The count after one up, or one down.                                    *)
LEMMA CountSteps ==
    ASSUME CommandType, NEW b \in Bridge, NEW r \in RunId \cup {None}
    PROVE  /\ Attach(b, r) => watchers'[b][r] = watchers[b][r] + 1
           /\ Detach(b, r) /\ watchers[b][r] > 0 => watchers'[b][r] = watchers[b][r] - 1
           /\ Attach(b, r) \/ Detach(b, r) =>
                  \A o \in Bridge, s \in RunId \cup {None} :
                      o # b \/ s # r => watchers'[o][s] = watchers[o][s]
<1>1. watchers \in [Bridge -> [RunId \cup {None} -> Nat]]  BY DEF CommandType
<1>2. CASE Attach(b, r)
  <2>1. watchers' = [watchers EXCEPT ![b] = [watchers[b] EXCEPT ![r] = watchers[b][r] + 1]]
    BY <1>1, <1>2 DEF Attach
  <2>2. watchers[b][r] \in Nat  BY <1>1
  <2>3. watchers'[b] = [watchers[b] EXCEPT ![r] = watchers[b][r] + 1]  BY <1>1, <2>1
  <2>4. \A o \in Bridge : o # b => watchers'[o] = watchers[o]  BY <1>1, <2>1
  <2>5. watchers'[b][r] = watchers[b][r] + 1  BY <1>1, <2>3
  <2>6. \A s \in RunId \cup {None} : s # r => watchers'[b][s] = watchers[b][s]  BY <1>1, <2>3
  <2>7. \A o \in Bridge, s \in RunId \cup {None} :
            o # b \/ s # r => watchers'[o][s] = watchers[o][s]
    BY <2>4, <2>6
  <2>8. watchers[b][r] > 0 => ~Detach(b, r)
    <3>1. Detach(b, r) /\ watchers[b][r] > 0 =>
              watchers' = [watchers EXCEPT ![b] = [watchers[b] EXCEPT ![r] = watchers[b][r] - 1]]
      BY <1>1 DEF Detach
    <3>2. Detach(b, r) /\ watchers[b][r] > 0 => watchers'[b][r] = watchers[b][r] - 1
      BY <1>1, <3>1
    <3> QED BY <2>2, <2>5, <3>2
  <2> QED BY <2>5, <2>7, <2>8
<1>3. CASE Detach(b, r) /\ ~Attach(b, r)
  <2> DEFINE n == IF watchers[b][r] > 0 THEN watchers[b][r] - 1 ELSE watchers[b][r]
  <2>1. watchers' = [watchers EXCEPT ![b] = [watchers[b] EXCEPT ![r] = n]]
    BY <1>1, <1>3 DEF Detach
  <2>2. watchers[b][r] > 0 => n = watchers[b][r] - 1  OBVIOUS
  <2> HIDE DEF n
  <2>3. watchers'[b] = [watchers[b] EXCEPT ![r] = n]  BY <1>1, <2>1
  <2>4. \A o \in Bridge : o # b => watchers'[o] = watchers[o]  BY <1>1, <2>1
  <2>5. watchers'[b][r] = n  BY <1>1, <2>3
  <2>6. \A s \in RunId \cup {None} : s # r => watchers'[b][s] = watchers[b][s]  BY <1>1, <2>3
  <2> QED BY <1>3, <2>2, <2>4, <2>5, <2>6
<1> QED BY <1>2, <1>3

(* Nothing counted, nothing attached.                                      *)
LEMMA CountSame ==
    ASSUME WatchersExact, NEW c \in Client, OthersStay(c), UNCHANGED watchers,
           \A b \in Bridge, r \in RunId \cup {None} :
               c \in Attached(b, r)' <=> c \in Attached(b, r)
    PROVE  WatchersExact'
<1> SUFFICES ASSUME NEW b \in Bridge, NEW r \in RunId \cup {None}
             PROVE  watchers'[b][r] = Cardinality(Attached(b, r)')
  BY DEF WatchersExact
<1>1. Attached(b, r)' = Attached(b, r)  BY DEF Attached, OthersStay
<1> QED BY <1>1 DEF WatchersExact

(* One more attached, and counted.                                         *)
LEMMA CountUp ==
    ASSUME CommandType, WatchersExact, NEW c \in Client, OthersStay(c),
           seen[c] = "no" \/ client[c] = "switching",
           NEW b \in Bridge, NEW r \in RunId \cup {None}, Attach(b, r),
           dialled'[c] = b, seen'[c] = r, client'[c] # "switching"
    PROVE  WatchersExact'
<1>1. \A o \in Bridge, s \in RunId \cup {None} : c \notin Attached(o, s)
  BY ControlAssumption DEF Attached
<1>2. Attached(b, r)' = Attached(b, r) \cup {c}
  BY DEF Attached, OthersStay
<1>3. ASSUME NEW o \in Bridge, NEW s \in RunId \cup {None}, o # b \/ s # r
      PROVE  Attached(o, s)' = Attached(o, s)
  BY <1>1, <1>3 DEF Attached, OthersStay
<1>4. Cardinality(Attached(b, r)') = Cardinality(Attached(b, r)) + 1
  <2>1. c \notin Attached(b, r) /\ IsFiniteSet(Attached(b, r))  BY <1>1, AttachedFinite
  <2>2. Cardinality(Attached(b, r) \cup {c}) = Cardinality(Attached(b, r)) + 1
    BY <2>1, FS_AddElement
  <2> QED BY <1>2, <2>2
<1>5. watchers'[b][r] = Cardinality(Attached(b, r)')
  BY <1>4, CountSteps DEF WatchersExact
<1>6. ASSUME NEW o \in Bridge, NEW s \in RunId \cup {None}, o # b \/ s # r
      PROVE  watchers'[o][s] = Cardinality(Attached(o, s)')
  <2>1. watchers'[o][s] = watchers[o][s]  BY <1>6, CountSteps
  <2> QED BY <1>3, <1>6, <2>1 DEF WatchersExact
<1>7. \A o \in Bridge, s \in RunId \cup {None} : watchers'[o][s] = Cardinality(Attached(o, s)')
  BY <1>5, <1>6
<1> QED BY <1>7 DEF WatchersExact

(* One fewer attached: its count was not 0, and is one lower.              *)
LEMMA CountDown ==
    ASSUME CommandType, WatchersExact, NEW c \in Client, OthersStay(c),
           NEW b \in Bridge, NEW r \in RunId \cup {None}, c \in Attached(b, r), Detach(b, r),
           seen'[c] = "no" \/ client'[c] = "switching"
    PROVE  WatchersExact'
<1>1. Attached(b, r)' = Attached(b, r) \ {c}
  BY ControlAssumption DEF Attached, OthersStay
<1>2. ASSUME NEW o \in Bridge, NEW s \in RunId \cup {None}, o # b \/ s # r
      PROVE  Attached(o, s)' = Attached(o, s)
  BY <1>2, ControlAssumption DEF Attached, OthersStay
<1>3. /\ Cardinality(Attached(b, r)') = Cardinality(Attached(b, r)) - 1
      /\ Cardinality(Attached(b, r)) > 0
  <2>1. Cardinality(Attached(b, r)') = Cardinality(Attached(b, r)) - 1
    BY <1>1, AttachedFinite, FS_RemoveElement
  <2>2. Cardinality(Attached(b, r)) # 0  BY AttachedFinite, FS_EmptySet
  <2> QED BY <2>1, <2>2, AttachedFinite
<1>4. watchers'[b][r] = Cardinality(Attached(b, r)')
  BY <1>3, CountSteps DEF WatchersExact
<1>5. ASSUME NEW o \in Bridge, NEW s \in RunId \cup {None}, o # b \/ s # r
      PROVE  watchers'[o][s] = Cardinality(Attached(o, s)')
  <2>1. watchers'[o][s] = watchers[o][s]  BY <1>5, CountSteps
  <2> QED BY <1>2, <1>5, <2>1 DEF WatchersExact
<1>6. \A o \in Bridge, s \in RunId \cup {None} : watchers'[o][s] = Cardinality(Attached(o, s)')
  BY <1>4, <1>5
<1> QED BY <1>6 DEF WatchersExact
(* A server that answers goes on answering until it ends.                  *)
LEMMA AnswersUntilGone ==
    ASSUME IndexType, NEW b \in Bridge, IndexStep(b)
    PROVE  \A o \in Bridge : /\ Answers(o) => Answers(o)'
                             /\ server[o] = "gone" => server'[o] = "gone"
                             /\ server'[o] = "gone" => server[o] = "gone"
<1>1. \A o \in Bridge : o # b => server'[o] = server[o]  BY Elsewhere
<1>2. /\ Answers(b) => Answers(b)'
      /\ server[b] # "gone" /\ server'[b] # "gone"
  <2> USE DEF Becomes, IndexType, Answers, Leaving
  <2>1. CASE Listen(b) \/ Register(b) \/ Close(b) \/ Deregister(b)
    BY <2>1 DEF Listen, Register, Close, Deregister
  <2>2. CASE OpenTmp(b) \/ WriteTmp(b)  BY <2>2 DEF OpenTmp, WriteTmp
  <2>3. CASE RenameTmp(b) \/ RenameFails(b)  BY <2>3 DEF RenameTmp, RenameFails
  <2> QED BY <2>1, <2>2, <2>3 DEF IndexStep
<1> QED BY <1>1, <1>2 DEF Answers

(* A process that ends: its counts are gone with its attachments.          *)
LEMMA ExitCounts ==
    ASSUME ControlTypeOK, WatchInv, NEW b \in Bridge, Exit(b)
    PROVE  WatchInv'
<1>1. IndexType /\ CommandType  BY ControlTypes
<1>2. /\ client' = client /\ dialled' = dialled
      /\ \A c \in Client : seen'[c] = IF dialled[c] = b THEN "no" ELSE seen[c]
      /\ \A o \in Bridge : server'[o] = IF o = b THEN "gone" ELSE server[o]
  BY <1>1 DEF Exit, Becomes, IndexType
<1>3. /\ watchers'[b] = [r \in RunId \cup {None} |-> 0]
      /\ \A o \in Bridge : o # b => watchers'[o] = watchers[o]
  BY <1>1 DEF Exit, CommandType
<1>4. ASSUME NEW c \in Client  PROVE LinkOf(c)'
  <2>1. LinkOf(c)  BY DEF WatchInv
  <2>2. dialled[c] \in Bridge /\ dialled[c] # b => (Answers(dialled[c])' <=> Answers(dialled[c]))
    BY <1>2 DEF Answers
  <2> QED BY <1>2, <2>1, <2>2 DEF LinkOf
<1>5. ASSUME NEW o \in Bridge, NEW r \in RunId \cup {None}
      PROVE  watchers'[o][r] = Cardinality(Attached(o, r)')
  <2>1. CASE o = b
    <3>1. Attached(o, r)' = {}
      BY <1>2, <2>1, ControlAssumption DEF Attached
    <3> QED BY <1>3, <2>1, <3>1, FS_EmptySet
  <2>2. CASE o # b
    <3>1. Attached(o, r)' = Attached(o, r)  BY <1>2, <2>2 DEF Attached
    <3> QED BY <1>3, <2>2, <3>1 DEF WatchInv, WatchersExact
  <2> QED BY <2>1, <2>2
<1> QED BY <1>4, <1>5 DEF WatchInv, WatchersExact

(* A command that is not a watcher attaches nothing.                       *)
LEMMA WalkCounts ==
    ASSUME ControlTypeOK, WatchInv, NEW c \in Client,
           \/ \E r \in RunId : ReadIndex(c, r)
           \/ \E b \in Bridge : DialWorks(c, b) \/ DialFails(c, b)
           \/ AskNext(c) \/ AskArrives(c) \/ AskTimesOut(c) \/ GiveUp(c)
    PROVE  WatchInv'
<1> USE DEF Moves, watchVars, callVars
<1>1. IndexType /\ CommandType /\ LinkOf(c)  BY ControlTypes DEF WatchInv
<1>2. /\ server' = server /\ watchers' = watchers /\ seen' = seen
      /\ client[c] \in {"idle", "walking", "asking"}
  BY DEF ReadIndex, DialWorks, DialFails, AskNext, AskArrives, AskTimesOut, GiveUp, serverVars
<1>3. seen[c] = "no"  BY <1>1, <1>2 DEF LinkOf
<1>4. OthersStay(c)
  <2> USE <1>1 DEF CommandType, OthersStay
  <2>1. CASE \E r \in RunId : ReadIndex(c, r)  BY <2>1 DEF ReadIndex
  <2>2. CASE \E b \in Bridge : DialWorks(c, b) \/ DialFails(c, b)
    BY <2>2 DEF DialWorks, DialFails
  <2>3. CASE AskNext(c) \/ AskArrives(c) \/ AskTimesOut(c) \/ GiveUp(c)
    BY <2>3 DEF AskNext, AskArrives, AskTimesOut, GiveUp
  <2> QED BY <2>1, <2>2, <2>3
<1>5. /\ client'[c] = "asking" => dialled'[c] \in Bridge
      /\ client'[c] \in {"connected", "switching", "dropped"} =>
             dialled'[c] \in Bridge /\ Answers(dialled'[c])
  <2> USE <1>1, <1>2 DEF CommandType
  <2>1. CASE \E r \in RunId : ReadIndex(c, r)  BY <2>1 DEF ReadIndex
  <2>2. CASE \E b \in Bridge : DialWorks(c, b) \/ DialFails(c, b)
    BY <2>2 DEF DialWorks, DialFails
  <2>3. CASE AskNext(c) \/ AskTimesOut(c) \/ GiveUp(c)
    BY <2>3 DEF AskNext, AskTimesOut, GiveUp
  <2>4. CASE AskArrives(c)
    <3>1. Owner[wanted[c]] = dialled[c] /\ Answers(dialled[c])  BY <2>4 DEF AskArrives
    <3>2. dialled[c] \in Bridge  BY <2>4 DEF AskArrives, LinkOf
    <3> QED BY <2>4, <3>1, <3>2 DEF AskArrives
  <2> QED BY <2>1, <2>2, <2>3, <2>4
<1>6. ASSUME NEW d \in Client  PROVE LinkOf(d)'
  <2>1. CASE d = c  BY <1>2, <1>3, <1>5, <2>1 DEF LinkOf, Answers, Leaving
  <2>2. CASE d # c
    BY <1>2, <1>4, <2>2 DEF WatchInv, LinkOf, OthersStay, Answers
  <2> QED BY <2>1, <2>2
<1>7. WatchersExact'
  <2>1. \A b \in Bridge, r \in RunId \cup {None} :
            c \in Attached(b, r)' <=> c \in Attached(b, r)
    BY <1>2, <1>3, ControlAssumption DEF Attached
  <2> QED BY <1>2, <1>4, <2>1, CountSame DEF WatchInv
<1> QED BY <1>6, <1>7 DEF WatchInv

(* A watcher's connection that attaches, switches, detaches or drops.      *)
LEMMA WatcherCounts ==
    ASSUME ControlTypeOK, WatchInv, NEW c \in Client,
           \/ \E r \in RunId \cup {None} : AttachFirst(c, r) \/ SwitchFrom(c, r)
           \/ SwitchTo(c) \/ DetachVerb(c) \/ Drop(c) \/ Noticed(c)
    PROVE  WatchInv'
<1> USE DEF Moves, Sees, watchVars, callVars
<1>1. CommandType /\ LinkOf(c) /\ WatchersExact  BY ControlTypes DEF WatchInv
<1>2. server' = server /\ client[c] \in {"connected", "switching", "dropped"}
  BY DEF AttachFirst, SwitchFrom, SwitchTo, DetachVerb, Drop, Noticed, serverVars
<1>3. OthersStay(c)
  <2> USE <1>1 DEF CommandType, OthersStay
  <2>1. CASE \E r \in RunId \cup {None} : AttachFirst(c, r) \/ SwitchFrom(c, r)
    BY <2>1 DEF AttachFirst, SwitchFrom
  <2>2. CASE SwitchTo(c) \/ DetachVerb(c)  BY <2>2 DEF SwitchTo, DetachVerb
  <2>3. CASE Drop(c) \/ Noticed(c)  BY <2>3 DEF Drop, Noticed
  <2> QED BY <2>1, <2>2, <2>3
<1>4. Serves(c) => server[dialled[c]] # "gone" /\ dialled[c] \in Bridge
  BY <1>1, <1>2 DEF Serves, Answers, LinkOf, Leaving
<1>5. ASSUME NEW d \in Client  PROVE LinkOf(d)'
  <2>1. CASE d # c
    BY <1>2, <1>3, <2>1 DEF WatchInv, LinkOf, OthersStay, Answers
  <2>2. CASE d = c
    <3> USE <1>1, <2>2 DEF CommandType
    <3>1. CASE \/ \E r \in RunId \cup {None} : AttachFirst(c, r) \/ SwitchFrom(c, r)
               \/ SwitchTo(c) \/ DetachVerb(c)
      <4>1. /\ Serves(c) /\ dialled'[c] = dialled[c]
            /\ client'[c] \in {"connected", "switching"}
        BY <3>1 DEF AttachFirst, SwitchFrom, SwitchTo, DetachVerb
      <4> QED BY <1>2, <1>4, <4>1 DEF LinkOf, Serves, Answers
    <3>2. CASE Drop(c)
      BY <1>2, <3>2 DEF Drop, LinkOf, Answers
    <3>3. CASE Noticed(c)
      <4>1. client'[c] = "reached" /\ seen'[c] = "no"  BY <3>3 DEF Noticed
      <4> QED BY <4>1 DEF LinkOf
    <3> QED BY <3>1, <3>2, <3>3
  <2> QED BY <2>1, <2>2
<1>6. WatchersExact'
  <2> USE <1>1 DEF CommandType
  <2>1. ASSUME NEW r \in RunId \cup {None}, AttachFirst(c, r)  PROVE WatchersExact'
    <3>1. /\ dialled[c] \in Bridge /\ seen[c] = "no" /\ Attach(dialled[c], r)
          /\ dialled'[c] = dialled[c] /\ seen'[c] = r /\ client'[c] # "switching"
      BY <1>4, <2>1 DEF AttachFirst
    <3> QED BY <1>3, <3>1, CountUp
  <2>2. ASSUME NEW r \in RunId \cup {None}, SwitchFrom(c, r)  PROVE WatchersExact'
    <3>1. /\ dialled[c] \in Bridge /\ seen[c] \in RunId \cup {None}
          /\ Detach(dialled[c], seen[c]) /\ client'[c] = "switching"
      BY <1>4, <2>2 DEF SwitchFrom
    <3>2. c \in Attached(dialled[c], seen[c])  BY <2>2 DEF SwitchFrom, Attached
    <3> QED BY <1>3, <3>1, <3>2, CountDown
  <2>3. CASE SwitchTo(c)
    <3>1. /\ dialled[c] \in Bridge /\ wanted[c] \in RunId \cup {None} /\ client[c] = "switching"
          /\ Attach(dialled[c], wanted[c])
          /\ dialled'[c] = dialled[c] /\ seen'[c] = wanted[c] /\ client'[c] # "switching"
      BY <1>4, <2>3 DEF SwitchTo
    <3> QED BY <1>3, <3>1, CountUp
  <2>4. CASE DetachVerb(c)
    <3>1. /\ dialled[c] \in Bridge /\ seen[c] \in RunId \cup {None}
          /\ Detach(dialled[c], seen[c]) /\ seen'[c] = "no"
      BY <1>4, <2>4 DEF DetachVerb
    <3>2. c \in Attached(dialled[c], seen[c])  BY <2>4 DEF DetachVerb, Attached
    <3> QED BY <1>3, <3>1, <3>2, CountDown
  <2>5. CASE Drop(c)
    <3>1. /\ dialled'[c] = dialled[c] /\ seen'[c] = seen[c] /\ watchers' = watchers
          /\ client[c] = "connected" /\ client'[c] = "dropped"
      BY <2>5 DEF Drop
    <3>2. \A b \in Bridge, r \in RunId \cup {None} :
              c \in Attached(b, r)' <=> c \in Attached(b, r)
      BY <3>1 DEF Attached
    <3> QED BY <1>3, <3>1, <3>2, CountSame
  <2>6. CASE Noticed(c)
    <3>1. client[c] = "dropped" /\ seen'[c] = "no"  BY <2>6 DEF Noticed
    <3>2. CASE Serves(c) /\ seen[c] # "no"
      <4>1. /\ dialled[c] \in Bridge /\ seen[c] \in RunId \cup {None}
            /\ Detach(dialled[c], seen[c])
        BY <1>4, <2>6, <3>2 DEF Noticed
      <4>2. c \in Attached(dialled[c], seen[c])  BY <3>1 DEF Attached
      <4> QED BY <1>3, <3>1, <4>1, <4>2, CountDown
    <3>3. CASE ~(Serves(c) /\ seen[c] # "no")
      <4>1. seen[c] = "no"
        BY <3>1, <3>3, ControlAssumption DEF LinkOf, Serves
      <4>2. watchers' = watchers  BY <2>6, <3>3 DEF Noticed
      <4>3. \A b \in Bridge, r \in RunId \cup {None} :
                c \in Attached(b, r)' <=> c \in Attached(b, r)
        BY <3>1, <4>1, ControlAssumption DEF Attached
      <4> QED BY <1>3, <4>2, <4>3, CountSame
    <3> QED BY <3>2, <3>3
  <2> QED BY <2>1, <2>2, <2>3, <2>4, <2>5, <2>6
<1> QED BY <1>5, <1>6 DEF WatchInv

(* Every step keeps the links and the counts.                              *)
LEMMA WatchNext == ControlTypeOK /\ WatchInv /\ [ControlNext]_controlVars => WatchInv'
<1> SUFFICES ASSUME ControlTypeOK, WatchInv, [ControlNext]_controlVars PROVE WatchInv'  OBVIOUS
<1>1. IndexType  BY ControlTypes
<1>2. UNCHANGED <<watchers, client, watchVars>> /\
          (\A b \in Bridge : /\ Answers(b) => Answers(b)'
                             /\ server[b] = "gone" <=> server'[b] = "gone")
      => WatchInv'
  BY DEF WatchInv, LinkOf, WatchersExact, Attached, watchVars
<1>3. ASSUME NEW b \in Bridge, IndexStep(b)  PROVE WatchInv'
  BY <1>1, <1>2, <1>3, IndexStepAlone, AnswersUntilGone
<1>4. ASSUME NEW b \in Bridge, Exit(b)  PROVE WatchInv'  BY <1>4, ExitCounts
<1>5. ASSUME NEW c \in Client, CommandStep(c)  PROVE WatchInv'
  BY <1>5, WalkCounts, WatcherCounts DEF CommandStep
<1>6. CASE UNCHANGED controlVars
  BY <1>2, <1>6 DEF controlVars, serverVars, Answers
<1>7. CASE ControlNext  BY <1>3, <1>4, <1>5, <1>7, ControlSteps
<1> QED BY <1>6, <1>7

(* A server's counts are its connections' attachments, through repeated    *)
(* attaches, switches, detaches and connections that drop, for any number  *)
(* of connections: none is lost, and none stays behind.                    *)
THEOREM WatchersCorrect == ControlSpec => []WatchersExact
<1>1. ControlInit => WatchInv
  <2> SUFFICES ASSUME ControlInit PROVE WatchInv  OBVIOUS
  <2>1. \A b \in Bridge, r \in RunId \cup {None} : Attached(b, r) = {}
    BY ControlAssumption DEF ControlInit, Attached
  <2>2. WatchersExact  BY <2>1, FS_EmptySet DEF ControlInit, WatchersExact
  <2> QED BY <2>2 DEF ControlInit, WatchInv, LinkOf
<1>2. WatchInv => WatchersExact  BY DEF WatchInv
<1> QED BY <1>1, <1>2, ControlTypeCorrect, WatchNext, PTL DEF ControlSpec

-----------------------------------------------------------------------------
(* Named pipe: types *)

(* What CancelIoEx leaves is a state of the kernel.                        *)
LEMMA CancelType ==
    ASSUME PipeTypeOK, NEW dirs
    PROVE  CancelPending(dirs) \in [Dir -> Io]
BY DEF PipeTypeOK, CancelPending, Io

(* A misuse is one of three.                                               *)
LEMMA MisuseType ==
    ASSUME PipeTypeOK
    PROVE  /\ UsesHandle => misuse' \subseteq {"handle", "event", "close"}
           /\ UsesEvents => misuse' \subseteq {"handle", "event", "close"}
           /\ ClosesHandle => misuse' \subseteq {"handle", "event", "close"}
BY DEF PipeTypeOK, UsesHandle, UsesEvents, ClosesHandle, Misused

(* An operation's steps keep the types.                                    *)
LEMMA OpType ==
    ASSUME PipeTypeOK, NEW d \in Dir, Enter(d) \/ OpStepOf(d) \/ WaitFails(d)
    PROVE  PipeTypeOK'
<1> USE DEF PipeTypeOK, OpStep, At, handleVars, opVars, dlVars, closeVars, peerVars
<1>1. CASE Enter(d)  BY <1>1 DEF Enter
<1>2. CASE Issue(d)
  <2>1. misuse' \subseteq {"handle", "event", "close"}
    BY <1>2 DEF Issue, Misused
  <2>2. io' \in [Dir -> Io] /\ unread' \in BOOLEAN  BY <1>2 DEF Issue, Io
  <2>3. op' \in [Dir -> OpStep]  BY <1>2 DEF Issue
  <2> QED BY <1>2, <2>1, <2>2, <2>3 DEF Issue
<1>3. CASE Look(d)
  <2>1. op' \in [Dir -> OpStep] /\ timed' \in [Dir -> BOOLEAN]  BY <1>3 DEF Look
  <2> QED BY <1>3, <2>1 DEF Look
<1>4. CASE Wake(d)
  <2>1. op' \in [Dir -> OpStep]  BY <1>4 DEF Wake
  <2> QED BY <1>4, <2>1, MisuseType DEF Wake
<1>5. CASE Cancel(d)  BY <1>5, CancelType, MisuseType DEF Cancel
<1>6. CASE CancelFails(d)
  <2>1. op' \in [Dir -> OpStep]  BY <1>6 DEF CancelFails
  <2> QED BY <1>6, <2>1, MisuseType DEF CancelFails
<1>7. CASE Abort(d)
  <2>1. handle' \in BOOLEAN  BY <1>7 DEF Abort, ClosesHandle
  <2> QED BY <1>7, <2>1, CancelType, MisuseType DEF Abort
<1>8. CASE Collect(d)  BY <1>8, MisuseType DEF Collect, Io
<1>9. CASE WaitFails(d)  BY <1>9, MisuseType DEF WaitFails
<1> QED BY <1>1, <1>2, <1>3, <1>4, <1>5, <1>6, <1>7, <1>8, <1>9 DEF OpStepOf

(* So do the deadlines and their timers.                                   *)
LEMMA DeadlineType ==
    ASSUME PipeTypeOK, NEW d \in Dir,
           (\E t \in Deadline : SetDeadline(d, t)) \/ TimePasses(d) \/ TimerStep(d)
    PROVE  PipeTypeOK'
<1> USE DEF PipeTypeOK, handleVars, opVars, dlVars, closeVars, peerVars
<1>1. ASSUME NEW t \in Deadline, SetDeadline(d, t)  PROVE PipeTypeOK'
  <2>1. gen' \in [Dir -> Gen]
    BY <1>1, PipeAssumption DEF SetDeadline, Gen
  <2> QED BY <1>1, <2>1, MisuseType DEF SetDeadline
<1>2. CASE TimePasses(d)  BY <1>2 DEF TimePasses, Deadline
<1>3. CASE TimerFires(d)  BY <1>3 DEF TimerFires
<1>4. ASSUME NEW g \in Gen, Expire(d, g)  PROVE PipeTypeOK'
  <2>1. firing' \in [Dir -> SUBSET Gen] /\ dlEv' \in [Dir -> BOOLEAN]
    BY <1>4 DEF Expire
  <2>2. misuse' \subseteq {"handle", "event", "close"}
    BY <1>4, MisuseType DEF Expire
  <2> QED BY <1>4, <2>1, <2>2 DEF Expire
<1> QED BY <1>1, <1>2, <1>3, <1>4 DEF TimerStep

(* So does Close.                                                          *)
LEMMA CloseType ==
    ASSUME PipeTypeOK, CloseSignals \/ CloseGoesOn
    PROVE  PipeTypeOK'
<1> USE DEF PipeTypeOK, CloseStep, CloseAt, handleVars, opVars, dlVars, closeVars, peerVars
<1>1. CASE CloseSignals  BY <1>1, MisuseType DEF CloseSignals
<1>2. CASE CloseCancels  BY <1>2, CancelType, MisuseType DEF CloseCancels
<1>3. CASE CloseLocks  BY <1>3 DEF CloseLocks
<1>4. CASE Flush  BY <1>4, MisuseType DEF Flush
<1>5. CASE CloseTheHandle
  <2>1. handle' \in BOOLEAN  BY <1>5 DEF CloseTheHandle, ClosesHandle
  <2> QED BY <1>5, <2>1, MisuseType DEF CloseTheHandle
<1>6. CASE StopDeadlines  BY <1>6 DEF StopDeadlines
<1>7. CASE DestroyEvents  BY <1>7 DEF DestroyEvents
<1> QED BY <1>1, <1>2, <1>3, <1>4, <1>5, <1>6, <1>7 DEF CloseGoesOn

(* So do the kernel and the other end: PipeTypeOK is inductive.                *)
LEMMA PipeNextType == PipeTypeOK /\ [PipeNext]_pipeVars => PipeTypeOK'
<1> SUFFICES ASSUME PipeTypeOK, [PipeNext]_pipeVars  PROVE PipeTypeOK'  OBVIOUS
<1> USE DEF PipeTypeOK, handleVars, opVars, dlVars, closeVars, peerVars
<1>1. ASSUME NEW d \in Dir, Transfer(d)  PROVE PipeTypeOK'  BY <1>1 DEF Transfer, Io
<1>2. ASSUME NEW d \in Dir, Acknowledge(d)  PROVE PipeTypeOK'
  BY <1>2 DEF Acknowledge, Io
<1>3. CASE PeerReads  BY <1>3 DEF PeerReads
<1>4. CASE PeerLeaves  BY <1>4 DEF PeerLeaves, Io
<1>5. CASE UNCHANGED pipeVars  BY <1>5 DEF pipeVars
<1> QED BY <1>1, <1>2, <1>3, <1>4, <1>5, OpType, DeadlineType, CloseType DEF PipeNext

(* Every variable keeps its type.                                          *)
THEOREM PipeTypeCorrect == PipeSpec => []PipeTypeOK
<1>1. PipeInit => PipeTypeOK
  <2>1. 0 \in Gen  BY PipeAssumption DEF Gen
  <2> SUFFICES ASSUME PipeInit  PROVE PipeTypeOK  OBVIOUS
  <2> USE DEF PipeInit
  <2>2. op \in [Dir -> OpStep] /\ io \in [Dir -> Io] /\ timed \in [Dir -> BOOLEAN]
    BY DEF OpStep, Io
  <2>3. /\ deadline \in [Dir -> Deadline] /\ dlEv \in [Dir -> BOOLEAN]
        /\ armed \in [Dir -> BOOLEAN]
    BY DEF Deadline
  <2>4. gen \in [Dir -> Gen] /\ firing \in [Dir -> SUBSET Gen]  BY <2>1
  <2>5. closer \in CloseStep  BY DEF CloseStep
  <2> QED BY <2>2, <2>3, <2>4, <2>5 DEF PipeTypeOK
<1> QED BY <1>1, PipeNextType, PTL DEF PipeSpec

-----------------------------------------------------------------------------
(* Named pipe: deadlines *)

(* Only these four move a deadline, its event or its timers.               *)
LEMMA DeadlineSteps ==
    ASSUME [PipeNext]_pipeVars
    PROVE  \/ \E d \in Dir : \/ \E t \in Deadline : SetDeadline(d, t)
                             \/ TimePasses(d)
                             \/ TimerStep(d)
           \/ UNCHANGED <<deadline, dlEv, gen, firing>>
<1> USE DEF dlVars
<1>1. ASSUME NEW d \in Dir,
             Enter(d) \/ OpStepOf(d) \/ WaitFails(d) \/ Transfer(d) \/ Acknowledge(d)
      PROVE  UNCHANGED <<deadline, dlEv, gen, firing>>
  <2>1. CASE Enter(d) \/ Issue(d) \/ Look(d) \/ Wake(d) \/ WaitFails(d)
    BY <2>1 DEF Enter, Issue, Look, Wake, WaitFails
  <2>2. CASE Cancel(d) \/ CancelFails(d) \/ Abort(d) \/ Collect(d)
    BY <2>2 DEF Cancel, CancelFails, Abort, Collect
  <2>3. CASE Transfer(d) \/ Acknowledge(d)  BY <2>3 DEF Transfer, Acknowledge
  <2> QED BY <1>1, <2>1, <2>2, <2>3 DEF OpStepOf
<1>2. CASE CloseSignals \/ CloseGoesOn
  BY <1>2 DEF CloseSignals, CloseGoesOn, CloseCancels, CloseLocks, Flush, CloseTheHandle,
              StopDeadlines, DestroyEvents
<1>3. CASE PeerReads \/ PeerLeaves \/ UNCHANGED pipeVars
  BY <1>3 DEF PeerReads, PeerLeaves, pipeVars
<1> QED BY <1>1, <1>2, <1>3 DEF PipeNext

(* TimerInv is inductive, given the types: a deadline that is moved gets a *)
(* generation that no timer under way has.                                 *)
LEMMA TimerNext == PipeTypeOK /\ TimerInv /\ [PipeNext]_pipeVars => TimerInv'
<1> SUFFICES ASSUME PipeTypeOK, TimerInv, [PipeNext]_pipeVars  PROVE TimerInv'  OBVIOUS
<1> USE DEF PipeTypeOK, Gen
<1>1. MaxMoves \in Nat  BY PipeAssumption
<1>2. ASSUME NEW d \in Dir, NEW t \in Deadline, SetDeadline(d, t)  PROVE TimerInv'
  <2>1. ASSUME NEW e \in Dir, dlEv'[e]  PROVE deadline'[e] = "past"
    BY <1>2, <2>1 DEF SetDeadline, TimerInv, DeadlineExact
  <2>2. ASSUME NEW e \in Dir, NEW g \in firing'[e]
        PROVE  g <= gen'[e] /\ (g = gen'[e] => deadline'[e] = "past")
    BY <1>1, <1>2, <2>2 DEF SetDeadline, TimerInv
  <2> QED BY <2>1, <2>2 DEF TimerInv, DeadlineExact
<1>3. ASSUME NEW d \in Dir, TimePasses(d)  PROVE TimerInv'
  BY <1>3 DEF TimePasses, TimerInv, DeadlineExact
<1>4. ASSUME NEW d \in Dir, TimerFires(d)  PROVE TimerInv'
  BY <1>1, <1>4 DEF TimerFires, TimerInv, DeadlineExact
<1>5. ASSUME NEW d \in Dir, NEW g \in Gen, Expire(d, g)  PROVE TimerInv'
  <2>1. ASSUME NEW e \in Dir, dlEv'[e]  PROVE deadline'[e] = "past"
    BY <1>5, <2>1 DEF Expire, StillMeant, TimerInv, DeadlineExact
  <2> QED BY <1>5, <2>1 DEF Expire, TimerInv, DeadlineExact
<1>6. CASE UNCHANGED <<deadline, dlEv, gen, firing>>
  BY <1>6 DEF TimerInv, DeadlineExact
<1> QED BY <1>2, <1>3, <1>4, <1>5, <1>6, DeadlineSteps DEF TimerStep

(* A deadline's event is set only when the deadline in force has passed,   *)
(* however late the timer of an earlier one goes off (expire compares the  *)
(* generation under deadlineMu).                                           *)
THEOREM DeadlinesCorrect == PipeSpec => []DeadlineExact
<1>1. PipeInit => TimerInv  BY DEF PipeInit, TimerInv, DeadlineExact
<1>2. TimerInv => DeadlineExact  BY DEF TimerInv
<1> QED BY <1>1, <1>2, TimerNext, PipeTypeCorrect, PTL DEF PipeSpec

-----------------------------------------------------------------------------
(* Named pipe: close and the operations *)

(* LockInv is inductive: no operation begins under Close's write lock, and *)
(* closed is set when it ends.                                             *)
LEMMA LockNext == PipeTypeOK /\ LockInv /\ [PipeNext]_pipeVars => LockInv'
<1> SUFFICES ASSUME PipeTypeOK, LockInv, [PipeNext]_pipeVars  PROVE LockInv'  OBVIOUS
<1> USE DEF LockInv, Shut
<1>1. ASSUME NEW d \in Dir, Enter(d) \/ OpStepOf(d) \/ WaitFails(d)  PROVE LockInv'
  <2>1. UNCHANGED <<closer, closed, events, dlDead>>
    BY <1>1 DEF Enter, OpStepOf, Issue, Look, Wake, WaitFails, Cancel, CancelFails, Abort,
                Collect, dlVars, closeVars
  <2>2. ~Shut
    BY <1>1 DEF Enter, MayRLock, OpStepOf, Issue, Look, Wake, WaitFails, Cancel, CancelFails,
                Abort, Collect, At
  <2> QED BY <2>1, <2>2
<1>2. ASSUME NEW d \in Dir,
             \/ \E t \in Deadline : SetDeadline(d, t)
             \/ TimePasses(d) \/ TimerStep(d) \/ Transfer(d) \/ Acknowledge(d)
      PROVE  LockInv'
  <2>1. UNCHANGED <<closer, closed, events, dlDead, op>>
    BY <1>2 DEF SetDeadline, TimePasses, TimerStep, TimerFires, Expire, Transfer,
                Acknowledge, opVars, closeVars, dlVars
  <2> QED BY <2>1
<1>3. CASE CloseSignals
  BY <1>3 DEF CloseSignals, CloseAt, dlVars, opVars
<1>4. CASE CloseCancels
  BY <1>4 DEF CloseCancels, CloseAt, dlVars
<1>5. CASE CloseLocks
  <2>1. closer = "locking" /\ closer' \in {"silencing", "flushing", "closing"}
    BY <1>5 DEF CloseLocks, CloseAt
  <2> QED BY <1>5, <2>1 DEF CloseLocks, dlVars, opVars
<1>6. CASE Flush  BY <1>6 DEF Flush, CloseAt, dlVars, opVars
<1>7. CASE CloseTheHandle  BY <1>7 DEF CloseTheHandle, CloseAt, dlVars, opVars
<1>8. CASE StopDeadlines  BY <1>8 DEF StopDeadlines, CloseAt, opVars
<1>9. CASE DestroyEvents  BY <1>9 DEF DestroyEvents, CloseAt, dlVars, opVars
<1>10. CASE PeerReads \/ PeerLeaves \/ UNCHANGED pipeVars
  BY <1>10 DEF PeerReads, PeerLeaves, pipeVars, dlVars, opVars, closeVars
<1> QED BY <1>1, <1>2, <1>3, <1>4, <1>5, <1>6, <1>7, <1>8, <1>9, <1>10
        DEF PipeNext, CloseGoesOn

(* HandleInv is inductive: aborted lets one closer of the handle through,  *)
(* and Close looks at it when no operation is left.                        *)
LEMMA HandleNext == PipeTypeOK /\ LockInv /\ HandleInv /\ [PipeNext]_pipeVars => HandleInv'
<1> SUFFICES ASSUME PipeTypeOK, LockInv, HandleInv, [PipeNext]_pipeVars  PROVE HandleInv'
  OBVIOUS
<1> USE DEF HandleInv, Shut
<1>1. ASSUME NEW d \in Dir,
             \/ Enter(d) \/ Issue(d) \/ Look(d) \/ Wake(d) \/ WaitFails(d)
             \/ Cancel(d) \/ Collect(d)
      PROVE  HandleInv'
  <2>1. UNCHANGED <<handle, aborted, forced, closer>>
    BY <1>1 DEF Enter, Issue, Look, Wake, WaitFails, Cancel, Collect, handleVars, closeVars
  <2>2. /\ \A e \in Dir \ {d} : op'[e] = op[e]
        /\ op'[d] # "aborting"
    BY <1>1 DEF Enter, Issue, Look, Wake, WaitFails, Cancel, Collect, At, PipeTypeOK
  <2> QED BY <2>1, <2>2
<1>2. ASSUME NEW d \in Dir, CancelFails(d)  PROVE HandleInv'
  <2>1. /\ op[d] = "cancelling" /\ aborted' /\ forced'
        /\ handle' = handle /\ closer' = closer
        /\ op' = [op EXCEPT ![d] = IF aborted THEN "idle" ELSE "aborting"]
    BY <1>2 DEF CancelFails, At, closeVars
  <2>2. CASE aborted  BY <2>1, <2>2 DEF PipeTypeOK
  <2>3. CASE ~aborted
    <3>1. handle /\ \A e \in Dir : op[e] # "aborting"  BY <2>3
    <3> QED BY <2>1, <2>3, <3>1 DEF PipeTypeOK
  <2> QED BY <2>2, <2>3
<1>3. ASSUME NEW d \in Dir, Abort(d)  PROVE HandleInv'
  <2>1. /\ op[d] = "aborting" /\ op' = [op EXCEPT ![d] = "idle"]
        /\ aborted' = aborted /\ forced' = forced /\ closer' = closer
    BY <1>3 DEF Abort, At, closeVars
  <2>2. aborted /\ forced /\ \A e \in Dir : op'[e] # "aborting"
    BY <2>1 DEF PipeTypeOK
  <2>3. ~Shut  BY <2>1 DEF LockInv
  <2> QED BY <2>1, <2>2, <2>3
<1>4. ASSUME NEW d \in Dir,
             \/ \E t \in Deadline : SetDeadline(d, t)
             \/ TimePasses(d) \/ TimerStep(d) \/ Transfer(d) \/ Acknowledge(d)
      PROVE  HandleInv'
  <2>1. UNCHANGED <<handle, aborted, forced, closer, op>>
    BY <1>4 DEF SetDeadline, TimePasses, TimerStep, TimerFires, Expire, Transfer,
                Acknowledge, opVars, closeVars, handleVars
  <2> QED BY <2>1
<1>5. CASE CloseSignals
  BY <1>5 DEF CloseSignals, CloseAt, handleVars, opVars
<1>6. CASE CloseCancels
  BY <1>6 DEF CloseCancels, CloseAt, handleVars
<1>7. CASE CloseLocks
  <2>1. /\ \A d \in Dir : op'[d] = "idle"
        /\ closer' \in {"flushing", "closing"} => ~aborted
        /\ closer' \in {"flushing", "closing", "silencing"}
        /\ aborted' /\ handle' = handle /\ forced' = forced
    BY <1>7 DEF CloseLocks, CloseAt, opVars
  <2>2. ~handle /\ ~forced => closer' \in {"silencing", "destroying", "done"}
    BY <2>1
  <2> QED BY <2>1, <2>2
<1>8. CASE Flush  BY <1>8 DEF Flush, CloseAt, handleVars, opVars
<1>9. CASE CloseTheHandle
  <2>1. \A d \in Dir : op[d] = "idle"
    BY <1>9 DEF CloseTheHandle, CloseAt, LockInv, Shut
  <2>2. aborted
    BY <1>9 DEF CloseTheHandle, CloseAt
  <2> QED BY <1>9, <2>1, <2>2 DEF CloseTheHandle, CloseAt, opVars
<1>10. CASE StopDeadlines  BY <1>10 DEF StopDeadlines, CloseAt, handleVars, opVars
<1>11. CASE DestroyEvents  BY <1>11 DEF DestroyEvents, CloseAt, handleVars, opVars
<1>12. CASE PeerReads \/ PeerLeaves \/ UNCHANGED pipeVars
  BY <1>12 DEF PeerReads, PeerLeaves, pipeVars, handleVars, opVars, closeVars
<1> QED BY <1>1, <1>2, <1>3, <1>4, <1>5, <1>6, <1>7, <1>8, <1>9, <1>10, <1>11, <1>12
        DEF PipeNext, OpStepOf, CloseGoesOn


(* An open connection that nobody uses yet satisfies both.                 *)
LEMMA HandleInit == PipeInit => LockInv /\ HandleInv
BY DEF PipeInit, LockInv, HandleInv, Shut

(* A step that uses the handle or the events while they are there, or      *)
(* after an operation had to close the handle, and ends no operation.      *)
LEMMA BufferFrame ==
    ASSUME BufferInv, forced' = forced, UNCHANGED <<op, io>>, misuse' \subseteq misuse
    PROVE  BufferInv'
BY DEF BufferInv, HandleSafe

(* BufferInv is inductive: what is used is still there, and an operation   *)
(* ends by collecting what the kernel has of it.                           *)
LEMMA BufferNext ==
    PipeTypeOK /\ LockInv /\ HandleInv /\ BufferInv /\ [PipeNext]_pipeVars => BufferInv'
<1> SUFFICES ASSUME PipeTypeOK, LockInv, HandleInv, BufferInv, [PipeNext]_pipeVars
             PROVE  BufferInv'
  OBVIOUS
<1>1. \A d \in Dir : op[d] # "idle" => ~Shut /\ events /\ (handle \/ forced)
  BY DEF LockInv, HandleInv, Shut
<1>2. misuse \subseteq IF forced THEN {"handle"} ELSE {}
  BY DEF BufferInv, HandleSafe
<1>3. ASSUME NEW d \in Dir, Enter(d)  PROVE BufferInv'
  <2>1. /\ op' = [op EXCEPT ![d] = "entered"] /\ op[d] = "idle"
        /\ io' = io /\ forced' = forced /\ misuse' = misuse
    BY <1>3 DEF Enter, At, handleVars
  <2> QED BY <2>1 DEF BufferInv, HandleSafe, PipeTypeOK
<1>4. ASSUME NEW d \in Dir, Issue(d)  PROVE BufferInv'
  <2>1. forced' = forced /\ op[d] = "entered"  BY <1>4 DEF Issue, handleVars
  <2>2. misuse' \subseteq IF forced THEN {"handle"} ELSE {}
    BY <1>1, <1>2, <1>4, <2>1 DEF Issue, Misused
  <2>3. \A e \in Dir \ {d} : op'[e] = op[e] /\ io'[e] = io[e]
    BY <1>4 DEF Issue, At, PipeTypeOK
  <2>4. \/ op'[d] \in {"checking", "collecting"}
        \/ op'[d] = "idle" /\ io'[d] = io[d]
    BY <1>4 DEF Issue, At, PipeTypeOK
  <2> QED BY <2>1, <2>2, <2>3, <2>4 DEF BufferInv, HandleSafe
<1>5. ASSUME NEW d \in Dir, Look(d) \/ Wake(d) \/ WaitFails(d)  PROVE BufferInv'
  <2>1. /\ forced' = forced /\ io' = io /\ op[d] # "idle"
        /\ misuse' = misuse \/ UsesEvents
    BY <1>5 DEF Look, Wake, WaitFails, At, handleVars
  <2>2. misuse' = misuse  BY <1>1, <2>1 DEF UsesEvents, Misused
  <2>3. /\ \A e \in Dir \ {d} : op'[e] = op[e]
        /\ op'[d] \in {"checking", "waiting", "cancelling", "collecting"}
    BY <1>5 DEF Look, Wake, WaitFails, At, PipeTypeOK
  <2> QED BY <2>1, <2>2, <2>3 DEF BufferInv, HandleSafe
<1>6. ASSUME NEW d \in Dir, Cancel(d)  PROVE BufferInv'
  <2>1. /\ forced' = forced /\ handle /\ misuse' = misuse
        /\ op' = [op EXCEPT ![d] = "collecting"]
        /\ io' = CancelPending({d})
    BY <1>6 DEF Cancel, At, handleVars, UsesHandle, Misused
  <2>2. \A e \in Dir : io[e] = "none" => io'[e] = "none"
    BY <2>1 DEF CancelPending
  <2> QED BY <2>1, <2>2 DEF BufferInv, HandleSafe, PipeTypeOK
<1>7. ASSUME NEW d \in Dir, CancelFails(d)  PROVE BufferInv'
  <2>1. forced' /\ misuse' \subseteq misuse \cup {"handle"}
    BY <1>7 DEF CancelFails, UsesHandle, Misused
  <2> QED BY <1>2, <2>1 DEF BufferInv, HandleSafe
<1>8. ASSUME NEW d \in Dir, Abort(d)  PROVE BufferInv'
  <2>1. handle /\ forced /\ forced' = forced
    BY <1>8 DEF Abort, At, HandleInv
  <2>2. misuse' = misuse  BY <1>8, <2>1 DEF Abort, ClosesHandle, Misused
  <2> QED BY <1>2, <2>1, <2>2 DEF BufferInv, HandleSafe
<1>9. ASSUME NEW d \in Dir, Collect(d)  PROVE BufferInv'
  <2>1. /\ op[d] = "collecting" /\ forced' = forced /\ UsesHandle
        /\ op' = [op EXCEPT ![d] = "idle"] /\ io' = [io EXCEPT ![d] = "none"]
    BY <1>9 DEF Collect, At, handleVars
  <2>2. misuse' \subseteq IF forced THEN {"handle"} ELSE {}
    BY <1>1, <1>2, <2>1 DEF UsesHandle, Misused
  <2> QED BY <2>1, <2>2 DEF BufferInv, HandleSafe, PipeTypeOK
<1>10. ASSUME NEW d \in Dir, NEW t \in Deadline, SetDeadline(d, t)  PROVE BufferInv'
  <2>1. events  BY <1>10 DEF SetDeadline, LockInv
  <2> QED BY <1>10, <2>1, BufferFrame
          DEF SetDeadline, UsesEvents, Misused, handleVars, opVars
<1>11. ASSUME NEW d \in Dir, TimePasses(d) \/ TimerFires(d)  PROVE BufferInv'
  BY <1>11, BufferFrame DEF TimePasses, TimerFires, handleVars, opVars
<1>12. ASSUME NEW d \in Dir, NEW g \in Gen, Expire(d, g)  PROVE BufferInv'
  <2>1. StillMeant(d, g) => events  BY DEF StillMeant, LockInv
  <2>2. misuse' = misuse  BY <1>12, <2>1 DEF Expire, UsesEvents, Misused
  <2> QED BY <1>12, <2>2, BufferFrame DEF Expire, handleVars, opVars
<1>13. ASSUME NEW d \in Dir, Transfer(d) \/ Acknowledge(d)  PROVE BufferInv'
  <2>1. /\ forced' = forced /\ op' = op /\ misuse' = misuse /\ io[d] # "none"
        /\ \A e \in Dir \ {d} : io'[e] = io[e]
    BY <1>13 DEF Transfer, Acknowledge, handleVars, PipeTypeOK
  <2> QED BY <2>1 DEF BufferInv, HandleSafe
<1>14. CASE CloseSignals
  <2>1. events  BY <1>14 DEF CloseSignals, CloseAt, LockInv
  <2> QED BY <1>14, <2>1, BufferFrame
          DEF CloseSignals, UsesEvents, Misused, handleVars, opVars
<1>15. CASE CloseCancels
  <2>1. handle \/ forced  BY <1>15 DEF CloseCancels, CloseAt, HandleInv
  <2>2. forced' = forced /\ op' = op /\ UsesHandle
    BY <1>15 DEF CloseCancels, handleVars
  <2>3. misuse' \subseteq IF forced THEN {"handle"} ELSE {}
    BY <1>2, <2>1, <2>2 DEF UsesHandle, Misused
  <2>4. \A e \in Dir : io[e] = "none" => io'[e] = "none"
    BY <1>15 DEF CloseCancels, CancelPending
  <2> QED BY <2>2, <2>3, <2>4 DEF BufferInv, HandleSafe
<1>16. CASE Flush
  <2>1. handle  BY <1>16 DEF Flush, CloseAt, HandleInv
  <2> QED BY <1>16, <2>1, BufferFrame
          DEF Flush, UsesHandle, Misused, handleVars, opVars
<1>17. CASE CloseTheHandle
  <2>1. handle  BY <1>17 DEF CloseTheHandle, CloseAt, HandleInv
  <2> QED BY <1>17, <2>1, BufferFrame
          DEF CloseTheHandle, ClosesHandle, Misused, opVars
<1>18. CASE CloseLocks  BY <1>18, BufferFrame DEF CloseLocks, opVars
<1>19. CASE StopDeadlines \/ DestroyEvents
  BY <1>19, BufferFrame DEF StopDeadlines, DestroyEvents, handleVars, opVars
<1>20. CASE PeerReads \/ UNCHANGED pipeVars
  BY <1>20, BufferFrame DEF PeerReads, pipeVars, handleVars, opVars
<1>21. CASE PeerLeaves
  <2>1. \A e \in Dir : io[e] = "none" => io'[e] = "none"
    BY <1>21 DEF PeerLeaves
  <2> QED BY <1>21, <2>1 DEF PeerLeaves, handleVars, BufferInv, HandleSafe
<1> QED BY <1>3, <1>4, <1>5, <1>6, <1>7, <1>8, <1>9, <1>10, <1>11, <1>12, <1>13,
           <1>14, <1>15, <1>16, <1>17, <1>18, <1>19, <1>20, <1>21
        DEF PipeNext, OpStepOf, TimerStep, CloseGoesOn

(* Whatever reads, writes, deadlines, timers and Close do to each other,   *)
(* no event is used after Close destroyed it, the handle is closed once,   *)
(* and no operation returns while the kernel has its buffer - except where *)
(* CancelIoEx failed and an operation had to close the handle.             *)
THEOREM HandlesCorrect == PipeSpec => []HandleSafe
<1>1. PipeInit => BufferInv  BY DEF PipeInit, BufferInv, HandleSafe
<1>2. BufferInv => HandleSafe  BY DEF BufferInv
<1> QED BY <1>1, <1>2, HandleInit, LockNext, HandleNext, BufferNext, PipeTypeCorrect, PTL
        DEF PipeSpec

=============================================================================
