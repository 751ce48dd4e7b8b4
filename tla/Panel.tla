------------------------------- MODULE Panel -------------------------------
(***************************************************************************)
(* One run as its operator sees it: panels of bridge watch and calls of    *)
(* bridge answer, which both read what the run waits for and send an       *)
(* answer in a later round trip, while the run asks, is answered, rests    *)
(* and ends on its own; and the event feed, which a panel reads from the   *)
(* transcript that the run is still writing.                               *)
(*                                                                         *)
(* A round trip that returns in time is one step, for its client does      *)
(* nothing meanwhile.  One that does not return within doDeadline has      *)
(* failed for its client, while the request stays under way.  The run is   *)
(* RunRegistry's, reduced to what Server.Runs shows of it.  An event is    *)
(* one write, so that no reader sees a part of a line.                     *)
(***************************************************************************)
EXTENDS Naturals, FiniteSets

CONSTANTS
    Watch,        \* bridge watch processes
    Cli,          \* bridge answer processes
    MaxQuestions, \* bound: questions the child asks
    MaxEvents     \* bound: events in the transcript

ASSUME PanelAssumption == MaxQuestions \in Nat /\ MaxEvents \in Nat

VARIABLES
    state,        \* Run.state
    pending,      \* the question a verdict is awaited for, or 0
    last,         \* Run.lastQuestion, or 0
    written,      \* events in the transcript
    tick,         \* how far a panel is with its tick
    view,         \* what its panel shows: model.question and questionResting
    typing,       \* model.typing
    draft,        \* the view at which the text in model.answerText was begun
    broken,       \* a round trip has failed: the decoder keeps its error
    offset,       \* model.offset
    size,         \* what Stat has just said
    feed,         \* how often each event is in model.events
    cli,          \* how far a bridge answer is
    heard,        \* the question its operator had read when typing the command
    request,      \* the request it has decided on
    late,         \* requests whose senders have given up waiting
    landed        \* history: what was answered, and what the sender had read

runVars == <<state, pending, last>>
screenVars == <<view, typing, draft>>
feedVars == <<offset, size, feed>>
cliVars == <<cli, heard, request>>
wireVars == <<late, landed>>
panelVars == <<runVars, written, tick, screenVars, broken, feedVars, cliVars, wireVars>>

-----------------------------------------------------------------------------
(* Types *)

QuestionId == 1..MaxQuestions
Event == 1..MaxEvents

(* A question on screen, live or left behind by a run at rest. *)
View == [q : 0..MaxQuestions, resting : BOOLEAN]
Nothing == [q |-> 0, resting |-> FALSE]

(* "read" is the question whose text the operator had before them: the one *)
(* the answer is meant for; "found" the one that the lookup of bridge      *)
(* answer found, and 0 in what a panel sends.  Question 0 on the wire is   *)
(* the empty question_id.                                                  *)
Request == [verb : {"answer", "continue"}, q : 0..MaxQuestions, read : 0..MaxQuestions,
            found : 0..MaxQuestions]
NoRequest == [verb |-> "answer", q |-> 0, read |-> 0, found |-> 0]

PanelTypeOK ==
    /\ state \in {"running", "needs_input", "superseded", "ended", "pruned"}
    /\ pending \in 0..MaxQuestions /\ last \in 0..MaxQuestions
    /\ pending # 0 => state = "running" /\ pending = last
    /\ written \in 0..MaxEvents
    /\ tick \in [Watch -> {"off", "idle", "sized", "fed", "quit"}]
    /\ view \in [Watch -> View] /\ draft \in [Watch -> View]
    /\ typing \in [Watch -> BOOLEAN] /\ broken \in [Watch -> BOOLEAN]
    /\ offset \in [Watch -> 0..MaxEvents] /\ size \in [Watch -> 0..MaxEvents]
    /\ feed \in [Watch -> [Event -> Nat]]
    /\ cli \in [Cli -> {"idle", "typed", "looked", "done"}]
    /\ heard \in [Cli -> 0..MaxQuestions]
    /\ request \in [Cli -> Request]
    /\ late \subseteq Request
    /\ landed \subseteq Request

PanelInit ==
    /\ state = "running" /\ pending = 0 /\ last = 0
    /\ written = 0
    /\ tick = [w \in Watch |-> "off"]
    /\ view = [w \in Watch |-> Nothing]
    /\ draft = [w \in Watch |-> Nothing]
    /\ typing = [w \in Watch |-> FALSE]
    /\ broken = [w \in Watch |-> FALSE]
    /\ offset = [w \in Watch |-> 0]
    /\ size = [w \in Watch |-> 0]
    /\ feed = [w \in Watch |-> [e \in Event |-> 0]]
    /\ cli = [c \in Cli |-> "idle"]
    /\ heard = [c \in Cli |-> 0]
    /\ request = [c \in Cli |-> NoRequest]
    /\ late = {} /\ landed = {}

-----------------------------------------------------------------------------
(* The run *)

Ask ==
    /\ state = "running" /\ pending = 0 /\ last < MaxQuestions
    /\ last' = last + 1 /\ pending' = last + 1
    /\ UNCHANGED <<state, written, tick, screenVars, broken, feedVars, cliVars, wireVars>>

(* The resolver gives up on a question and the child goes on. *)
DenyQuestion ==
    /\ pending # 0
    /\ pending' = 0
    /\ UNCHANGED <<state, last, written, tick, screenVars, broken, feedVars, cliVars, wireVars>>

(* It gives up and stops the run.  Nothing need be pending by then: its    *)
(* refusal and this are two steps.                                         *)
NeedsInput ==
    /\ state = "running" /\ last # 0
    /\ state' = "needs_input" /\ pending' = 0
    /\ UNCHANGED <<last, written, tick, screenVars, broken, feedVars, cliVars, wireVars>>

(* finish, or the deadline of a run at rest. *)
End ==
    /\ state \in {"running", "needs_input"}
    /\ state' = "ended" /\ pending' = 0
    /\ UNCHANGED <<last, written, tick, screenVars, broken, feedVars, cliVars, wireVars>>

(* The registry drops a settled run: it is in no further list. *)
Prune ==
    /\ state \in {"superseded", "ended"}
    /\ state' = "pruned"
    /\ UNCHANGED <<pending, last, written, tick, screenVars, broken, feedVars, cliVars, wireVars>>

(* The reader may still be writing what the child left when the run rests. *)
Append ==
    /\ state \in {"running", "needs_input", "superseded", "ended"} /\ written < MaxEvents
    /\ written' = written + 1
    /\ UNCHANGED <<runVars, tick, screenVars, broken, feedVars, cliVars, wireVars>>

-----------------------------------------------------------------------------
(* The server's side of a round trip *)

(* Snapshot's question: the pending one, or what a run at rest was asked. *)
Reported ==
    IF state = "needs_input" THEN [q |-> last, resting |-> TRUE]
    ELSE [q |-> pending, resting |-> FALSE]

(* resolve takes whatever is pending, whichever question is named. *)
Bug_AnyQuestion(q) == pending # 0

(* resolve, under the run's lock; an empty id matches anything. *)
Matches(q) == pending # 0 /\ (q = 0 \/ q = pending)

(* Record that question q was answered with m's text. *)
Land(m, q) == landed' = landed \cup {[m EXCEPT !.q = q]}

Refused == UNCHANGED <<runVars, landed>>

(* An empty text is refused before the verb is looked at. *)
Answered(m) ==
    IF m.read # 0 /\ Matches(m.q)
    THEN pending' = 0 /\ Land(m, pending) /\ UNCHANGED <<state, last>>
    ELSE Refused

(* The record of a resting run is taken, or the call is refused: by policy *)
(* or the slot limit, after which the record is back in place.             *)
Continued(m) ==
    \/ /\ m.read # 0 /\ state = "needs_input"
       /\ state' = "superseded" /\ Land(m, last)
       /\ UNCHANGED <<pending, last>>
    \/ Refused

Dispatch(m) == IF m.verb = "answer" THEN Answered(m) ELSE Continued(m)

(* The server gets to a request whose sender has long given up. *)
ServeLate ==
    /\ \E m \in late : Dispatch(m) /\ late' = late \ {m}
    /\ UNCHANGED <<written, tick, screenVars, broken, feedVars, cliVars>>

-----------------------------------------------------------------------------
(* bridge watch *)

Open(w) ==
    /\ tick[w] = "off" /\ state # "pruned"
    /\ tick' = [tick EXCEPT ![w] = "idle"]
    /\ UNCHANGED <<runVars, written, screenVars, broken, feedVars, cliVars, wireVars>>

(* poll: the size first, ... *)
PollSize(w) ==
    /\ tick[w] = "idle"
    /\ size' = [size EXCEPT ![w] = written]
    /\ tick' = [tick EXCEPT ![w] = IF written > offset[w] THEN "sized" ELSE "fed"]
    /\ UNCHANGED <<runVars, written, screenVars, broken, offset, feed, cliVars, wireVars>>

(* The offset is moved by what was read, and not at all when Stat and the  *)
(* end of the file differ.                                                 *)
Bug_OffsetWaits(w) ==
    /\ tick[w] = "sized"
    /\ feed' = [feed EXCEPT ![w] = [e \in Event |->
                   IF offset[w] < e /\ e <= written THEN @[e] + 1 ELSE @[e]]]
    /\ offset' = [offset EXCEPT ![w] = IF size[w] = written THEN @ + 1 ELSE @]
    /\ tick' = [tick EXCEPT ![w] = "fed"]
    /\ UNCHANGED <<runVars, written, screenVars, broken, size, cliVars, wireVars>>

(* ... then everything from the offset to the end of the file, which may   *)
(* be beyond that size.                                                    *)
PollFeed(w) ==
    /\ tick[w] = "sized"
    /\ feed' = [feed EXCEPT ![w] = [e \in Event |->
                   IF offset[w] < e /\ e <= written THEN @[e] + 1 ELSE @[e]]]
    /\ offset' = [offset EXCEPT ![w] = size[w]]
    /\ tick' = [tick EXCEPT ![w] = "fed"]
    /\ UNCHANGED <<runVars, written, screenVars, broken, size, cliVars, wireVars>>

(* The panel looks only at the question's id. *)
Bug_SameIdSameView(w) ==
    LET same == Reported.q # 0 /\ view[w].q = Reported.q IN
    /\ view' = [view EXCEPT ![w] = IF same THEN @ ELSE Reported]
    /\ typing' = [typing EXCEPT ![w] = @ /\ same]
    /\ draft' = [draft EXCEPT ![w] = IF same THEN @ ELSE Nothing]

(* The panel after a poll: a typed text survives while the same question   *)
(* is shown in the same way.                                               *)
Refreshed(w) ==
    /\ view' = [view EXCEPT ![w] = Reported]
    /\ typing' = [typing EXCEPT ![w] = @ /\ view[w] = Reported]
    /\ draft' = [draft EXCEPT ![w] = IF view[w] = Reported THEN @ ELSE Nothing]

PollQuestion(w) ==
    /\ tick[w] = "fed" /\ ~broken[w]
    /\ Refreshed(w)
    /\ tick' = [tick EXCEPT ![w] = "idle"]
    /\ UNCHANGED <<runVars, written, broken, feedVars, cliVars, wireVars>>

(* The server is wedged or gone, or a decoder that has failed once reports *)
(* the same error again: the panel stays as it is.                         *)
PollFails(w) ==
    /\ tick[w] = "fed"
    /\ broken' = [broken EXCEPT ![w] = TRUE]
    /\ tick' = [tick EXCEPT ![w] = "idle"]
    /\ UNCHANGED <<runVars, written, screenVars, feedVars, cliVars, wireVars>>

Key(w) == tick[w] = "idle" /\ view[w] # Nothing

BeginTyping(w) ==
    /\ Key(w) /\ ~typing[w]
    /\ typing' = [typing EXCEPT ![w] = TRUE]
    /\ draft' = [draft EXCEPT ![w] = Nothing]
    /\ UNCHANGED <<runVars, written, tick, view, broken, feedVars, cliVars, wireVars>>

TypeText(w) ==
    /\ Key(w) /\ typing[w]
    /\ draft' = [draft EXCEPT ![w] = IF @ = Nothing THEN view[w] ELSE @]
    /\ UNCHANGED <<runVars, written, tick, view, typing, broken, feedVars, cliVars, wireVars>>

(* Escape, or backspace over all of it, which leaves the prompt open. *)
EraseText(w) ==
    /\ Key(w) /\ typing[w]
    /\ draft' = [draft EXCEPT ![w] = Nothing]
    /\ \E still \in BOOLEAN : typing' = [typing EXCEPT ![w] = still]
    /\ UNCHANGED <<runVars, written, tick, view, broken, feedVars, cliVars, wireVars>>

(* A continuation names no question: a run at rest has only the last. *)
Composed(w, read) ==
    IF view[w].resting THEN [verb |-> "continue", q |-> 0, read |-> read, found |-> 0]
    ELSE [verb |-> "answer", q |-> view[w].q, read |-> read, found |-> 0]

(* The panel is cleared whatever becomes of the request.  On a connection  *)
(* whose decoder has failed the request still goes out.                    *)
SendAnswer(w, read) ==
    /\ \/ /\ ~broken[w]
          /\ Dispatch(Composed(w, read))
          /\ UNCHANGED <<broken, late>>
       \/ /\ broken' = [broken EXCEPT ![w] = TRUE]
          /\ late' = late \cup {Composed(w, read)}
          /\ UNCHANGED <<runVars, landed>>
    /\ view' = [view EXCEPT ![w] = Nothing]
    /\ typing' = [typing EXCEPT ![w] = FALSE]
    /\ draft' = [draft EXCEPT ![w] = Nothing]
    /\ UNCHANGED <<written, tick, feedVars, cliVars>>

(* Enter; the text may be empty. *)
SendTyped(w) == Key(w) /\ typing[w] /\ SendAnswer(w, draft[w].q)

(* One of the options shown, or "declined". *)
SendChoice(w) == Key(w) /\ ~typing[w] /\ SendAnswer(w, view[w].q)

Quit(w) ==
    /\ tick[w] = "idle" /\ ~typing[w]
    /\ tick' = [tick EXCEPT ![w] = "quit"]
    /\ UNCHANGED <<runVars, written, screenVars, broken, feedVars, cliVars, wireVars>>

-----------------------------------------------------------------------------
(* bridge answer *)

(* The text is an argument of the command: the operator types it after     *)
(* reading a question, and before the command looks at anything.           *)
TypeCommand(c) ==
    /\ cli[c] = "idle" /\ Reported.q # 0
    /\ heard' = [heard EXCEPT ![c] = Reported.q]
    /\ cli' = [cli EXCEPT ![c] = "typed"]
    /\ UNCHANGED <<runVars, written, tick, screenVars, broken, feedVars, request, wireVars>>

(* The state, not the question, tells a run at rest from a live question.  *)
(* With nothing pending, or the run gone, the command ends.                *)
LookUp(c) ==
    /\ cli[c] = "typed"
    /\ IF Reported.q # 0
       THEN /\ request' = [request EXCEPT ![c] =
                  IF Reported.resting
                  THEN [verb |-> "continue", q |-> 0, read |-> heard[c], found |-> last]
                  ELSE [verb |-> "answer", q |-> pending, read |-> heard[c],
                        found |-> pending]]
            /\ cli' = [cli EXCEPT ![c] = "looked"]
            /\ UNCHANGED heard
       ELSE /\ cli' = [cli EXCEPT ![c] = "done"]
            /\ heard' = [heard EXCEPT ![c] = 0]
            /\ UNCHANGED request
    /\ UNCHANGED <<runVars, written, tick, screenVars, broken, feedVars, wireVars>>

AnswerRun(c) ==
    /\ cli[c] = "looked"
    /\ \/ Dispatch(request[c]) /\ UNCHANGED late
       \/ late' = late \cup {request[c]} /\ UNCHANGED <<runVars, landed>>
    /\ cli' = [cli EXCEPT ![c] = "done"]
    /\ heard' = [heard EXCEPT ![c] = 0]
    /\ request' = [request EXCEPT ![c] = NoRequest]
    /\ UNCHANGED <<written, tick, screenVars, broken, feedVars>>

-----------------------------------------------------------------------------
RunStep == Ask \/ DenyQuestion \/ NeedsInput \/ End \/ Prune \/ Append

Tick(w) == PollSize(w) \/ PollFeed(w) \/ PollQuestion(w) \/ PollFails(w)

Keys(w) ==
    \/ BeginTyping(w) \/ TypeText(w) \/ EraseText(w)
    \/ SendTyped(w) \/ SendChoice(w) \/ Quit(w)

PanelNext ==
    \/ RunStep \/ ServeLate
    \/ \E w \in Watch : Open(w) \/ Tick(w) \/ Keys(w)
    \/ \E c \in Cli : TypeCommand(c) \/ LookUp(c) \/ AnswerRun(c)

PanelSpec == PanelInit /\ [][PanelNext]_panelVars

(* A tick re-arms itself, and Update runs to its end. *)
PanelFairSpec == PanelSpec /\ \A w \in Watch : WF_panelVars(Tick(w))

-----------------------------------------------------------------------------
(* Properties *)

(* What a panel sends answers the question its operator had read, live or  *)
(* through a continuation, and no other: no text is delivered to the       *)
(* question that replaced it, however many operators answer and however    *)
(* late a request arrives (question.go:90-102).  A bridge answer says less *)
(* than its comment does (accept.go:44-53): its text answers the question  *)
(* that its lookup found, which may have replaced the one it was typed     *)
(* for; only what replaces that one is safe from it.                       *)
AnswersWhatWasRead == \A a \in landed : a.q = a.read \/ a.q = a.found

(* The feed misses nothing the panel has gone past, and shows nothing more *)
(* than twice, although poll takes the size and the events of a growing    *)
(* file in two steps (tui/watch.go:344-378).                               *)
FeedComplete ==
    \A w \in Watch, e \in Event :
        /\ feed[w][e] <= 2
        /\ e <= offset[w] => feed[w][e] >= 1

(* A panel that is open and connected shows, again and again, what the run *)
(* is waiting for: it is not left with a live question of a run at rest,   *)
(* or with a question that is gone.                                        *)
PanelFollows ==
    \A w \in Watch :
        []<>(tick[w] \in {"off", "quit"} \/ broken[w] \/ view[w] = Reported)

=============================================================================
