---------------------------- MODULE GateResolver ----------------------------
(***************************************************************************)
(* One run's gate: the connections its child opens, the resolver goroutine *)
(* that serves each, the two ways to a human, and what reaches the child.  *)
(*                                                                         *)
(* A call mints at most one question, so a call and its question have one  *)
(* name.  The resolver's context is never cancelled (serve passes          *)
(* context.Background), so its ctx.Done case is left out; so is the answer *)
(* that names no question, which nothing under src/ sends.  Timers fire at *)
(* any moment.                                                             *)
(***************************************************************************)
EXTENDS Run, FiniteSets

CONSTANTS
    Operator,     \* front ends: bridge watch, bridge answer
    Await,        \* await_agent calls for this run
    MaxInFlight,  \* maxInFlight of the gate server
    MaxOpen,      \* tool calls the child waits on at once
    Impatient     \* whether the child's MCP client may abandon a call

ASSUME GateAssumption ==
    /\ MaxInFlight \in Nat \ {0}
    /\ MaxOpen \in Nat \ {0}
    /\ Impatient \in BOOLEAN

VARIABLES
    run,        \* the Run this gate serves
    registered, \* whether Registry.Get finds it
    listening,  \* the gate server accepts connections
    call,       \* call[c]: where the resolver of call c is
    via,        \* via[c]: the channel its question took
    verdict,    \* verdict[c]: what is in the channel Ask returned
    reply,      \* reply[c]: what the gate replied
    dropped,    \* the calls the child's MCP client has abandoned
    seen,       \* seen[o]: the question front end o shows
    accepted,   \* questions for which some AnswerQuestion succeeded
    awaits,     \* await_agent calls in flight
    awaiter,    \* b.awaiting[runID]
    log         \* audit entries, as pairs of an event and a call

gateVars == <<call, via, verdict, reply, log>>
awaitVars == <<awaits, awaiter>>
vars == <<run, registered, listening, gateVars, dropped, seen, accepted, awaitVars>>

-----------------------------------------------------------------------------
(* Types *)

(* "reading" holds an in-flight slot and has not decoded the request;      *)
(* "found" has the run; "asked" has the question pending; "waiting" and    *)
(* "select" are the two halves of awaitVerdict; "collecting" is blocked on *)
(* the verdict channel; "refusing" and "resting" are about to call         *)
(* DenyQuestion and NeedsInput; "stopping" is in NeedsInput, about to call *)
(* r.cancel; "closing" has only to audit and reply.  "prompted" waits for  *)
(* the human in front of the host's elicitation.                           *)
CallStep == {"idle", "reading", "found", "asked", "waiting", "select", "eliciting",
             "prompted", "elicited", "collecting", "refusing", "resting", "stopping",
             "closing", "done"}

(* A message, and for an answer the question it was composed for. *)
Word(kind, of) == [kind |-> kind, of |-> of]
Answer(q) == Word("answer", q)
NoHuman == Word("no human", None)   \* "No operator is reachable. The run has stopped"
Closed == Word("closed", None)      \* the reason a run gives when it settles
Empty == Word("empty", None)        \* no channel, or nothing in it yet
Silent == Word("silent", None)      \* no reply yet

Verdicts == {Empty, NoHuman, Closed} \cup {Answer(q) : q \in Question}
Refusals == {Word(k, None) : k \in {"approval denied", "busy", "unauthorised",
                                    "unreachable"}}
Replies == {Silent, NoHuman, Closed} \cup Refusals \cup {Answer(q) : q \in Question}
Events == {"asked", "answered", "denied", "timeout"}

TypeOK ==
    /\ run \in RunRecord
    /\ registered \in BOOLEAN
    /\ listening \in BOOLEAN
    /\ call \in [Question -> CallStep]
    /\ via \in [Question -> {"none", "tui", "elicit"}]
    /\ verdict \in [Question -> Verdicts]
    /\ reply \in [Question -> Replies]
    /\ dropped \in SUBSET Question
    /\ seen \in [Operator -> Question \cup {None}]
    /\ accepted \in SUBSET Question
    /\ awaits \in SUBSET Await
    /\ awaiter \in Await \cup {None}
    /\ log \in SUBSET (Events \X Question)

(* The gate starts before the run it serves exists. *)
Init ==
    /\ run = NoRun
    /\ registered = FALSE
    /\ listening = TRUE
    /\ call = [c \in Question |-> "idle"]
    /\ via = [c \in Question |-> "none"]
    /\ verdict = [c \in Question |-> Empty]
    /\ reply = [c \in Question |-> Silent]
    /\ dropped = {}
    /\ seen = [o \in Operator |-> None]
    /\ accepted = {}
    /\ awaits = {} /\ awaiter = None
    /\ log = {}

-----------------------------------------------------------------------------
(* Helpers *)

InFlight == {c \in Question : call[c] \notin {"idle", "done"}}

(* The calls the child is still waiting on. *)
ChildWaits == InFlight \ dropped

(* Say w on the pending question's channel.  Whatever settles or resolves  *)
(* the run does so once, and then the channel is gone from the record.     *)
SayPending(w) ==
    verdict' = [c \in Question |-> IF run.pending = c THEN w ELSE verdict[c]]

(* Something outside the gate settles the run. *)
SettleAs(r) == run' = r /\ SayPending(Closed)

GoTo(c, step) == call' = [call EXCEPT ![c] = step]

(* The resolver returns w; the connection closes. *)
ReplyWith(c, w) ==
    /\ GoTo(c, "done")
    /\ reply' = [reply EXCEPT ![c] = w]

Audit(event, c) == log' = log \cup {<<event, c>>}

-----------------------------------------------------------------------------
(* The child and the gate server *)

(* The child's permission-prompt tool dials the gate.  Any peer of the same *)
(* user may do so at any time, before the run has started and after it.    *)
Dials(c) == call[c] = "idle" /\ Cardinality(ChildWaits) < MaxOpen

Unreachable(c) ==
    /\ Dials(c)
    /\ ~listening
    /\ ReplyWith(c, Word("unreachable", None))
    /\ UNCHANGED <<run, registered, listening, via, verdict, log, dropped, seen,
                   accepted, awaitVars>>

(* The slots are shared with every other connection of the same user, so a *)
(* gate may be full whatever its own child has in flight.                   *)
Reject(c) ==
    /\ Dials(c)
    /\ listening
    /\ ReplyWith(c, Word("busy", None))
    /\ UNCHANGED <<run, registered, listening, via, verdict, log, dropped, seen,
                   accepted, awaitVars>>

Accept(c) ==
    /\ Dials(c)
    /\ listening
    /\ Cardinality(InFlight) < MaxInFlight
    /\ GoTo(c, "reading")
    /\ UNCHANGED <<run, registered, listening, via, verdict, reply, log, dropped, seen,
                   accepted, awaitVars>>

(* The child's MCP client times out; the resolver does not notice. *)
Abandon(c) ==
    /\ Impatient
    /\ c \in ChildWaits
    /\ dropped' = dropped \cup {c}
    /\ UNCHANGED <<run, registered, listening, gateVars, seen, accepted, awaitVars>>

(* A peer, a body or a token that serve refuses. *)
RefusePeer(c) ==
    /\ call[c] = "reading"
    /\ \E k \in {"unauthorised", "unreachable"} : ReplyWith(c, Word(k, None))
    /\ UNCHANGED <<run, registered, listening, via, verdict, log, dropped, seen,
                   accepted, awaitVars>>

(* Anything but AskUserQuestion is a permission approval. *)
DenyApproval(c) ==
    /\ call[c] = "reading"
    /\ ReplyWith(c, Word("approval denied", None))
    /\ Audit("denied", c)
    /\ UNCHANGED <<run, registered, listening, via, verdict, dropped, seen, accepted,
                   awaitVars>>

-----------------------------------------------------------------------------
(* Resolve *)

(* The child is told that nobody is reachable, before anything was asked. *)
FailClosed(c) ==
    /\ ReplyWith(c, NoHuman)
    /\ Audit("denied", c)
    /\ UNCHANGED <<run, verdict>>

(* lookup is Registry.Get: it fails before the run is registered and after *)
(* it is pruned, and expires the run if it is due.                         *)
Lookup(c) ==
    /\ call[c] = "reading"
    /\ \/ ~registered /\ FailClosed(c)
       \/ /\ registered
          /\ IF IsDue(run) THEN SettleAs(Expire(run)) ELSE UNCHANGED <<run, verdict>>
          /\ GoTo(c, "found")
          /\ UNCHANGED <<reply, log>>
    /\ UNCHANGED <<registered, listening, via, dropped, seen, accepted, awaitVars>>

AskRun(c) ==
    /\ call[c] = "found"
    /\ \/ ~MayAsk(run) /\ FailClosed(c)
       \/ /\ MayAsk(run)
          /\ run' = Ask(run, c)
          /\ GoTo(c, "asked")
          /\ Audit("asked", c)
          /\ UNCHANGED <<verdict, reply>>
    /\ UNCHANGED <<registered, listening, via, dropped, seen, accepted, awaitVars>>

(* TUIAttached is asked once; attaching and detaching later changes nothing. *)
Route(c) ==
    /\ call[c] = "asked"
    /\ \/ via' = [via EXCEPT ![c] = "tui"] /\ GoTo(c, "waiting")
       \/ via' = [via EXCEPT ![c] = "elicit"] /\ GoTo(c, "eliciting")
    /\ UNCHANGED <<run, registered, listening, verdict, reply, log, dropped, seen,
                   accepted, awaitVars>>

(* awaitVerdict looks before it waits. *)
LookFirst(c) ==
    /\ call[c] = "waiting"
    /\ verdict[c] = Empty
    /\ GoTo(c, "select")
    /\ UNCHANGED <<run, registered, listening, via, verdict, reply, log, dropped, seen,
                   accepted, awaitVars>>

(* A verdict is received, in awaitVerdict or after a lost race. *)
Receive(c) ==
    /\ call[c] \in {"waiting", "select", "collecting"}
    /\ verdict[c] # Empty
    /\ ReplyWith(c, verdict[c])
    /\ Audit("answered", c)
    /\ UNCHANGED <<run, registered, listening, via, verdict, dropped, seen, accepted,
                   awaitVars>>

(* The timer wins the select, whether or not a verdict is there too. *)
TimesOut(c) ==
    /\ call[c] = "select"
    /\ GoTo(c, "refusing")
    /\ UNCHANGED <<run, registered, listening, via, verdict, reply, log, dropped, seen,
                   accepted, awaitVars>>

(* DenyQuestion("") refuses whatever question is pending.  If there is     *)
(* none, awaitVerdict has lost the race and collects its own verdict;      *)
(* the elicitation path ignores the error.                                 *)
DenyPending ==
    IF MayResolve(run, None) THEN run' = Resolve(run) /\ SayPending(NoHuman)
    ELSE UNCHANGED <<run, verdict>>

Bug_DenyRegardless(c) ==
    /\ call[c] = "refusing"
    /\ via[c] = "tui"
    /\ DenyPending
    /\ GoTo(c, "resting")
    /\ Audit("timeout", c)
    /\ UNCHANGED <<registered, listening, via, reply, dropped, seen, accepted, awaitVars>>

RefuseAfterTUI(c) ==
    /\ call[c] = "refusing"
    /\ via[c] = "tui"
    /\ DenyPending
    /\ IF MayResolve(run, None) THEN GoTo(c, "resting") /\ Audit("timeout", c)
       ELSE GoTo(c, "collecting") /\ UNCHANGED log
    /\ UNCHANGED <<registered, listening, via, reply, dropped, seen, accepted, awaitVars>>

RefuseAfterElicit(c) ==
    /\ call[c] = "refusing"
    /\ via[c] = "elicit"
    /\ DenyPending
    /\ GoTo(c, "resting")
    /\ UNCHANGED <<registered, listening, via, reply, log, dropped, seen, accepted,
                   awaitVars>>

Bug_ReplyWithoutRest(c) ==
    /\ call[c] = "resting"
    /\ ReplyWith(c, NoHuman)
    /\ UNCHANGED <<run, registered, listening, via, verdict, log, dropped, seen,
                   accepted, awaitVars>>

(* NeedsInput has returned.  The TUI path has written its audit entry      *)
(* before, the elicitation path writes it after.                           *)
Rested(c) ==
    IF via[c] = "tui" THEN ReplyWith(c, NoHuman)
    ELSE GoTo(c, "closing") /\ UNCHANGED reply

(* NeedsInput, which returns at once if the run has settled already. *)
Rest(c) ==
    /\ call[c] = "resting"
    /\ run' = NeedsInput(run)
    /\ IF Settled(run.state) THEN Rested(c) /\ UNCHANGED verdict
       ELSE SayPending(Closed) /\ GoTo(c, "stopping") /\ UNCHANGED reply
    /\ UNCHANGED <<registered, listening, via, log, dropped, seen, accepted, awaitVars>>

StopRun(c) ==
    /\ call[c] = "stopping"
    /\ run' = CancelRested(run)
    /\ Rested(c)
    /\ UNCHANGED <<registered, listening, via, verdict, log, dropped, seen, accepted,
                   awaitVars>>

Bug_ReplyWithoutAudit(c) ==
    /\ call[c] = "closing"
    /\ ReplyWith(c, NoHuman)
    /\ UNCHANGED <<run, registered, listening, via, verdict, log, dropped, seen,
                   accepted, awaitVars>>

CloseCall(c) ==
    /\ call[c] = "closing"
    /\ ReplyWith(c, NoHuman)
    /\ Audit("timeout", c)
    /\ UNCHANGED <<run, registered, listening, via, verdict, dropped, seen, accepted,
                   awaitVars>>

-----------------------------------------------------------------------------
(* Elicitation *)

(* The newest live await_agent has the session to ask; with none, or one   *)
(* that cannot elicit, the channel fails at once.                          *)
Elicit(c) ==
    /\ call[c] = "eliciting"
    /\ \/ awaiter # None /\ GoTo(c, "prompted")
       \/ GoTo(c, "refusing")
    /\ UNCHANGED <<run, registered, listening, via, verdict, reply, log, dropped, seen,
                   accepted, awaitVars>>

(* The human accepts with a text; what comes later is lost.             *)
HumanAnswers(c) ==
    /\ call[c] = "prompted"
    /\ GoTo(c, "elicited")
    /\ UNCHANGED <<run, registered, listening, via, verdict, reply, log, dropped, seen,
                   accepted, awaitVars>>

(* The host declines, cancels or fails. *)
HumanDeclines(c) ==
    /\ call[c] = "prompted"
    /\ GoTo(c, "refusing")
    /\ UNCHANGED <<run, registered, listening, via, verdict, reply, log, dropped, seen,
                   accepted, awaitVars>>

Bug_BoundedByAwait(c) ==
    /\ call[c] = "prompted"
    /\ awaiter = None
    /\ GoTo(c, "refusing")
    /\ UNCHANGED <<run, registered, listening, via, verdict, reply, log, dropped, seen,
                   accepted, awaitVars>>

(* elicitWithTimeout bounds the wait by question_timeout_s. *)
ElicitTimesOut(c) ==
    /\ call[c] = "prompted"
    /\ GoTo(c, "refusing")
    /\ UNCHANGED <<run, registered, listening, via, verdict, reply, log, dropped, seen,
                   accepted, awaitVars>>

(* AnswerQuestion with the elicited text, which it may find too large.     *)
SubmitElicited(c) ==
    /\ call[c] = "elicited"
    /\ \/ /\ MayResolve(run, c)
          /\ run' = Resolve(run)
          /\ SayPending(Answer(c))
          /\ accepted' = accepted \cup {c}
          /\ GoTo(c, "collecting")
          /\ UNCHANGED log
       \/ /\ GoTo(c, "refusing")
          /\ Audit("denied", c)
          /\ UNCHANGED <<run, verdict, accepted>>
    /\ UNCHANGED <<registered, listening, via, reply, dropped, seen, awaitVars>>

-----------------------------------------------------------------------------
(* The operator's front ends *)

(* watch and answer read the pending question, then answer by its id.      *)
Render(o) ==
    /\ registered
    /\ run.pending # None
    /\ seen' = [seen EXCEPT ![o] = run.pending]
    /\ UNCHANGED <<run, registered, listening, gateVars, dropped, accepted, awaitVars>>

(* ErrNoQuestion and ErrQuestionChanged tell the operator the answer was   *)
(* not taken.                                                              *)
SendAnswer(o) ==
    /\ seen[o] # None
    /\ seen' = [seen EXCEPT ![o] = None]
    /\ IF registered /\ MayResolve(run, seen[o])
       THEN /\ run' = Resolve(run)
            /\ SayPending(Answer(seen[o]))
            /\ accepted' = accepted \cup {seen[o]}
       ELSE UNCHANGED <<run, verdict, accepted>>
    /\ UNCHANGED <<registered, listening, call, via, reply, log, dropped, awaitVars>>

-----------------------------------------------------------------------------
(* await_agent *)

AwaitBegins(a) ==
    /\ registered
    /\ a \notin awaits
    /\ awaits' = awaits \cup {a}
    /\ awaiter' = a
    /\ UNCHANGED <<run, registered, listening, gateVars, dropped, seen, accepted>>

(* Await's own timeout, or the run has settled: then the gate is closed.   *)
(* The registration is removed only if it is still this call's.            *)
AwaitReturns(a) ==
    /\ a \in awaits
    /\ awaits' = awaits \ {a}
    /\ awaiter' = IF awaiter = a THEN None ELSE awaiter
    /\ listening' = (listening /\ (~Settled(run.state) \/ run.state = "superseded"))
    /\ UNCHANGED <<run, registered, gateVars, dropped, seen, accepted>>

-----------------------------------------------------------------------------
(* The rest of the bridge, as far as this gate sees it (RunRegistry) *)

StartRun ==
    /\ run.state = "unstarted"
    /\ run' = [NewRun(None, 0) EXCEPT !.cancel = TRUE]
    /\ registered' = TRUE
    /\ UNCHANGED <<listening, gateVars, dropped, seen, accepted, awaitVars>>

FinishRun ==
    /\ run.state = "running"
    /\ \E outcome \in {"completed", "failed", "cancelled"} :
            SettleAs(Finish(run, outcome))
    /\ UNCHANGED <<registered, listening, call, via, reply, log, dropped, seen, accepted,
                   awaitVars>>

(* question_timeout_s passes, and some registry call notices. *)
ExpireRun ==
    /\ run.state = "needs_input"
    /\ run.deadline = "ahead"
    /\ SettleAs(Expire([run EXCEPT !.deadline = "passed"]))
    /\ UNCHANGED <<registered, listening, call, via, reply, log, dropped, seen, accepted,
                   awaitVars>>

(* continueRun supersedes the run and closes its gate. *)
ContinueRun ==
    /\ MayTakeContinuation(run)
    /\ \E successor \in RunId : run' = Supersede(run, successor)
    /\ listening' = FALSE
    /\ UNCHANGED <<registered, gateVars, dropped, seen, accepted, awaitVars>>

PruneRun ==
    /\ registered
    /\ IsTerminal(run.state)
    /\ registered' = FALSE
    /\ UNCHANGED <<run, listening, gateVars, dropped, seen, accepted, awaitVars>>

-----------------------------------------------------------------------------

(* What the goroutine serving call c does by itself. *)
Serve(c) ==
    \/ RefusePeer(c) \/ DenyApproval(c) \/ Lookup(c) \/ AskRun(c) \/ Route(c)
    \/ Elicit(c) \/ LookFirst(c) \/ Receive(c) \/ TimesOut(c) \/ ElicitTimesOut(c)
    \/ SubmitElicited(c) \/ RefuseAfterTUI(c) \/ RefuseAfterElicit(c) \/ Rest(c)
    \/ StopRun(c) \/ CloseCall(c)

(* What the child and the host's human do. *)
Outside(c) ==
    Unreachable(c) \/ Reject(c) \/ Accept(c) \/ Abandon(c)
        \/ HumanAnswers(c) \/ HumanDeclines(c)

RunStep == StartRun \/ FinishRun \/ ExpireRun \/ ContinueRun \/ PruneRun

Next ==
    \/ \E c \in Question : Outside(c) \/ Serve(c)
    \/ \E o \in Operator : Render(o) \/ SendAnswer(o)
    \/ \E a \in Await : AwaitBegins(a) \/ AwaitReturns(a)
    \/ RunStep

Spec == Init /\ [][Next]_vars

(* Each resolver is a goroutine, and both of its waits have a timer.       *)
(* Nothing is assumed of the child, the operators, the host and the run.   *)
FairSpec == Spec /\ \A c \in Question : WF_vars(Serve(c))

-----------------------------------------------------------------------------
(* Safety *)

(* The run has stopped, or the resolver that is about to stop it is past   *)
(* the point of no return.                                                 *)
Stopping == Settled(run.state) \/ \E c \in Question : call[c] = "resting"

(* The child waits on one tool call at a time, and has abandoned none: no  *)
(* two resolvers are ever at work for it.                                  *)
OneCall == MaxOpen = 1 /\ dropped = {}

(* An answer that AnswerQuestion has accepted is what the child is told,   *)
(* even if the timer fires at the same moment (awaitVerdict delivers the   *)
(* verdict when DenyQuestion fails).  It may be lost in two ways.  The     *)
(* host is still being elicited when the answer comes by bridge answer:    *)
(* that path does not look at the verdict.  Two calls are under way, as    *)
(* when the child has abandoned one: DenyQuestion names no question, so    *)
(* the timer of one call refuses the question of the other and does not    *)
(* see that its own was answered.  Neither leaves a run going on without   *)
(* its answer: it stops.                                                   *)
AnswerDelivered ==
    \A c \in accepted :
        call[c] = "done" =>
            \/ reply[c] = Answer(c)
            \/ (via[c] = "elicit" \/ ~OneCall) /\ Stopping

(* A child told that the run has stopped is right: nobody gives up on its  *)
(* question without putting the run to rest.                               *)
GiveUpStopsRun ==
    \A c \in Question :
        (call[c] = "done" /\ via[c] # "none" /\ reply[c] = NoHuman) =>
            Stopping

(* The calls whose question.timeout entry is written, or about to be.      *)
TimedOut ==
    {c \in Question : <<"timeout", c>> \in log \/ call[c] \in {"stopping", "closing"}}

(* docs/11 invariant 5: the transition into needs_input has a              *)
(* question.timeout entry, or a resolver that is about to write it, and    *)
(* exactly one if no two calls were under way.                             *)
RestAudited ==
    run.state = "needs_input" =>
        TimedOut # {} /\ (OneCall => Cardinality(TimedOut) = 1)

(* What has become of each question, told by its channel and the run.      *)
QuestionOutcome ==
    [q \in Question |->
        CASE verdict[q].kind = "answer" -> "answered"
          [] verdict[q] \in {NoHuman, Closed} -> "refused"
          [] run.pending = q -> "open"
          [] OTHER -> "unasked"]

(* The run's questions follow QuestionBox. *)
Box == INSTANCE QuestionBox WITH open <- run.pending, outcome <- QuestionOutcome

IsQuestionBox == Box!Spec

-----------------------------------------------------------------------------
(* The inductive invariant behind these, part by part *)

(* The resolver of a pending question has asked it and not given up on it. *)
Unresolved == {"asked", "waiting", "select", "eliciting", "prompted", "elicited",
               "refusing"}

(* What a resolver has found, or Registry.Get finds, has been started.     *)
StartedInv ==
    /\ registered => run.state # "unstarted"
    /\ \A c \in Question : call[c] = "found" => run.state # "unstarted"

(* The pending question's channel is empty and its resolver is there; a    *)
(* channel has a verdict only once its question was asked.                 *)
PendingInv ==
    /\ run.pending # None =>
          /\ run.state = "running"
          /\ verdict[run.pending] = Empty
          /\ call[run.pending] \in Unresolved
    /\ \A c \in Question :
          call[c] \in {"idle", "reading", "found"} => verdict[c] = Empty

(* Which steps belong to which way to a human.                             *)
RouteInv ==
    \A c \in Question :
        /\ call[c] \in {"idle", "reading", "found", "asked"} => via[c] = "none"
        /\ call[c] \notin {"idle", "reading", "found", "asked", "done"} => via[c] # "none"
        /\ call[c] = "closing" => via[c] = "elicit"

(* Whoever has refused a question, or is past NeedsInput, has stopped the  *)
(* run or is about to.                                                     *)
StopInv ==
    /\ GiveUpStopsRun
    /\ \A c \in Question : verdict[c] = NoHuman => Stopping
    /\ \A c \in Question : call[c] \in {"stopping", "closing"} => Settled(run.state)

(* With one call at a time, nobody refuses the question of another.        *)
OneInv ==
    /\ IsFiniteSet(InFlight)
    /\ OneCall => \A c, d \in InFlight : c = d

AnswerInv ==
    /\ AnswerDelivered
    /\ \A c \in accepted :
          /\ verdict[c] = Answer(c)
          /\ call[c] \in {"resting", "stopping"} => via[c] = "elicit" \/ ~OneCall

(* A resolver that times out on the TUI's channel writes its entry before  *)
(* NeedsInput, the other after it; with one call at a time, it is the only *)
(* one that asks.                                                          *)
AuditInv ==
    /\ RestAudited
    /\ \A c \in Question :
          /\ call[c] \in {"resting", "stopping"} =>
                via[c] = "elicit" \/ <<"timeout", c>> \in log
          /\ <<"timeout", c>> \in log => call[c] = "resting" \/ Settled(run.state)
    /\ OneCall =>
          \A c \in TimedOut, d \in Question :
             d \in TimedOut \/ call[d] \in Unresolved \cup {"collecting", "resting"}
                => d = c

GateInv ==
    /\ TypeOK /\ StartedInv /\ PendingInv /\ RouteInv /\ StopInv /\ OneInv
    /\ AnswerInv /\ AuditInv

-----------------------------------------------------------------------------
(* Liveness *)

(* Every call the gate takes gets a reply: no resolver waits for a verdict *)
(* that nobody will send, and neither channel is waited on for ever.       *)
CallsEnd == \A c \in Question : call[c] = "reading" ~> call[c] = "done"

=============================================================================
