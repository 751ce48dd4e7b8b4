------------------------- MODULE GateResolver_proofs -------------------------
(***************************************************************************)
(* Theorems about GateResolver, for any questions, front ends, await_agent *)
(* calls and limits.                                                       *)
(***************************************************************************)
EXTENDS GateResolver, FiniteSetTheorems, TLAPS

-----------------------------------------------------------------------------
(* Type correctness *)

(* Each method that is called on the run turns it into a Run.              *)
LEMMA RunType ==
    ASSUME NEW r \in RunRecord
    PROVE  /\ \A o \in {"completed", "failed", "cancelled"} : Finish(r, o) \in RunRecord
           /\ Expire(r) \in RunRecord
           /\ \A q \in Question : Ask(r, q) \in RunRecord
           /\ Resolve(r) \in RunRecord
           /\ NeedsInput(r) \in RunRecord /\ CancelRested(r) \in RunRecord
           /\ \A s \in RunId : Supersede(r, s) \in RunRecord
           /\ [r EXCEPT !.deadline = "passed"] \in RunRecord
<1>1. \A o \in {"completed", "failed", "cancelled"} : Finish(r, o) \in RunRecord
  BY DEF Finish, RunRecord, States
<1>2. Expire(r) \in RunRecord
  <2>1. CASE IsDue(r)  BY <2>1 DEF Expire, RunRecord, States
  <2>2. CASE ~IsDue(r)  BY <2>2 DEF Expire
  <2> QED BY <2>1, <2>2
<1>3. \A q \in Question : Ask(r, q) \in RunRecord  BY DEF Ask, RunRecord
<1>4. Resolve(r) \in RunRecord  BY DEF Resolve, RunRecord
<1>5. NeedsInput(r) \in RunRecord
  <2>1. CASE Settled(r.state)  BY <2>1 DEF NeedsInput
  <2>2. CASE ~Settled(r.state)
    <3> DEFINE due == IF r.asked THEN "ahead" ELSE r.deadline
    <3>1. due \in {"unset", "ahead", "passed"}  BY DEF RunRecord
    <3>2. NeedsInput(r) = [r EXCEPT !.state = "needs_input", !.done = TRUE, !.pending = None,
                                    !.deadline = due, !.owes = r.cancel]
      BY <2>2 DEF NeedsInput
    <3> HIDE DEF due
    <3> QED BY <3>1, <3>2 DEF RunRecord, States
  <2> QED BY <2>1, <2>2
<1>6. \A s \in RunId : Supersede(r, s) \in RunRecord
  BY DEF Supersede, RunRecord, States
<1>7. [r EXCEPT !.deadline = "passed"] \in RunRecord  BY DEF RunRecord
<1>8. CancelRested(r) \in RunRecord
  <2> DEFINE stop == r.stopped \/ r.owes
  <2>1. stop \in BOOLEAN  BY DEF RunRecord
  <2>2. CancelRested(r) = [r EXCEPT !.owes = FALSE, !.stopped = stop]  BY DEF CancelRested
  <2> HIDE DEF stop
  <2> QED BY <2>1, <2>2 DEF RunRecord
<1> QED BY <1>1, <1>2, <1>3, <1>4, <1>5, <1>6, <1>7, <1>8

(* So is the Run that Start makes of nothing.                              *)
LEMMA StartType == [NewRun(None, 0) EXCEPT !.cancel = TRUE] \in RunRecord
BY DEF NewRun, NoRun, RunRecord, States

(* A verdict that is said is one.                                          *)
LEMMA SayType ==
    ASSUME TypeOK, NEW w \in Verdicts, SayPending(w)
    PROVE  verdict' \in [Question -> Verdicts]
BY DEF TypeOK, SayPending

(* The words that are said and replied.                                    *)
LEMMA WordTypes ==
    /\ Empty \in Verdicts /\ NoHuman \in Verdicts /\ Closed \in Verdicts
    /\ \A q \in Question : Answer(q) \in Verdicts
    /\ NoHuman \in Replies /\ Silent \in Replies
    /\ \A k \in {"approval denied", "busy", "unauthorised", "unreachable"} :
          Word(k, None) \in Replies
    /\ \A w \in Verdicts : w # Empty => w \in Replies
BY DEF Verdicts, Replies, Refusals

(* A reply ends the call.                                                  *)
LEMMA ReplyType ==
    ASSUME TypeOK, NEW c \in Question, NEW w \in Replies, ReplyWith(c, w)
    PROVE  call' \in [Question -> CallStep] /\ reply' \in [Question -> Replies]
BY DEF TypeOK, ReplyWith, GoTo, CallStep

(* A call moves from step to step.                                         *)
LEMMA GoType ==
    ASSUME TypeOK, NEW c \in Question, NEW step \in CallStep, GoTo(c, step)
    PROVE  call' \in [Question -> CallStep]
BY DEF TypeOK, GoTo

(* An audit entry is an event of a call.                                   *)
LEMMA AuditType ==
    ASSUME TypeOK, NEW c \in Question, NEW event \in Events, Audit(event, c)
    PROVE  log' \in SUBSET (Events \X Question)
BY DEF TypeOK, Audit

(* A step of the child, or of the host's human, keeps the types.           *)
LEMMA OutsideType ==
    ASSUME TypeOK, NEW c \in Question, Outside(c)
    PROVE  TypeOK'
<1> USE DEF gateVars, awaitVars
<1>1. CASE Unreachable(c)
  BY <1>1, ReplyType, WordTypes DEF Unreachable, TypeOK
<1>2. CASE Reject(c)  BY <1>2, ReplyType, WordTypes DEF Reject, TypeOK
<1>3. CASE Accept(c)  BY <1>3, GoType DEF Accept, TypeOK, CallStep
<1>4. CASE Abandon(c)  BY <1>4 DEF Abandon, TypeOK
<1>5. CASE HumanAnswers(c)  BY <1>5, GoType DEF HumanAnswers, TypeOK, CallStep
<1>6. CASE HumanDeclines(c)  BY <1>6, GoType DEF HumanDeclines, TypeOK, CallStep
<1> QED BY <1>1, <1>2, <1>3, <1>4, <1>5, <1>6 DEF Outside

(* DenyQuestion keeps the types of what it changes.                        *)
LEMMA DenyType ==
    ASSUME TypeOK, DenyPending
    PROVE  run' \in RunRecord /\ verdict' \in [Question -> Verdicts]
<1>1. CASE MayResolve(run, None)
  BY <1>1, RunType, SayType, WordTypes DEF DenyPending, TypeOK
<1>2. CASE ~MayResolve(run, None)  BY <1>2 DEF DenyPending, TypeOK
<1> QED BY <1>1, <1>2

(* A step of the goroutine that serves a call keeps the types.             *)
LEMMA ServeType ==
    ASSUME TypeOK, NEW c \in Question, Serve(c)
    PROVE  TypeOK'
<1> USE DEF gateVars, awaitVars
<1>0. run \in RunRecord  BY DEF TypeOK
<1>1. CASE RefusePeer(c)  BY <1>1, ReplyType, WordTypes DEF RefusePeer, TypeOK
<1>2. CASE DenyApproval(c)
  BY <1>2, ReplyType, AuditType, WordTypes DEF DenyApproval, TypeOK, Events
<1>3. CASE Lookup(c)
  <2>1. CASE ~registered /\ FailClosed(c)
    BY <1>3, <2>1, ReplyType, AuditType, WordTypes
    DEF Lookup, FailClosed, TypeOK, Events
  <2>2. CASE ~(~registered /\ FailClosed(c))
    <3>1. CASE IsDue(run)
      BY <1>0, <1>3, <2>2, <3>1, RunType, GoType, SayType, WordTypes
      DEF Lookup, SettleAs, TypeOK, CallStep
    <3>2. CASE ~IsDue(run)
      BY <1>3, <2>2, <3>2, GoType DEF Lookup, TypeOK, CallStep
    <3> QED BY <3>1, <3>2
  <2> QED BY <2>1, <2>2
<1>4. CASE AskRun(c)
  <2>1. CASE MayAsk(run)
    BY <1>0, <1>4, <2>1, RunType, GoType, AuditType DEF AskRun, TypeOK, CallStep, Events
  <2>2. CASE ~MayAsk(run)
    BY <1>4, <2>2, ReplyType, AuditType, WordTypes
    DEF AskRun, FailClosed, TypeOK, Events
  <2> QED BY <2>1, <2>2
<1>5. CASE Route(c)
  <2>1. call' \in [Question -> CallStep]
    BY <1>5, GoType DEF Route, CallStep
  <2>2. via' \in [Question -> {"none", "tui", "elicit"}]
    BY <1>5 DEF Route, TypeOK
  <2> QED BY <1>5, <2>1, <2>2 DEF Route, TypeOK
<1>6. CASE Elicit(c)
  <2>1. call' \in [Question -> CallStep]
    BY <1>6, GoType DEF Elicit, CallStep
  <2> QED BY <1>6, <2>1 DEF Elicit, TypeOK
<1>7. CASE LookFirst(c)  BY <1>7, GoType DEF LookFirst, TypeOK, CallStep
<1>8. CASE Receive(c)
  <2>1. verdict[c] \in Replies  BY <1>8, WordTypes DEF Receive, TypeOK
  <2> QED BY <1>8, <2>1, ReplyType, AuditType DEF Receive, TypeOK, Events
<1>9. CASE TimesOut(c)  BY <1>9, GoType DEF TimesOut, TypeOK, CallStep
<1>10. CASE ElicitTimesOut(c)
  BY <1>10, GoType DEF ElicitTimesOut, TypeOK, CallStep
<1>11. CASE SubmitElicited(c)
  <2>1. run' \in RunRecord /\ verdict' \in [Question -> Verdicts]
    BY <1>0, <1>11, RunType, SayType, WordTypes DEF SubmitElicited, TypeOK
  <2>2. call' \in [Question -> CallStep]
    BY <1>11, GoType DEF SubmitElicited, CallStep
  <2>3. log' \in SUBSET (Events \X Question) /\ accepted' \in SUBSET Question
    BY <1>11, AuditType DEF SubmitElicited, TypeOK, Events
  <2> QED BY <1>11, <2>1, <2>2, <2>3 DEF SubmitElicited, TypeOK
<1>12. CASE RefuseAfterTUI(c)
  <2>1. call' \in [Question -> CallStep]
    BY <1>12, GoType DEF RefuseAfterTUI, CallStep
  <2>2. log' \in SUBSET (Events \X Question)
    BY <1>12, AuditType DEF RefuseAfterTUI, TypeOK, Events
  <2> QED BY <1>12, <2>1, <2>2, DenyType DEF RefuseAfterTUI, TypeOK
<1>13. CASE RefuseAfterElicit(c)
  BY <1>13, GoType, DenyType DEF RefuseAfterElicit, TypeOK, CallStep
<1>14. CASE Rest(c)
  <2>1. run' \in RunRecord  BY <1>0, <1>14, RunType DEF Rest
  <2>2. verdict' \in [Question -> Verdicts]
    BY <1>14, SayType, WordTypes DEF Rest, TypeOK
  <2>3. call' \in [Question -> CallStep] /\ reply' \in [Question -> Replies]
    BY <1>14, GoType, ReplyType, WordTypes DEF Rest, Rested, TypeOK, CallStep
  <2> QED BY <1>14, <2>1, <2>2, <2>3 DEF Rest, TypeOK
<1>16. CASE StopRun(c)
  <2>1. call' \in [Question -> CallStep] /\ reply' \in [Question -> Replies]
    BY <1>16, GoType, ReplyType, WordTypes DEF StopRun, Rested, TypeOK, CallStep
  <2> QED BY <1>0, <1>16, <2>1, RunType DEF StopRun, TypeOK
<1>15. CASE CloseCall(c)
  BY <1>15, ReplyType, AuditType, WordTypes DEF CloseCall, TypeOK, Events
<1> QED BY <1>1, <1>2, <1>3, <1>4, <1>5, <1>6, <1>7, <1>8, <1>9, <1>10, <1>11, <1>12,
           <1>13, <1>14, <1>15, <1>16
        DEF Serve

(* So do the operators, await_agent and the rest of the bridge: TypeOK is  *)
(* inductive.                                                              *)
LEMMA NextType == TypeOK /\ [Next]_vars => TypeOK'
<1> SUFFICES ASSUME TypeOK, [Next]_vars  PROVE TypeOK'  OBVIOUS
<1> USE DEF gateVars, awaitVars
<1>0. run \in RunRecord /\ run.pending \in Question \cup {None}
  BY DEF TypeOK, RunRecord
<1>1. ASSUME NEW o \in Operator, Render(o)  PROVE TypeOK'
  BY <1>0, <1>1 DEF Render, TypeOK
<1>2. ASSUME NEW o \in Operator, SendAnswer(o)  PROVE TypeOK'
  <2>1. seen[o] \in Question  BY <1>2 DEF SendAnswer, TypeOK
  <2>2. run' \in RunRecord /\ verdict' \in [Question -> Verdicts]
    BY <1>0, <1>2, <2>1, RunType, SayType, WordTypes DEF SendAnswer, TypeOK
  <2>3. accepted' \in SUBSET Question  BY <1>2, <2>1 DEF SendAnswer, TypeOK
  <2> QED BY <1>2, <2>2, <2>3 DEF SendAnswer, TypeOK
<1>3. ASSUME NEW a \in Await, AwaitBegins(a)  PROVE TypeOK'
  BY <1>3 DEF AwaitBegins, TypeOK
<1>4. ASSUME NEW a \in Await, AwaitReturns(a)  PROVE TypeOK'
  BY <1>4 DEF AwaitReturns, TypeOK
<1>5. CASE StartRun  BY <1>5, StartType DEF StartRun, TypeOK
<1>6. CASE FinishRun
  BY <1>0, <1>6, RunType, SayType, WordTypes DEF FinishRun, SettleAs, TypeOK
<1>7. CASE ExpireRun
  <2>1. Expire([run EXCEPT !.deadline = "passed"]) \in RunRecord  BY <1>0, RunType
  <2> QED BY <1>7, <2>1, SayType, WordTypes DEF ExpireRun, SettleAs, TypeOK
<1>8. CASE ContinueRun  BY <1>0, <1>8, RunType DEF ContinueRun, TypeOK
<1>9. CASE PruneRun  BY <1>9 DEF PruneRun, TypeOK
<1>10. CASE UNCHANGED vars  BY <1>10 DEF vars, TypeOK
<1> QED BY <1>1, <1>2, <1>3, <1>4, <1>5, <1>6, <1>7, <1>8, <1>9, <1>10, OutsideType,
           ServeType
        DEF Next, RunStep

(* Every variable keeps its type.                                          *)
THEOREM TypeCorrect == Spec => []TypeOK
<1>1. Init => TypeOK
  <2> SUFFICES ASSUME Init  PROVE TypeOK  OBVIOUS
  <2>1. run \in RunRecord  BY DEF Init, NoRun, RunRecord, States
  <2>2. call \in [Question -> CallStep] /\ via \in [Question -> {"none", "tui", "elicit"}]
    BY DEF Init, CallStep
  <2>3. verdict \in [Question -> Verdicts] /\ reply \in [Question -> Replies]
    BY WordTypes DEF Init
  <2>4. /\ seen \in [Operator -> Question \cup {None}]
        /\ awaits \in SUBSET Await /\ awaiter \in Await \cup {None}
        /\ log \in SUBSET (Events \X Question)
        /\ dropped \in SUBSET Question /\ accepted \in SUBSET Question
    BY DEF Init
  <2>5. registered \in BOOLEAN /\ listening \in BOOLEAN  BY DEF Init
  <2> QED BY <2>1, <2>2, <2>3, <2>4, <2>5 DEF TypeOK
<1> QED BY <1>1, NextType, PTL DEF Spec

-----------------------------------------------------------------------------
(* What each step does to the run and to the verdict channels *)

(* The run may start or leave needs_input, but no question comes or goes.  *)
Steady ==
    /\ run'.pending = run.pending /\ verdict' = verdict
    /\ run.state # "unstarted" => run'.state # "unstarted"
    /\ Settled(run.state) => Settled(run'.state)
    /\ run'.state = "needs_input" => run.state = "needs_input"
    /\ run.pending # None => run'.state = run.state

(* The question of call c is asked.                                        *)
Asks(c) ==
    /\ run.state \notin {"unstarted", "needs_input"} /\ ~Settled(run.state)
    /\ run.pending = None
    /\ run'.state = run.state /\ run'.pending = c /\ verdict' = verdict

(* The pending question is resolved with w.                                *)
Resolves(w) ==
    /\ run.pending # None
    /\ run'.state = run.state /\ run'.pending = None /\ SayPending(w)

(* The run settles.                                                        *)
Settles ==
    /\ ~Settled(run.state) /\ Settled(run'.state)
    /\ run'.pending = None /\ SayPending(Closed)

(* A state no method of Run sees is neither settled nor asking.            *)
LEMMA StateFacts ==
    /\ ~Settled("unstarted") /\ ~Settled("running") /\ Settled("needs_input")
    /\ \A s \in States : Settled(s) => s # "unstarted"
    /\ \A s \in {"completed", "failed", "cancelled", "superseded"} : Settled(s)
    /\ \A s \in States : s \in {"unstarted", "running"} \/ Settled(s)
BY DEF Settled, IsTerminal, States

(* With no question pending, saying something reaches nobody.              *)
LEMMA SayNothing ==
    ASSUME TypeOK, run.pending = None, NEW w, SayPending(w)
    PROVE  verdict' = verdict
BY NoneAssumption DEF TypeOK, SayPending

(* A step that leaves the run and the channels alone is steady.            *)
LEMMA SteadyUnchanged == UNCHANGED <<run, verdict>> => Steady
BY DEF Steady

(* The parts of the invariant that the effects need.                       *)
RunInv == TypeOK /\ StartedInv /\ PendingInv

(* Registry.Get expires a run that is due, which has nothing pending.      *)
LEMMA LookupEffect ==
    ASSUME RunInv, NEW c \in Question, Lookup(c)
    PROVE  Steady
<1>1. CASE UNCHANGED <<run, verdict>>  BY <1>1, SteadyUnchanged
<1>2. CASE IsDue(run) /\ SettleAs(Expire(run))
  <2>1. run.state = "needs_input" /\ run \in RunRecord /\ run.pending = None
    BY <1>2, StateFacts DEF IsDue, RunInv, TypeOK, PendingInv
  <2>2. verdict' = verdict  BY <1>2, <2>1, SayNothing DEF SettleAs, RunInv
  <2>3. run' = [run EXCEPT !.state = "failed", !.pending = None]
    BY <1>2 DEF SettleAs, Expire
  <2>4. run'.state = "failed" /\ run'.pending = None  BY <2>1, <2>3 DEF RunRecord
  <2> QED BY <2>1, <2>2, <2>4, StateFacts DEF Steady
<1> QED BY <1>1, <1>2 DEF Lookup, FailClosed

(* Ask is refused, or the question is pending now.                         *)
LEMMA AskRunEffect ==
    ASSUME RunInv, NEW c \in Question, AskRun(c)
    PROVE  /\ MayAsk(run) => Asks(c)
           /\ ~MayAsk(run) => Steady
<1>1. ASSUME MayAsk(run)  PROVE Asks(c)
  <2>1. run' = Ask(run, c) /\ verdict' = verdict /\ call[c] = "found"
    BY <1>1 DEF AskRun
  <2>2. run \in RunRecord /\ run.state # "unstarted"
    BY <2>1 DEF RunInv, TypeOK, StartedInv
  <2>3. run'.state = run.state /\ run'.pending = c
    BY <2>1, <2>2 DEF Ask, RunRecord
  <2> QED BY <1>1, <2>1, <2>2, <2>3, StateFacts DEF Asks, MayAsk
<1>2. ASSUME ~MayAsk(run)  PROVE Steady
  BY <1>2, SteadyUnchanged DEF AskRun, FailClosed
<1> QED BY <1>1, <1>2

(* resolve takes the pending question, whatever is said about it.          *)
LEMMA ResolveEffect ==
    ASSUME RunInv, NEW q, MayResolve(run, q), run' = Resolve(run), NEW w, SayPending(w)
    PROVE  Resolves(w) /\ (q # None => run.pending = q)
BY DEF RunInv, TypeOK, MayResolve, Resolve, Resolves, RunRecord

(* DenyQuestion refuses what is pending, or finds nothing.                 *)
LEMMA DenyEffect ==
    ASSUME RunInv, DenyPending
    PROVE  /\ MayResolve(run, None) => Resolves(NoHuman)
           /\ ~MayResolve(run, None) => run.pending = None /\ Steady
<1>1. ASSUME MayResolve(run, None)  PROVE Resolves(NoHuman)
  BY <1>1, ResolveEffect DEF DenyPending
<1>2. ASSUME ~MayResolve(run, None)  PROVE run.pending = None /\ Steady
  BY <1>2, SteadyUnchanged DEF DenyPending, MayResolve
<1> QED BY <1>1, <1>2

(* NeedsInput settles the run, unless something has.                       *)
LEMMA RestEffect ==
    ASSUME RunInv, NEW c \in Question, Rest(c)
    PROVE  (Settled(run.state) /\ Steady) \/ Settles
<1>1. CASE Settled(run.state)
  <2>1. run' = run /\ verdict' = verdict  BY <1>1 DEF Rest, NeedsInput
  <2> QED BY <1>1, <2>1, SteadyUnchanged
<1>2. CASE ~Settled(run.state)
  <2>1. run'.state = "needs_input" /\ run'.pending = None
    BY <1>2 DEF Rest, NeedsInput, RunInv, TypeOK, RunRecord
  <2>2. SayPending(Closed)  BY <1>2 DEF Rest
  <2> QED BY <1>2, <2>1, <2>2, StateFacts DEF Settles
<1> QED BY <1>1, <1>2

(* The call of r.cancel has nothing to do with questions and states.       *)
LEMMA StopEffect ==
    ASSUME RunInv, NEW c \in Question, StopRun(c)
    PROVE  Steady
BY DEF StopRun, CancelRested, RunInv, TypeOK, RunRecord, Steady

(* An elicited text answers the question of its own call, or nothing.      *)
LEMMA SubmitEffect ==
    ASSUME RunInv, NEW c \in Question, SubmitElicited(c)
    PROVE  \/ /\ run.pending = c /\ Resolves(Answer(c))
              /\ accepted' = accepted \cup {c} /\ call' = [call EXCEPT ![c] = "collecting"]
              /\ log' = log
           \/ /\ Steady /\ accepted' = accepted /\ call' = [call EXCEPT ![c] = "refusing"]
              /\ log' = log \cup {<<"denied", c>>}
<1>1. c # None  BY NoneAssumption
<1>2. CASE MayResolve(run, c) /\ run' = Resolve(run) /\ SayPending(Answer(c))
           /\ accepted' = accepted \cup {c} /\ GoTo(c, "collecting") /\ log' = log
  BY <1>1, <1>2, ResolveEffect DEF GoTo
<1>3. CASE GoTo(c, "refusing") /\ Audit("denied", c) /\ UNCHANGED <<run, verdict, accepted>>
  BY <1>3, SteadyUnchanged DEF GoTo, Audit
<1> QED BY <1>2, <1>3 DEF SubmitElicited

(* So does an answer from a front end.                                     *)
LEMMA SendEffect ==
    ASSUME RunInv, NEW o \in Operator, SendAnswer(o)
    PROVE  \/ /\ run.pending = seen[o] /\ Resolves(Answer(seen[o]))
              /\ accepted' = accepted \cup {seen[o]}
           \/ Steady /\ accepted' = accepted
<1>1. seen[o] # None  BY DEF SendAnswer
<1>2. CASE registered /\ MayResolve(run, seen[o])
  BY <1>1, <1>2, ResolveEffect DEF SendAnswer
<1>3. CASE ~(registered /\ MayResolve(run, seen[o]))
  BY <1>3, SteadyUnchanged DEF SendAnswer
<1> QED BY <1>2, <1>3

(* The rest of the bridge starts the run, settles it, or has nothing to do *)
(* with its questions.  Only a resolver brings it to rest.                 *)
LEMMA RunStepEffect ==
    ASSUME RunInv, RunStep
    PROVE  /\ Steady \/ Settles
           /\ run'.state = "needs_input" => run.state = "needs_input"
           /\ registered' => registered \/ run'.state # "unstarted"
<1>0. run \in RunRecord  BY DEF RunInv, TypeOK
<1>1. CASE StartRun
  <2>1. run'.state = "running" /\ run'.pending = None
    BY <1>1 DEF StartRun, NewRun, NoRun
  <2>2. run.pending = None /\ ~Settled(run.state) /\ run.state = "unstarted"
    BY <1>1, StateFacts DEF StartRun, RunInv, PendingInv
  <2> QED BY <1>1, <2>1, <2>2 DEF StartRun, Steady, gateVars
<1>2. CASE FinishRun
  <2>1. PICK outcome \in {"completed", "failed", "cancelled"} : SettleAs(Finish(run, outcome))
    BY <1>2 DEF FinishRun
  <2>2. ~Settled(run.state)  BY <1>2, StateFacts DEF FinishRun
  <2>3. run'.state = outcome /\ run'.pending = None
    BY <1>0, <2>1, <2>2 DEF SettleAs, Finish, RunRecord
  <2> QED BY <1>2, <2>1, <2>2, <2>3, StateFacts DEF SettleAs, Settles, FinishRun
<1>3. CASE ExpireRun
  <2>1. run.state = "needs_input" /\ run.pending = None
    BY <1>3, StateFacts DEF ExpireRun, RunInv, PendingInv
  <2>2. verdict' = verdict  BY <1>3, <2>1, SayNothing DEF ExpireRun, SettleAs, RunInv
  <2>3. run'.state = "failed" /\ run'.pending = None
    BY <1>0, <1>3, <2>1 DEF ExpireRun, SettleAs, Expire, IsDue, RunRecord
  <2> QED BY <1>3, <2>1, <2>2, <2>3, StateFacts DEF ExpireRun, Steady
<1>4. CASE ContinueRun
  <2>1. run.state = "needs_input" /\ run.pending = None
    BY <1>4, StateFacts DEF ContinueRun, MayTakeContinuation, RunInv, PendingInv
  <2>2. run'.state = "superseded" /\ run'.pending = None
    BY <1>0, <1>4, <2>1 DEF ContinueRun, Supersede, RunRecord
  <2> QED BY <1>4, <2>1, <2>2, StateFacts DEF ContinueRun, Steady, gateVars
<1>5. CASE PruneRun  BY <1>5, SteadyUnchanged DEF PruneRun, gateVars
<1> QED BY <1>1, <1>2, <1>3, <1>4, <1>5 DEF RunStep

-----------------------------------------------------------------------------
(* The pending question *)

(* Steps that touch neither the run nor the channels: the calls of the     *)
(* child and the waits of a resolver.                                      *)
Quiet(c) ==
    \/ Unreachable(c) \/ Reject(c) \/ Accept(c) \/ RefusePeer(c) \/ DenyApproval(c)
    \/ Route(c) \/ Elicit(c) \/ LookFirst(c) \/ Receive(c) \/ TimesOut(c)
    \/ ElicitTimesOut(c) \/ CloseCall(c) \/ HumanAnswers(c) \/ HumanDeclines(c)

(* What a quiet step changes: the call, its route, its reply, the log.     *)
LEMMA QuietEffect ==
    ASSUME TypeOK, NEW c \in Question, Quiet(c)
    PROVE  /\ UNCHANGED <<run, verdict, registered, accepted, dropped, seen>>
           /\ \A d \in Question : d # c => /\ call'[d] = call[d] /\ via'[d] = via[d]
                                           /\ reply'[d] = reply[d]
           /\ call[c] \in Unresolved => call'[c] \in Unresolved \/ verdict[c] # Empty
           /\ call'[c] \in {"reading", "found"} => call[c] = "idle"
           /\ call'[c] \notin {"found", "resting", "stopping", "closing"}
           /\ call[c] \notin {"resting", "stopping"}
           /\ call'[c] # "idle"
<1> USE DEF Unresolved, GoTo, ReplyWith, Dials, TypeOK
<1>1. CASE Unreachable(c)  BY <1>1 DEF Unreachable
<1>2. CASE Reject(c)  BY <1>2 DEF Reject
<1>3. CASE Accept(c)  BY <1>3 DEF Accept
<1>4. CASE RefusePeer(c)  BY <1>4 DEF RefusePeer
<1>5. CASE DenyApproval(c)  BY <1>5 DEF DenyApproval
<1>6. CASE Route(c)  BY <1>6 DEF Route
<1>7. CASE Elicit(c)  BY <1>7 DEF Elicit
<1>8. CASE LookFirst(c)  BY <1>8 DEF LookFirst
<1>9. CASE Receive(c)  BY <1>9 DEF Receive
<1>10. CASE TimesOut(c)  BY <1>10 DEF TimesOut
<1>11. CASE ElicitTimesOut(c)  BY <1>11 DEF ElicitTimesOut
<1>12. CASE CloseCall(c)  BY <1>12 DEF CloseCall
<1>13. CASE HumanAnswers(c)  BY <1>13 DEF HumanAnswers
<1>14. CASE HumanDeclines(c)  BY <1>14 DEF HumanDeclines
<1> QED BY <1>1, <1>2, <1>3, <1>4, <1>5, <1>6, <1>7, <1>8, <1>9, <1>10, <1>11, <1>12,
           <1>13, <1>14
        DEF Quiet

(* Every step is one of these.                                             *)
LEMMA StepCases ==
    ASSUME [Next]_vars
    PROVE  \/ \E c \in Question :
                 \/ Quiet(c) \/ Abandon(c) \/ Lookup(c) \/ AskRun(c) \/ SubmitElicited(c)
                 \/ RefuseAfterTUI(c) \/ RefuseAfterElicit(c) \/ Rest(c) \/ StopRun(c)
           \/ \E o \in Operator : Render(o) \/ SendAnswer(o)
           \/ \E a \in Await : AwaitBegins(a) \/ AwaitReturns(a)
           \/ RunStep \/ UNCHANGED vars
BY DEF Next, Outside, Serve, Quiet

(* What each step does to the run and to the channels, and that the state  *)
(* of the run stays true to its question and to the registry.              *)
Effect ==
    \/ Steady \/ Settles
    \/ \E c \in Question : Asks(c)
    \/ \E w \in Verdicts \ {Empty} : Resolves(w)

(* What a channel can hold are different values.                           *)
LEMMA NotEmpty ==
    /\ NoHuman # Empty /\ Closed # Empty /\ NoHuman # Closed
    /\ \A q \in Question : Answer(q) \notin {Empty, NoHuman, Closed}
    /\ \A p, q \in Question : Answer(p) = Answer(q) => p = q
BY DEF NoHuman, Empty, Closed, Answer, Word

(* Every step has one of the four effects.                                 *)
LEMMA StepEffect ==
    ASSUME RunInv, [Next]_vars
    PROVE  Effect
<1> USE DEF Effect
<1>0. TypeOK  BY DEF RunInv
<1>1. ASSUME NEW c \in Question, Quiet(c)  PROVE Effect
  BY <1>0, <1>1, QuietEffect, SteadyUnchanged
<1>2. ASSUME NEW c \in Question, Abandon(c)  PROVE Effect
  BY <1>2, SteadyUnchanged DEF Abandon, gateVars
<1>3. ASSUME NEW c \in Question, Lookup(c)  PROVE Effect  BY <1>3, LookupEffect
<1>4. ASSUME NEW c \in Question, AskRun(c)  PROVE Effect  BY <1>4, AskRunEffect
<1>5. ASSUME NEW c \in Question, SubmitElicited(c)  PROVE Effect
  BY <1>5, SubmitEffect, WordTypes, NotEmpty
<1>6. ASSUME NEW c \in Question, RefuseAfterTUI(c) \/ RefuseAfterElicit(c)  PROVE Effect
  BY <1>6, DenyEffect, WordTypes, NotEmpty DEF RefuseAfterTUI, RefuseAfterElicit
<1>7. ASSUME NEW c \in Question, Rest(c) \/ StopRun(c)  PROVE Effect
  BY <1>7, RestEffect, StopEffect
<1>8. ASSUME NEW o \in Operator, Render(o)  PROVE Effect
  BY <1>8, SteadyUnchanged DEF Render, gateVars
<1>9. ASSUME NEW o \in Operator, SendAnswer(o)  PROVE Effect
  <2>1. seen[o] \in Question  BY <1>0, <1>9 DEF SendAnswer, TypeOK
  <2> QED BY <1>9, <2>1, SendEffect, WordTypes, NotEmpty
<1>10. ASSUME NEW a \in Await, AwaitBegins(a) \/ AwaitReturns(a)  PROVE Effect
  BY <1>10, SteadyUnchanged DEF AwaitBegins, AwaitReturns, gateVars
<1>11. CASE RunStep  BY <1>11, RunStepEffect
<1>12. CASE UNCHANGED vars  BY <1>12, SteadyUnchanged DEF vars, gateVars
<1> QED BY <1>1, <1>2, <1>3, <1>4, <1>5, <1>6, <1>7, <1>8, <1>9, <1>10, <1>11, <1>12,
           StepCases

(* A run that has settled stays settled, and one that has started stays    *)
(* started.                                                                *)
LEMMA EffectState ==
    ASSUME RunInv, Effect, TypeOK'
    PROVE  /\ Settled(run.state) => Settled(run'.state)
           /\ run.state # "unstarted" => run'.state # "unstarted"
BY StateFacts DEF Effect, Steady, Settles, Asks, Resolves, TypeOK, RunRecord

(* A verdict stays what it is.                                             *)
LEMMA EffectVerdict ==
    ASSUME RunInv, Effect, TypeOK', NEW c \in Question
    PROVE  /\ verdict[c] # Empty => verdict'[c] = verdict[c]
           /\ verdict'[c] # verdict[c] => run.pending = c /\ run'.pending = None
<1>1. run.pending = c => verdict[c] = Empty
  BY NoneAssumption DEF RunInv, PendingInv
<1>2. \A w : SayPending(w) =>
        verdict'[c] = IF run.pending = c THEN w ELSE verdict[c]
  BY DEF SayPending
<1> QED BY <1>1, <1>2 DEF Effect, Steady, Settles, Asks, Resolves

(* The rest of the bridge does not touch the calls.                        *)
LEMMA RunStepFrame ==
    ASSUME RunStep
    PROVE  UNCHANGED <<call, via, reply, log, accepted, dropped, seen>>
BY DEF RunStep, StartRun, FinishRun, ExpireRun, ContinueRun, PruneRun, gateVars

(* Nor do the operators, await_agent and the child that gives up.          *)
LEMMA OutsiderFrame ==
    ASSUME \/ \E o \in Operator : Render(o) \/ SendAnswer(o)
           \/ \E a \in Await : AwaitBegins(a) \/ AwaitReturns(a)
           \/ \E c \in Question : Abandon(c)
           \/ UNCHANGED vars
    PROVE  UNCHANGED <<call, via, reply, log, registered>>
BY DEF Render, SendAnswer, AwaitBegins, AwaitReturns, Abandon, vars, gateVars

(* A question stays with its resolver until somebody takes it.             *)
LEMMA PendingKept ==
    ASSUME RunInv, TypeOK',
           Steady \/ Settles \/ \E w \in Verdicts : Resolves(w),
           \A c \in Question :
              /\ call[c] \in Unresolved =>
                    \/ call'[c] \in Unresolved \/ verdict[c] # Empty \/ run'.pending # c
              /\ call'[c] \in {"idle", "reading", "found"} =>
                    call[c] \in {"idle", "reading", "found"}
    PROVE  PendingInv'
<1>1. run.pending \in Question \cup {None} /\ run'.pending \in Question \cup {None}
  BY DEF RunInv, TypeOK, RunRecord
<1>2. ASSUME run'.pending # None
      PROVE  /\ run'.state = "running" /\ verdict'[run'.pending] = Empty
             /\ call'[run'.pending] \in Unresolved
  <2>1. Steady  BY <1>2 DEF Settles, Resolves
  <2> QED BY <1>1, <1>2, <2>1 DEF Steady, RunInv, PendingInv
<1>3. ASSUME NEW c \in Question, call'[c] \in {"idle", "reading", "found"}
      PROVE  verdict'[c] = Empty
  <2>1. call[c] \in {"idle", "reading", "found"}  BY <1>3
  <2>2. run.pending # c  BY <2>1, NoneAssumption DEF RunInv, PendingInv, Unresolved
  <2>3. verdict[c] = Empty  BY <2>1 DEF RunInv, PendingInv
  <2> QED BY <2>2, <2>3 DEF Steady, Settles, Resolves, SayPending
<1> QED BY <1>2, <1>3 DEF PendingInv

(* PendingInv is inductive.                                                *)
LEMMA PendingStep ==
    ASSUME RunInv, TypeOK', [Next]_vars
    PROVE  PendingInv'
<1>0. TypeOK  BY DEF RunInv
<1> USE DEF Unresolved, GoTo, ReplyWith, FailClosed
<1>1. ASSUME NEW c \in Question, Quiet(c)  PROVE PendingInv'
  <2>1. Steady  BY <1>0, <1>1, QuietEffect, SteadyUnchanged
  <2>2. \A d \in Question :
          /\ call[d] \in Unresolved => call'[d] \in Unresolved \/ verdict[d] # Empty
          /\ call'[d] \in {"idle", "reading", "found"} =>
                call[d] \in {"idle", "reading", "found"}
    BY <1>0, <1>1, QuietEffect
  <2> QED BY <2>1, <2>2, PendingKept
<1>2. ASSUME NEW c \in Question, Lookup(c)  PROVE PendingInv'
  <2>1. \A d \in Question :
          /\ call[d] \in Unresolved => call'[d] \in Unresolved
          /\ call'[d] \in {"idle", "reading", "found"} =>
                call[d] \in {"idle", "reading", "found"}
    BY <1>0, <1>2 DEF Lookup, TypeOK
  <2> QED BY <1>2, <2>1, LookupEffect, PendingKept
<1>3. ASSUME NEW c \in Question, AskRun(c), MayAsk(run)  PROVE PendingInv'
  <2>1. Asks(c)  BY <1>3, AskRunEffect
  <2>2. call[c] = "found" /\ call' = [call EXCEPT ![c] = "asked"] /\ verdict' = verdict
    BY <1>3 DEF AskRun
  <2>3. verdict[c] = Empty  BY <2>2 DEF RunInv, PendingInv
  <2>4. run'.state = "running"
    BY <2>1, StateFacts DEF Asks, RunInv, TypeOK, RunRecord
  <2> QED BY <1>0, <2>1, <2>2, <2>3, <2>4 DEF Asks, PendingInv, RunInv, TypeOK
<1>4. ASSUME NEW c \in Question, AskRun(c), ~MayAsk(run)  PROVE PendingInv'
  <2>1. \A d \in Question :
          /\ call[d] \in Unresolved => call'[d] \in Unresolved
          /\ call'[d] \in {"idle", "reading", "found"} =>
                call[d] \in {"idle", "reading", "found"}
    BY <1>0, <1>4 DEF AskRun, TypeOK
  <2> QED BY <1>4, <2>1, AskRunEffect, PendingKept
<1>5. ASSUME NEW c \in Question, SubmitElicited(c)  PROVE PendingInv'
  <2>1. \A d \in Question :
          /\ call[d] \in Unresolved => call'[d] \in Unresolved \/ run'.pending # d
          /\ call'[d] \in {"idle", "reading", "found"} =>
                call[d] \in {"idle", "reading", "found"}
    BY <1>0, <1>5, SubmitEffect, NoneAssumption DEF Resolves, TypeOK
  <2> QED BY <1>5, <2>1, SubmitEffect, WordTypes, PendingKept
<1>6. ASSUME NEW c \in Question, RefuseAfterTUI(c) \/ RefuseAfterElicit(c)
      PROVE  PendingInv'
  <2>1. run'.pending = None /\ (Steady \/ Resolves(NoHuman))
    BY <1>6, DenyEffect DEF RefuseAfterTUI, RefuseAfterElicit, Steady, Resolves
  <2>2. \A d \in Question :
          /\ run'.pending # d
          /\ call'[d] \in {"idle", "reading", "found"} =>
                call[d] \in {"idle", "reading", "found"}
    BY <1>0, <1>6, <2>1, NoneAssumption DEF RefuseAfterTUI, RefuseAfterElicit, TypeOK
  <2> QED BY <2>1, <2>2, WordTypes, PendingKept
<1>7. ASSUME NEW c \in Question, Rest(c) \/ StopRun(c)  PROVE PendingInv'
  <2>1. \A d \in Question :
          /\ call[d] \in Unresolved => call'[d] \in Unresolved
          /\ call'[d] \in {"idle", "reading", "found"} =>
                call[d] \in {"idle", "reading", "found"}
    BY <1>0, <1>7 DEF Rest, StopRun, Rested, TypeOK
  <2> QED BY <1>7, <2>1, RestEffect, StopEffect, PendingKept
<1>8. ASSUME NEW o \in Operator, SendAnswer(o)  PROVE PendingInv'
  <2>1. call' = call  BY <1>8, OutsiderFrame
  <2>2. seen[o] \in Question  BY <1>0, <1>8 DEF SendAnswer, TypeOK
  <2> QED BY <1>8, <2>1, <2>2, SendEffect, WordTypes, PendingKept
<1>9. CASE RunStep
  BY <1>9, RunStepFrame, RunStepEffect, PendingKept
<1>10. CASE \/ \E o \in Operator : Render(o)
            \/ \E a \in Await : AwaitBegins(a) \/ AwaitReturns(a)
            \/ \E c \in Question : Abandon(c)
            \/ UNCHANGED vars
  <2>1. call' = call  BY <1>10, OutsiderFrame
  <2>2. UNCHANGED <<run, verdict>>
    BY <1>10 DEF Render, AwaitBegins, AwaitReturns, Abandon, vars, gateVars
  <2> QED BY <2>1, <2>2, SteadyUnchanged, PendingKept
<1> QED BY <1>1, <1>2, <1>3, <1>4, <1>5, <1>6, <1>7, <1>8, <1>9, <1>10, StepCases

(* StartedInv is inductive.                                                *)
LEMMA StartedStep ==
    ASSUME RunInv, TypeOK', [Next]_vars
    PROVE  StartedInv'
<1>0. TypeOK  BY DEF RunInv
<1>1. run.state # "unstarted" => run'.state # "unstarted"
  BY StepEffect, EffectState
<1>2. CASE RunStep
  BY <1>1, <1>2, RunStepEffect, RunStepFrame DEF RunInv, StartedInv
<1>3. CASE \E c \in Question : Quiet(c)
  BY <1>0, <1>1, <1>3, QuietEffect DEF RunInv, StartedInv
<1>4. CASE \E c \in Question : Lookup(c)
  BY <1>0, <1>1, <1>4
  DEF RunInv, StartedInv, Lookup, GoTo, FailClosed, ReplyWith, TypeOK
<1>5. CASE \E c \in Question : AskRun(c)
  BY <1>0, <1>1, <1>5
  DEF RunInv, StartedInv, AskRun, GoTo, FailClosed, ReplyWith, TypeOK
<1>6. CASE \E c \in Question : SubmitElicited(c)
  BY <1>0, <1>1, <1>6 DEF RunInv, StartedInv, SubmitElicited, GoTo, TypeOK
<1>7. CASE \E c \in Question : RefuseAfterTUI(c) \/ RefuseAfterElicit(c)
  BY <1>0, <1>1, <1>7
  DEF RunInv, StartedInv, RefuseAfterTUI, RefuseAfterElicit, GoTo, TypeOK
<1>8. CASE \E c \in Question : Rest(c) \/ StopRun(c)
  BY <1>0, <1>1, <1>8
  DEF RunInv, StartedInv, Rest, StopRun, Rested, GoTo, ReplyWith, TypeOK
<1>9. CASE \/ \E o \in Operator : Render(o) \/ SendAnswer(o)
           \/ \E a \in Await : AwaitBegins(a) \/ AwaitReturns(a)
           \/ \E c \in Question : Abandon(c)
           \/ UNCHANGED vars
  BY <1>1, <1>9, OutsiderFrame DEF RunInv, StartedInv
<1> QED BY <1>2, <1>3, <1>4, <1>5, <1>6, <1>7, <1>8, <1>9, StepCases

(* So the three parts hold together.                                       *)
LEMMA RunInvNext == RunInv /\ [Next]_vars => RunInv'
BY NextType, PendingStep, StartedStep DEF RunInv

-----------------------------------------------------------------------------
(* Giving up stops the run *)

(* RouteInv is inductive.                                                  *)
LEMMA RouteStep ==
    ASSUME TypeOK, RouteInv, [Next]_vars
    PROVE  RouteInv'
<1> USE DEF GoTo, ReplyWith, FailClosed, RouteInv, TypeOK
<1>1. ASSUME NEW c \in Question, Quiet(c)  PROVE RouteInv'
  <2>1. CASE Unreachable(c) \/ Reject(c) \/ Accept(c) \/ RefusePeer(c) \/ DenyApproval(c)
    BY <2>1 DEF Unreachable, Reject, Accept, RefusePeer, DenyApproval, Dials
  <2>2. CASE Route(c)  BY <2>2 DEF Route
  <2>3. CASE Elicit(c) \/ LookFirst(c) \/ Receive(c) \/ TimesOut(c)
    BY <2>3 DEF Elicit, LookFirst, Receive, TimesOut
  <2>4. CASE ElicitTimesOut(c) \/ CloseCall(c) \/ HumanAnswers(c) \/ HumanDeclines(c)
    BY <2>4 DEF ElicitTimesOut, CloseCall, HumanAnswers, HumanDeclines
  <2> QED BY <1>1, <2>1, <2>2, <2>3, <2>4 DEF Quiet
<1>2. ASSUME NEW c \in Question, Lookup(c)  PROVE RouteInv'  BY <1>2 DEF Lookup
<1>3. ASSUME NEW c \in Question, AskRun(c)  PROVE RouteInv'  BY <1>3 DEF AskRun
<1>4. ASSUME NEW c \in Question, SubmitElicited(c)  PROVE RouteInv'
  BY <1>4 DEF SubmitElicited
<1>5. ASSUME NEW c \in Question, RefuseAfterTUI(c) \/ RefuseAfterElicit(c)
      PROVE  RouteInv'
  BY <1>5 DEF RefuseAfterTUI, RefuseAfterElicit
<1>6. ASSUME NEW c \in Question, Rest(c) \/ StopRun(c)  PROVE RouteInv'
  BY <1>6 DEF Rest, StopRun, Rested
<1>7. CASE RunStep  BY <1>7, RunStepFrame
<1>8. CASE \/ \E o \in Operator : Render(o) \/ SendAnswer(o)
           \/ \E a \in Await : AwaitBegins(a) \/ AwaitReturns(a)
           \/ \E c \in Question : Abandon(c)
           \/ UNCHANGED vars
  BY <1>8, OutsiderFrame
<1> QED BY <1>1, <1>2, <1>3, <1>4, <1>5, <1>6, <1>7, <1>8, StepCases

(* A resolver that is about to put the run to rest does so.                *)
LEMMA RestingStep ==
    ASSUME RunInv, [Next]_vars, NEW d \in Question, call[d] = "resting"
    PROVE  call'[d] = "resting" \/ Settled(run'.state)
<1>0. TypeOK  BY DEF RunInv
<1> USE DEF GoTo, ReplyWith, FailClosed, TypeOK
<1>1. ASSUME NEW c \in Question, Quiet(c)  PROVE call'[d] = "resting"
  BY <1>0, <1>1, QuietEffect
<1>2. ASSUME NEW c \in Question, Lookup(c) \/ AskRun(c)  PROVE call'[d] = "resting"
  BY <1>0, <1>2 DEF Lookup, AskRun
<1>3. ASSUME NEW c \in Question, SubmitElicited(c)  PROVE call'[d] = "resting"
  BY <1>0, <1>3 DEF SubmitElicited
<1>4. ASSUME NEW c \in Question, RefuseAfterTUI(c) \/ RefuseAfterElicit(c)
      PROVE  call'[d] = "resting"
  BY <1>0, <1>4 DEF RefuseAfterTUI, RefuseAfterElicit
<1>5. ASSUME NEW c \in Question, Rest(c)  PROVE Settled(run'.state)
  BY <1>5, RestEffect DEF Steady, Settles
<1>8. ASSUME NEW c \in Question, StopRun(c)  PROVE call'[d] = "resting"
  BY <1>0, <1>8 DEF StopRun, Rested
<1>6. CASE RunStep  BY <1>6, RunStepFrame
<1>7. CASE \/ \E o \in Operator : Render(o) \/ SendAnswer(o)
           \/ \E a \in Await : AwaitBegins(a) \/ AwaitReturns(a)
           \/ \E c \in Question : Abandon(c)
           \/ UNCHANGED vars
  BY <1>7, OutsiderFrame
<1> QED BY <1>1, <1>2, <1>3, <1>4, <1>5, <1>6, <1>7, <1>8, StepCases

(* A run that is stopping does stop.                                       *)
LEMMA StoppingStep ==
    ASSUME RunInv, TypeOK', [Next]_vars, Stopping
    PROVE  Stopping'
BY StepEffect, EffectState, RestingStep DEF Stopping

(* StopInv is inductive.                                                   *)
LEMMA StopStep ==
    ASSUME RunInv, RunInv', RouteInv, StopInv, [Next]_vars
    PROVE  StopInv'
<1>0. TypeOK /\ TypeOK'  BY DEF RunInv
<1>1. Stopping => Stopping'  BY <1>0, StoppingStep
<1>2. Settled(run'.state) => Stopping'  BY DEF Stopping
<1>3. Settled(run.state) => Settled(run'.state)  BY <1>0, StepEffect, EffectState
<1> DEFINE Told(c) == call[c] = "done" /\ via[c] # "none" /\ reply[c] = NoHuman
           Ok(c) == /\ Told(c) => Stopping
                    /\ verdict[c] = NoHuman => Stopping
                    /\ call[c] \in {"stopping", "closing"} => Settled(run.state)
<1>4. (StopInv <=> \A c \in Question : Ok(c)) /\ (StopInv' <=> \A c \in Question : Ok(c)')
  BY DEF StopInv, GiveUpStopsRun
<1>5. SUFFICES ASSUME NEW d \in Question  PROVE Ok(d)'
  BY <1>4
<1>6. Ok(d)  BY <1>4
<1> HIDE DEF Ok, Told
(* A channel gets NoHuman from the two refusals only.                      *)
<1>7. ASSUME UNCHANGED <<call, via, reply>>, verdict'[d] = NoHuman => Stopping'
      PROVE  Ok(d)'
  BY <1>1, <1>3, <1>6, <1>7 DEF Ok, Told
<1>8. ASSUME Steady \/ Settles \/ \E q \in Question : Asks(q) \/ Resolves(Answer(q))
      PROVE  verdict'[d] = NoHuman => Stopping'
  <2>1. verdict'[d] = NoHuman => verdict[d] = NoHuman
    BY <1>8, NotEmpty DEF Steady, Settles, Asks, Resolves, SayPending
  <2> QED BY <1>1, <1>6, <2>1 DEF Ok
<1> USE DEF GoTo, ReplyWith
<1>9. ASSUME NEW c \in Question, Quiet(c)  PROVE Ok(d)'
  <2>1. verdict'[d] = NoHuman => Stopping'
    BY <1>0, <1>8, <1>9, QuietEffect, SteadyUnchanged
  <2>2. CASE c # d
    BY <1>0, <1>1, <1>3, <1>6, <1>9, <2>1, <2>2, QuietEffect DEF Ok, Told
  <2>3. CASE c = d
    <3>1. call'[c] \notin {"stopping", "closing"}  BY <1>0, <1>9, QuietEffect
    <3>2. ASSUME Told(c)'  PROVE Stopping'
      <4>1. CASE Receive(c)
        BY <1>0, <1>1, <1>6, <2>3, <3>2, <4>1 DEF Receive, TypeOK, Told, Ok
      <4>2. CASE CloseCall(c)
        BY <1>2, <1>3, <1>6, <2>3, <4>2 DEF CloseCall, Ok
      <4>3. CASE Unreachable(c) \/ Reject(c) \/ Accept(c) \/ RefusePeer(c) \/ DenyApproval(c)
        BY <1>0, <3>2, <4>3
        DEF Unreachable, Reject, Accept, RefusePeer, DenyApproval, Dials, TypeOK, Told,
            RouteInv
      <4>4. CASE Route(c) \/ Elicit(c) \/ LookFirst(c) \/ TimesOut(c) \/ ElicitTimesOut(c)
                 \/ HumanAnswers(c) \/ HumanDeclines(c)
        BY <1>0, <3>2, <4>4
        DEF Route, Elicit, LookFirst, TimesOut, ElicitTimesOut, HumanAnswers,
            HumanDeclines, TypeOK, Told
      <4> QED BY <1>9, <4>1, <4>2, <4>3, <4>4 DEF Quiet
    <3> QED BY <2>1, <2>3, <3>1, <3>2 DEF Ok
  <2> QED BY <2>2, <2>3
<1>10. ASSUME NEW c \in Question, Lookup(c)  PROVE Ok(d)'
  <2>1. verdict'[d] = NoHuman => Stopping'  BY <1>8, <1>10, LookupEffect
  <2> QED BY <1>0, <1>1, <1>3, <1>6, <1>10, <2>1
          DEF Lookup, FailClosed, Ok, Told, TypeOK, RouteInv
<1>11. ASSUME NEW c \in Question, AskRun(c)  PROVE Ok(d)'
  <2>1. verdict'[d] = NoHuman => Stopping'  BY <1>8, <1>11, AskRunEffect
  <2> QED BY <1>0, <1>1, <1>3, <1>6, <1>11, <2>1
          DEF AskRun, FailClosed, Ok, Told, TypeOK, RouteInv
<1>12. ASSUME NEW c \in Question, SubmitElicited(c)  PROVE Ok(d)'
  <2>1. verdict'[d] = NoHuman => Stopping'  BY <1>8, <1>12, SubmitEffect
  <2>2. call'[d] = call[d] \/ call'[d] \in {"collecting", "refusing"}
    BY <1>0, <1>12, SubmitEffect DEF TypeOK
  <2> QED BY <1>1, <1>3, <1>6, <1>12, <2>1, <2>2 DEF SubmitElicited, Ok, Told
<1>13. ASSUME NEW c \in Question, RefuseAfterTUI(c) \/ RefuseAfterElicit(c)
       PROVE  Ok(d)'
  <2>1. call' \in [Question -> CallStep]  BY <1>0 DEF TypeOK
  <2>2. CASE MayResolve(run, None)
    <3>1. call' = [call EXCEPT ![c] = "resting"]
      BY <1>13, <2>2 DEF RefuseAfterTUI, RefuseAfterElicit
    <3>2. Stopping'  BY <1>0, <3>1 DEF Stopping, TypeOK
    <3>3. call'[d] \notin {"stopping", "closing"} \/ call'[d] = call[d]
      BY <1>0, <3>1 DEF TypeOK
    <3> QED BY <1>3, <1>6, <3>2, <3>3 DEF Ok
  <2>3. CASE ~MayResolve(run, None)
    <3>1. verdict'[d] = NoHuman => Stopping'
      BY <1>8, <1>13, <2>3, DenyEffect DEF RefuseAfterTUI, RefuseAfterElicit
    <3>2. call'[d] = call[d] \/ call'[d] \in {"collecting", "resting"}
      BY <1>0, <1>13 DEF RefuseAfterTUI, RefuseAfterElicit, TypeOK
    <3> QED BY <1>1, <1>3, <1>6, <1>13, <3>1, <3>2
            DEF RefuseAfterTUI, RefuseAfterElicit, Ok, Told
  <2> QED BY <2>2, <2>3
<1>14. ASSUME NEW c \in Question, Rest(c)  PROVE Ok(d)'
  <2>1. Settled(run'.state)  BY <1>14, RestEffect DEF Steady, Settles
  <2> QED BY <1>2, <2>1 DEF Ok
<1>18. ASSUME NEW c \in Question, StopRun(c)  PROVE Ok(d)'
  <2>1. call[c] = "stopping"  BY <1>18 DEF StopRun
  <2>2. Settled(run'.state)  BY <1>3, <2>1 DEF StopInv
  <2> QED BY <1>2, <2>2 DEF Ok
<1>15. ASSUME NEW o \in Operator, SendAnswer(o)  PROVE Ok(d)'
  <2>1. seen[o] \in Question  BY <1>0, <1>15 DEF SendAnswer, TypeOK
  <2>2. verdict'[d] = NoHuman => Stopping'  BY <1>8, <1>15, <2>1, SendEffect
  <2> QED BY <1>7, <1>15, <2>2, OutsiderFrame
<1>16. CASE RunStep
  BY <1>7, <1>8, <1>16, RunStepFrame, RunStepEffect
<1>17. CASE \/ \E o \in Operator : Render(o)
            \/ \E a \in Await : AwaitBegins(a) \/ AwaitReturns(a)
            \/ \E c \in Question : Abandon(c)
            \/ UNCHANGED vars
  <2>1. UNCHANGED <<run, verdict>>
    BY <1>17 DEF Render, AwaitBegins, AwaitReturns, Abandon, vars, gateVars
  <2> QED BY <1>7, <1>8, <1>17, <2>1, SteadyUnchanged, OutsiderFrame
<1> QED BY <1>9, <1>10, <1>11, <1>12, <1>13, <1>14, <1>15, <1>16, <1>17, <1>18, StepCases

(* Together.                                                               *)
LEMMA StopInvNext ==
    RunInv /\ RouteInv /\ StopInv /\ [Next]_vars => (RunInv /\ RouteInv /\ StopInv)'
BY RunInvNext, RouteStep, StopStep DEF RunInv

(* Nothing has been asked yet, so nobody has given up.                     *)
LEMMA StopInvInit == Init => RunInv /\ RouteInv /\ StopInv
<1> SUFFICES ASSUME Init  PROVE RunInv /\ RouteInv /\ StopInv  OBVIOUS
<1>1. NoRun \in RunRecord  BY DEF NoRun, RunRecord, States
<1>2. TypeOK  BY <1>1, WordTypes DEF Init, TypeOK, CallStep
<1>3. StartedInv /\ PendingInv  BY DEF Init, StartedInv, PendingInv, NoRun
<1>4. RouteInv  BY DEF Init, RouteInv
<1>5. StopInv  BY NotEmpty DEF Init, StopInv, GiveUpStopsRun
<1> QED BY <1>2, <1>3, <1>4, <1>5 DEF RunInv

(* A child that is told the run has stopped is told the truth, whatever    *)
(* the timers, the operators and the rest of the bridge do in between.     *)
THEOREM GivingUpCorrect == Spec => []GiveUpStopsRun
<1>1. StopInv => GiveUpStopsRun  BY DEF StopInv
<1> QED BY <1>1, StopInvInit, StopInvNext, PTL DEF Spec

-----------------------------------------------------------------------------
(* One call at a time *)

(* Only Accept puts a call in flight.                                      *)
LEMMA InFlightStep ==
    ASSUME TypeOK, [Next]_vars
    PROVE  /\ dropped \subseteq dropped'
           /\ \/ InFlight' \subseteq InFlight
              \/ \E c \in Question : Accept(c) /\ InFlight' = InFlight \cup {c}
<1> USE DEF GoTo, ReplyWith, FailClosed, TypeOK, InFlight, gateVars
<1> DEFINE G == /\ dropped \subseteq dropped'
                /\ \/ InFlight' \subseteq InFlight
                   \/ \E c \in Question : Accept(c) /\ InFlight' = InFlight \cup {c}
<1>1. ASSUME NEW c \in Question, Quiet(c)  PROVE G
  <2>1. dropped' = dropped  BY <1>1, QuietEffect
  <2>2. CASE Accept(c)
    <3>1. call' = [call EXCEPT ![c] = "reading"]  BY <2>2 DEF Accept
    <3>2. InFlight' = InFlight \cup {c}  BY <3>1
    <3> QED BY <2>1, <2>2, <3>2
  <2>3. CASE Unreachable(c) \/ Reject(c) \/ RefusePeer(c) \/ DenyApproval(c)
    BY <2>1, <2>3 DEF Unreachable, Reject, RefusePeer, DenyApproval, Dials
  <2>4. CASE Route(c) \/ Elicit(c) \/ LookFirst(c) \/ Receive(c) \/ TimesOut(c)
    BY <2>1, <2>4 DEF Route, Elicit, LookFirst, Receive, TimesOut
  <2>5. CASE ElicitTimesOut(c) \/ CloseCall(c) \/ HumanAnswers(c) \/ HumanDeclines(c)
    BY <2>1, <2>5 DEF ElicitTimesOut, CloseCall, HumanAnswers, HumanDeclines
  <2> QED BY <1>1, <2>2, <2>3, <2>4, <2>5 DEF Quiet
<1>2. ASSUME NEW c \in Question, Lookup(c)  PROVE G  BY <1>2 DEF Lookup
<1>3. ASSUME NEW c \in Question, AskRun(c)  PROVE G  BY <1>3 DEF AskRun
<1>4. ASSUME NEW c \in Question, SubmitElicited(c)  PROVE G  BY <1>4 DEF SubmitElicited
<1>5. ASSUME NEW c \in Question, RefuseAfterTUI(c) \/ RefuseAfterElicit(c)  PROVE G
  BY <1>5 DEF RefuseAfterTUI, RefuseAfterElicit
<1>6. ASSUME NEW c \in Question, Rest(c) \/ StopRun(c)  PROVE G
  BY <1>6 DEF Rest, StopRun, Rested
<1>7. CASE RunStep  BY <1>7, RunStepFrame
<1>8. ASSUME NEW c \in Question, Abandon(c)  PROVE G  BY <1>8 DEF Abandon
<1>9. ASSUME NEW o \in Operator, Render(o) \/ SendAnswer(o)  PROVE G
  BY <1>9 DEF Render, SendAnswer
<1>10. ASSUME NEW a \in Await, AwaitBegins(a) \/ AwaitReturns(a)  PROVE G
  BY <1>10 DEF AwaitBegins, AwaitReturns
<1>11. CASE UNCHANGED vars  BY <1>11 DEF vars
<1> QED BY <1>1, <1>2, <1>3, <1>4, <1>5, <1>6, <1>7, <1>8, <1>9, <1>10, <1>11, StepCases

(* OneInv is inductive: the child opens a call only while it waits on less *)
(* than MaxOpen, and then nothing at all is in flight.                     *)
LEMMA OneStep ==
    ASSUME TypeOK, OneInv, [Next]_vars
    PROVE  OneInv'
<1>1. CASE InFlight' \subseteq InFlight
  <2>1. IsFiniteSet(InFlight')  BY <1>1, FS_Subset DEF OneInv
  <2> QED BY <1>1, <2>1, InFlightStep DEF OneInv, OneCall
<1>2. ASSUME NEW c \in Question, Accept(c), InFlight' = InFlight \cup {c}
      PROVE  OneInv'
  <2>1. IsFiniteSet(InFlight')  BY <1>2, FS_AddElement DEF OneInv
  <2>2. ASSUME OneCall'  PROVE InFlight' = {c}
    <3>1. MaxOpen = 1 /\ dropped = {}  BY <2>2, InFlightStep DEF OneCall
    <3>2. Cardinality(InFlight) < 1
      BY <1>2, <3>1 DEF Accept, Dials, ChildWaits
    <3>3. Cardinality(InFlight) \in Nat  BY FS_CardinalityType DEF OneInv
    <3>4. InFlight = {}  BY <3>2, <3>3, FS_EmptySet DEF OneInv
    <3> QED BY <1>2, <3>4
  <2> QED BY <2>1, <2>2 DEF OneInv
<1> QED BY <1>1, <1>2, InFlightStep

-----------------------------------------------------------------------------
(* An accepted answer is delivered *)

(* AnswerInv is inductive.  A resolver whose own question was answered     *)
(* refuses a question that is not its own: two calls are in flight.        *)
LEMMA AnswerStep ==
    ASSUME RunInv, RunInv', RouteInv, OneInv, StopInv, AnswerInv, [Next]_vars
    PROVE  AnswerInv'
<1>0. TypeOK /\ TypeOK'  BY DEF RunInv
<1>1. Stopping => Stopping'  BY <1>0, StoppingStep
<1>2. OneCall' => OneCall  BY <1>0, InFlightStep DEF OneCall
<1> DEFINE Lost(d) == via[d] = "elicit" \/ ~OneCall
           Ok(d) == /\ verdict[d] = Answer(d)
                    /\ call[d] = "done" => reply[d] = Answer(d) \/ (Lost(d) /\ Stopping)
                    /\ call[d] \in {"resting", "stopping"} => Lost(d)
<1>3. /\ AnswerInv <=> \A d \in accepted : Ok(d)
      /\ AnswerInv' <=> \A d \in accepted' : Ok(d)'
  BY DEF AnswerInv, AnswerDelivered
<1>4. SUFFICES ASSUME NEW d \in accepted'  PROVE Ok(d)'
  BY <1>3
<1>5. d \in Question  BY <1>0 DEF TypeOK
(* The question was answered just now, and its resolver is still there.    *)
<1>6. ASSUME run.pending = d, Resolves(Answer(d)),
             call'[d] \notin {"done", "resting", "stopping"}
      PROVE  Ok(d)'
  BY <1>5, <1>6 DEF Resolves, SayPending
(* It was answered before.                                                 *)
<1>7. ASSUME d \in accepted
      PROVE  /\ Ok(d) /\ verdict[d] = Answer(d) /\ verdict'[d] = Answer(d)
             /\ run.pending # d
             /\ call[d] \notin {"idle", "reading", "found"}
  <2>1. Ok(d) /\ verdict[d] = Answer(d)  BY <1>3, <1>7
  <2>2. verdict[d] # Empty  BY <1>5, <2>1, NotEmpty
  <2>3. verdict'[d] = verdict[d]  BY <1>0, <1>5, <2>2, StepEffect, EffectVerdict
  <2> QED BY <1>5, <2>1, <2>2, <2>3, NoneAssumption DEF RunInv, PendingInv
<1>8. ASSUME d \in accepted, call'[d] = call[d], via'[d] = via[d], reply'[d] = reply[d]
      PROVE  Ok(d)'
  BY <1>1, <1>2, <1>7, <1>8
<1>9. ASSUME d \in accepted, call'[d] \notin {"done", "resting", "stopping"}
      PROVE  Ok(d)'
  BY <1>7, <1>9
<1> HIDE DEF Ok
<1>10. ASSUME NEW c \in Question, Quiet(c)  PROVE Ok(d)'
  <2>1. d \in accepted  BY <1>0, <1>10, QuietEffect
  <2>2. CASE c # d  BY <1>0, <1>5, <1>8, <1>10, <2>1, <2>2, QuietEffect
  <2>3. CASE c = d
    <3>1. CASE Receive(c)
      BY <1>0, <1>7, <2>1, <2>3, <3>1 DEF Receive, ReplyWith, GoTo, TypeOK, Ok
    <3>2. CASE CloseCall(c)
      <4>1. via'[d] = "elicit" /\ Settled(run'.state) /\ call'[d] = "done"
        BY <1>0, <2>3, <3>2
        DEF CloseCall, RouteInv, StopInv, ReplyWith, GoTo, TypeOK
      <4> QED BY <1>7, <2>1, <4>1 DEF Ok, Stopping
    <3>3. CASE Unreachable(c) \/ Reject(c) \/ Accept(c) \/ RefusePeer(c) \/ DenyApproval(c)
      BY <1>7, <2>1, <2>3, <3>3
      DEF Unreachable, Reject, Accept, RefusePeer, DenyApproval, Dials
    <3>4. CASE Route(c) \/ Elicit(c) \/ LookFirst(c) \/ TimesOut(c) \/ ElicitTimesOut(c)
               \/ HumanAnswers(c) \/ HumanDeclines(c)
      BY <1>0, <1>9, <2>1, <2>3, <3>4
      DEF Route, Elicit, LookFirst, TimesOut, ElicitTimesOut, HumanAnswers,
          HumanDeclines, TypeOK, GoTo
    <3> QED BY <1>10, <3>1, <3>2, <3>3, <3>4 DEF Quiet
  <2> QED BY <2>2, <2>3
<1>11. ASSUME NEW c \in Question, Lookup(c) \/ AskRun(c)  PROVE Ok(d)'
  <2>1. d \in accepted  BY <1>11 DEF Lookup, AskRun
  <2>2. c # d  BY <1>7, <1>11, <2>1 DEF Lookup, AskRun
  <2> QED BY <1>0, <1>5, <1>8, <1>11, <2>1, <2>2
          DEF Lookup, AskRun, FailClosed, ReplyWith, GoTo, TypeOK
<1>12. ASSUME NEW c \in Question, SubmitElicited(c)  PROVE Ok(d)'
  <2>1. \A e \in Question : e # c => call'[e] = call[e]
    BY <1>0, <1>12, SubmitEffect DEF TypeOK
  <2>2. call'[c] \in {"collecting", "refusing"}
    BY <1>0, <1>12, SubmitEffect DEF TypeOK
  <2>3. UNCHANGED <<via, reply>>  BY <1>12 DEF SubmitElicited
  <2>4. CASE d \in accepted  BY <1>5, <1>8, <1>9, <2>1, <2>2, <2>3, <2>4
  <2>5. CASE d \notin accepted
    BY <1>6, <1>12, <2>2, <2>5, SubmitEffect
  <2> QED BY <2>4, <2>5
<1>13. ASSUME NEW c \in Question, RefuseAfterTUI(c)  PROVE Ok(d)'
  <2>1. d \in accepted  BY <1>13 DEF RefuseAfterTUI
  <2>2. CASE c # d
    BY <1>0, <1>5, <1>8, <1>13, <2>1, <2>2 DEF RefuseAfterTUI, GoTo, TypeOK
  <2>3. CASE c = d /\ ~MayResolve(run, None)
    BY <1>0, <1>9, <1>13, <2>1, <2>3 DEF RefuseAfterTUI, GoTo, TypeOK
  <2>4. CASE c = d /\ MayResolve(run, None)
    <3>1. run.pending \in Question \ {d}
      BY <1>0, <1>7, <2>1, <2>4 DEF MayResolve, TypeOK, RunRecord
    <3>2. run.pending \in InFlight /\ d \in InFlight
      BY <1>13, <2>4, <3>1, NoneAssumption
      DEF RunInv, PendingInv, Unresolved, InFlight, RefuseAfterTUI
    <3>3. ~OneCall'  BY <1>2, <3>1, <3>2 DEF OneInv
    <3>4. call'[d] = "resting"
      BY <1>0, <1>13, <2>4 DEF RefuseAfterTUI, GoTo, TypeOK
    <3> QED BY <1>7, <2>1, <3>3, <3>4 DEF Ok
  <2> QED BY <2>2, <2>3, <2>4
<1>14. ASSUME NEW c \in Question, RefuseAfterElicit(c)  PROVE Ok(d)'
  <2>1. d \in accepted  BY <1>14 DEF RefuseAfterElicit
  <2>2. CASE c # d
    BY <1>0, <1>5, <1>8, <1>14, <2>1, <2>2 DEF RefuseAfterElicit, GoTo, TypeOK
  <2>3. CASE c = d
    <3>1. call'[d] = "resting" /\ via'[d] = "elicit"
      BY <1>0, <1>14, <2>3 DEF RefuseAfterElicit, GoTo, TypeOK
    <3> QED BY <1>7, <2>1, <3>1 DEF Ok
  <2> QED BY <2>2, <2>3
<1>15. ASSUME NEW c \in Question, Rest(c)  PROVE Ok(d)'
  <2>1. d \in accepted  BY <1>15 DEF Rest
  <2>2. CASE c # d
    BY <1>0, <1>5, <1>8, <1>15, <2>1, <2>2 DEF Rest, Rested, ReplyWith, GoTo, TypeOK
  <2>3. CASE c = d
    <3>1. Stopping'  BY <1>15, RestEffect DEF Steady, Settles, Stopping
    <3>2. Lost(d)'  BY <1>2, <1>7, <1>15, <2>1, <2>3 DEF Rest, Ok
    <3> QED BY <1>7, <2>1, <3>1, <3>2 DEF Ok
  <2> QED BY <2>2, <2>3
<1>19. ASSUME NEW c \in Question, StopRun(c)  PROVE Ok(d)'
  <2>1. d \in accepted  BY <1>19 DEF StopRun
  <2>2. CASE c # d
    BY <1>0, <1>5, <1>8, <1>19, <2>1, <2>2 DEF StopRun, Rested, ReplyWith, GoTo, TypeOK
  <2>3. CASE c = d
    <3>1. call[c] = "stopping"  BY <1>19 DEF StopRun
    <3>2. Stopping'  BY <1>1, <3>1 DEF StopInv, Stopping
    <3>3. Lost(d)'  BY <1>2, <1>7, <1>19, <2>1, <2>3, <3>1 DEF StopRun, Ok
    <3> QED BY <1>7, <2>1, <3>2, <3>3 DEF Ok
  <2> QED BY <2>2, <2>3
<1>16. ASSUME NEW o \in Operator, SendAnswer(o)  PROVE Ok(d)'
  <2>1. UNCHANGED <<call, via, reply>>  BY <1>16, OutsiderFrame
  <2>2. CASE d \in accepted  BY <1>8, <2>1, <2>2
  <2>3. CASE d \notin accepted
    <3>1. run.pending = d /\ Resolves(Answer(d))  BY <1>16, <2>3, SendEffect
    <3>2. call[d] \in Unresolved
      BY <1>5, <3>1, NoneAssumption DEF RunInv, PendingInv
    <3> QED BY <1>6, <2>1, <3>1, <3>2 DEF Unresolved
  <2> QED BY <2>2, <2>3
<1>17. CASE RunStep  BY <1>8, <1>17, RunStepFrame
<1>18. CASE \/ \E o \in Operator : Render(o)
            \/ \E a \in Await : AwaitBegins(a) \/ AwaitReturns(a)
            \/ \E c \in Question : Abandon(c)
            \/ UNCHANGED vars
  <2>1. accepted' = accepted
    BY <1>18 DEF Render, AwaitBegins, AwaitReturns, Abandon, vars, gateVars
  <2> QED BY <1>8, <1>18, <2>1, OutsiderFrame
<1> QED BY <1>10, <1>11, <1>12, <1>13, <1>14, <1>15, <1>16, <1>17, <1>18, <1>19, StepCases

(* Nothing has been accepted and no call is under way.                     *)
LEMMA AnswerInvInit == Init => OneInv /\ AnswerInv
BY FS_EmptySet DEF Init, OneInv, InFlight, AnswerInv, AnswerDelivered

(* Together.                                                               *)
LEMMA AnswerInvNext ==
    RunInv /\ RouteInv /\ StopInv /\ OneInv /\ AnswerInv /\ [Next]_vars
        => (RunInv /\ RouteInv /\ StopInv /\ OneInv /\ AnswerInv)'
BY StopInvNext, OneStep, AnswerStep DEF RunInv

(* An accepted answer is what the child is told; where it can be lost, it  *)
(* is lost to a run that stops.                                            *)
THEOREM AnswersCorrect == Spec => []AnswerDelivered
<1>1. AnswerInv => AnswerDelivered  BY DEF AnswerInv
<1> QED BY <1>1, StopInvInit, AnswerInvInit, AnswerInvNext, PTL DEF Spec

-----------------------------------------------------------------------------
(* A rest has its audit entry *)

(* The calls that have timed out are those of before and, if it gives up,  *)
(* the one that moves; every new entry is followed by the rest.            *)
LEMMA TimedOutStep ==
    ASSUME RunInv, RouteInv, AuditInv, [Next]_vars
    PROVE  /\ TimedOut \subseteq TimedOut'
           /\ \A d \in TimedOut' \ TimedOut :
                 \/ /\ RefuseAfterTUI(d) /\ MayResolve(run, None)
                    /\ call[d] = "refusing" /\ call'[d] = "resting"
                 \/ Rest(d) /\ call[d] = "resting" /\ call'[d] \in {"stopping", "closing"}
           /\ \A d \in Question : <<"timeout", d>> \in log' =>
                 \/ <<"timeout", d>> \in log
                 \/ call[d] = "closing" \/ call'[d] = "resting"
           /\ run'.state = "needs_input" /\ run.state # "needs_input" =>
                 \E d \in Question : Rest(d)
<1> DEFINE G == /\ TimedOut \subseteq TimedOut'
                /\ \A d \in TimedOut' \ TimedOut :
                      \/ /\ RefuseAfterTUI(d) /\ MayResolve(run, None)
                         /\ call[d] = "refusing" /\ call'[d] = "resting"
                      \/ Rest(d) /\ call[d] = "resting" /\ call'[d] \in {"stopping", "closing"}
                /\ \A d \in Question : <<"timeout", d>> \in log' =>
                      \/ <<"timeout", d>> \in log
                      \/ call[d] = "closing" \/ call'[d] = "resting"
                /\ run'.state = "needs_input" /\ run.state # "needs_input" =>
                      \E d \in Question : Rest(d)
<1>0. TypeOK  BY DEF RunInv
<1> USE DEF GoTo, ReplyWith, FailClosed, Audit, TypeOK, TimedOut
<1>1. ASSUME NEW c \in Question, Quiet(c)  PROVE G
  <2>1. run' = run  BY <1>0, <1>1, QuietEffect
  <2>2. CASE Unreachable(c) \/ Reject(c) \/ Accept(c) \/ RefusePeer(c) \/ DenyApproval(c)
    BY <1>0, <2>1, <2>2 DEF Unreachable, Reject, Accept, RefusePeer, DenyApproval, Dials
  <2>3. CASE Route(c) \/ Elicit(c) \/ LookFirst(c) \/ Receive(c) \/ TimesOut(c)
    BY <1>0, <2>1, <2>3 DEF Route, Elicit, LookFirst, Receive, TimesOut
  <2>4. CASE ElicitTimesOut(c) \/ CloseCall(c) \/ HumanAnswers(c) \/ HumanDeclines(c)
    BY <1>0, <2>1, <2>4 DEF ElicitTimesOut, CloseCall, HumanAnswers, HumanDeclines
  <2> QED BY <1>1, <2>2, <2>3, <2>4 DEF Quiet
<1>2. ASSUME NEW c \in Question, Lookup(c)  PROVE G
  <2>1. Steady  BY <1>2, LookupEffect
  <2> QED BY <1>0, <1>2, <2>1 DEF Lookup, Steady
<1>3. ASSUME NEW c \in Question, AskRun(c)  PROVE G
  <2>1. run'.state = "needs_input" => run.state = "needs_input"
    BY <1>3, AskRunEffect DEF Steady, Asks
  <2> QED BY <1>0, <1>3, <2>1 DEF AskRun
<1>4. ASSUME NEW c \in Question, SubmitElicited(c)  PROVE G
  <2>1. run'.state = "needs_input" => run.state = "needs_input"
    BY <1>4, SubmitEffect DEF Steady, Resolves
  <2>2. call[c] = "elicited" /\ (log' = log \/ log' = log \cup {<<"denied", c>>})
    BY <1>4 DEF SubmitElicited
  <2>3. call' = [call EXCEPT ![c] = "collecting"] \/ call' = [call EXCEPT ![c] = "refusing"]
    BY <1>4 DEF SubmitElicited
  <2>4. \A d \in Question : /\ call'[d] \in {"stopping", "closing"}
                                  <=> call[d] \in {"stopping", "closing"}
                            /\ <<"timeout", d>> \in log' <=> <<"timeout", d>> \in log
    BY <1>0, <2>2, <2>3
  <2> QED BY <2>1, <2>4
<1>5. ASSUME NEW c \in Question, RefuseAfterTUI(c)  PROVE G
  <2>1. run'.state = "needs_input" => run.state = "needs_input"
    BY <1>5, DenyEffect DEF RefuseAfterTUI, Steady, Resolves
  <2>2. CASE MayResolve(run, None)
    <3>1. /\ call[c] = "refusing" /\ call' = [call EXCEPT ![c] = "resting"]
          /\ log' = log \cup {<<"timeout", c>>}
      BY <1>5, <2>2 DEF RefuseAfterTUI
    <3>2. TimedOut' = TimedOut \cup {c}  BY <1>0, <3>1
    <3> HIDE DEF TimedOut
    <3> QED BY <1>0, <1>5, <2>1, <2>2, <3>1, <3>2
  <2>3. CASE ~MayResolve(run, None)
    <3>1. /\ call[c] = "refusing" /\ call' = [call EXCEPT ![c] = "collecting"]
          /\ log' = log
      BY <1>5, <2>3 DEF RefuseAfterTUI
    <3> QED BY <1>0, <2>1, <3>1
  <2> QED BY <2>2, <2>3
<1>6. ASSUME NEW c \in Question, RefuseAfterElicit(c)  PROVE G
  <2>1. run'.state = "needs_input" => run.state = "needs_input"
    BY <1>6, DenyEffect DEF RefuseAfterElicit, Steady, Resolves
  <2> QED BY <1>0, <1>6, <2>1 DEF RefuseAfterElicit
<1>7. ASSUME NEW c \in Question, Rest(c)  PROVE G
  <2>1. log' = log /\ call[c] = "resting"  BY <1>7 DEF Rest
  <2>2. CASE call' = [call EXCEPT ![c] = "done"]
    BY <1>0, <1>7, <2>1, <2>2
  <2>3. ASSUME NEW step \in {"stopping", "closing"}, call' = [call EXCEPT ![c] = step]
        PROVE  G
    <3>1. TimedOut' = TimedOut \cup {c} /\ call'[c] = step  BY <1>0, <2>1, <2>3
    <3> HIDE DEF TimedOut
    <3> QED BY <1>7, <2>1, <3>1
  <2> QED BY <1>7, <2>2, <2>3 DEF Rest, Rested
(* A resolver of the TUI's channel leaves NeedsInput with its entry        *)
(* written; the other has still to write it.                               *)
<1>11. ASSUME NEW c \in Question, StopRun(c)  PROVE G
  <2>1. log' = log /\ call[c] = "stopping" /\ Steady  BY <1>11, StopEffect DEF StopRun
  <2>2. CASE via[c] = "tui"
    <3>1. <<"timeout", c>> \in log  BY <2>1, <2>2 DEF AuditInv
    <3>2. call' = [call EXCEPT ![c] = "done"]  BY <1>11, <2>2 DEF StopRun, Rested
    <3>3. TimedOut' = TimedOut  BY <1>0, <2>1, <3>1, <3>2
    <3>4. \A d \in Question : call'[d] = "resting" => call[d] = "resting"  BY <1>0, <3>2
    <3> HIDE DEF TimedOut
    <3> QED BY <2>1, <3>3, <3>4 DEF Steady
  <2>3. CASE via[c] # "tui"
    <3>1. call' = [call EXCEPT ![c] = "closing"]  BY <1>11, <2>3 DEF StopRun, Rested
    <3>2. TimedOut' = TimedOut  BY <1>0, <2>1, <3>1
    <3> HIDE DEF TimedOut
    <3> QED BY <2>1, <3>2 DEF Steady
  <2> QED BY <2>2, <2>3
<1>8. ASSUME NEW o \in Operator, SendAnswer(o)  PROVE G
  <2>1. run'.state = "needs_input" => run.state = "needs_input"
    BY <1>8, SendEffect DEF Steady, Resolves
  <2> QED BY <1>8, <2>1, OutsiderFrame
<1>9. CASE RunStep  BY <1>9, RunStepFrame, RunStepEffect
<1>10. CASE \/ \E o \in Operator : Render(o)
            \/ \E a \in Await : AwaitBegins(a) \/ AwaitReturns(a)
            \/ \E c \in Question : Abandon(c)
            \/ UNCHANGED vars
  <2>1. run' = run
    BY <1>10 DEF Render, AwaitBegins, AwaitReturns, Abandon, vars, gateVars
  <2> QED BY <1>10, <2>1, OutsiderFrame
<1> QED BY <1>1, <1>2, <1>3, <1>4, <1>5, <1>6, <1>7, <1>8, <1>9, <1>10, <1>11, StepCases

(* Where a call goes that is asking now: it was asking before, or asks a   *)
(* question of a run that has not settled.                                 *)
Asking == Unresolved \cup {"collecting", "resting"}

(* Only a call that has found its run unsettled begins to ask.             *)
LEMMA AskingStep ==
    ASSUME RunInv, [Next]_vars, NEW d \in Question, call'[d] \in Asking
    PROVE  call[d] \in Asking \/ (call[d] = "found" /\ ~Settled(run.state))
<1>0. TypeOK  BY DEF RunInv
<1> USE DEF GoTo, ReplyWith, FailClosed, TypeOK, Asking, Unresolved
<1>1. ASSUME NEW c \in Question, Quiet(c)  PROVE call[d] \in Asking
  <2>1. CASE c # d  BY <1>0, <1>1, <2>1, QuietEffect
  <2>2. CASE c = d
    <3>1. CASE Unreachable(c) \/ Reject(c) \/ Accept(c) \/ RefusePeer(c) \/ DenyApproval(c)
      BY <1>0, <2>2, <3>1 DEF Unreachable, Reject, Accept, RefusePeer, DenyApproval, Dials
    <3>2. CASE Route(c) \/ Elicit(c) \/ LookFirst(c) \/ Receive(c) \/ TimesOut(c)
      BY <1>0, <2>2, <3>2 DEF Route, Elicit, LookFirst, Receive, TimesOut
    <3>3. CASE ElicitTimesOut(c) \/ CloseCall(c) \/ HumanAnswers(c) \/ HumanDeclines(c)
      BY <1>0, <2>2, <3>3 DEF ElicitTimesOut, CloseCall, HumanAnswers, HumanDeclines
    <3> QED BY <1>1, <3>1, <3>2, <3>3 DEF Quiet
  <2> QED BY <2>1, <2>2
<1>2. ASSUME NEW c \in Question, Lookup(c)  PROVE call[d] \in Asking
  BY <1>0, <1>2 DEF Lookup
<1>3. ASSUME NEW c \in Question, AskRun(c)
      PROVE  call[d] \in Asking \/ (call[d] = "found" /\ ~Settled(run.state))
  BY <1>0, <1>3 DEF AskRun, MayAsk
<1>4. ASSUME NEW c \in Question, SubmitElicited(c)  PROVE call[d] \in Asking
  BY <1>0, <1>4 DEF SubmitElicited
<1>5. ASSUME NEW c \in Question, RefuseAfterTUI(c) \/ RefuseAfterElicit(c)
      PROVE  call[d] \in Asking
  BY <1>0, <1>5 DEF RefuseAfterTUI, RefuseAfterElicit
<1>6. ASSUME NEW c \in Question, Rest(c) \/ StopRun(c)  PROVE call[d] \in Asking
  BY <1>0, <1>6 DEF Rest, StopRun, Rested
<1>7. CASE RunStep  BY <1>7, RunStepFrame
<1>8. CASE \/ \E o \in Operator : Render(o) \/ SendAnswer(o)
           \/ \E a \in Await : AwaitBegins(a) \/ AwaitReturns(a)
           \/ \E c \in Question : Abandon(c)
           \/ UNCHANGED vars
  BY <1>8, OutsiderFrame
<1> QED BY <1>1, <1>2, <1>3, <1>4, <1>5, <1>6, <1>7, <1>8, StepCases

(* AuditInv is inductive.                                                  *)
LEMMA AuditStep ==
    ASSUME RunInv, RunInv', RouteInv, StopInv, OneInv, AuditInv, [Next]_vars
    PROVE  AuditInv'
<1>0. TypeOK /\ TypeOK'  BY DEF RunInv
<1>1. OneCall' => OneCall  BY <1>0, InFlightStep DEF OneCall
<1>2. Settled(run.state) => Settled(run'.state)  BY <1>0, StepEffect, EffectState
<1>3. ASSUME NEW c \in Question, call'[c] \in {"resting", "stopping"}
      PROVE  via'[c] = "elicit" \/ <<"timeout", c>> \in log'
  <2> USE DEF GoTo, ReplyWith, FailClosed, Audit, TypeOK
  <2>1. CASE call[c] \in {"resting", "stopping"}
    <3>1. via'[c] = via[c]
      <4>1. ASSUME NEW d \in Question, Quiet(d)  PROVE via'[c] = via[c]
        BY <1>0, <1>3, <4>1, QuietEffect
      <4>2. CASE RunStep  BY <4>2, RunStepFrame
      <4>3. CASE \/ \E o \in Operator : Render(o) \/ SendAnswer(o)
                 \/ \E a \in Await : AwaitBegins(a) \/ AwaitReturns(a)
                 \/ \E d \in Question : Abandon(d)
                 \/ UNCHANGED vars
        BY <4>3, OutsiderFrame
      <4>4. CASE \E d \in Question :
                   \/ Lookup(d) \/ AskRun(d) \/ SubmitElicited(d)
                   \/ RefuseAfterTUI(d) \/ RefuseAfterElicit(d) \/ Rest(d) \/ StopRun(d)
        BY <4>4
        DEF Lookup, AskRun, SubmitElicited, RefuseAfterTUI, RefuseAfterElicit, Rest, StopRun
      <4> QED BY <4>1, <4>2, <4>3, <4>4, StepCases
    <3>2. log \subseteq log'
      <4>1. CASE RunStep  BY <4>1, RunStepFrame
      <4>2. CASE \/ \E o \in Operator : Render(o) \/ SendAnswer(o)
                 \/ \E a \in Await : AwaitBegins(a) \/ AwaitReturns(a)
                 \/ \E d \in Question : Abandon(d)
                 \/ UNCHANGED vars
        BY <4>2, OutsiderFrame
      <4>3. CASE \E d \in Question :
                   \/ Lookup(d) \/ AskRun(d) \/ SubmitElicited(d)
                   \/ RefuseAfterTUI(d) \/ RefuseAfterElicit(d) \/ Rest(d) \/ StopRun(d)
        BY <4>3
        DEF Lookup, AskRun, SubmitElicited, RefuseAfterTUI, RefuseAfterElicit, Rest, StopRun
      <4>4. CASE \E d \in Question : Quiet(d)
        BY <4>4
        DEF Quiet, Unreachable, Reject, Accept, RefusePeer, DenyApproval, Route, Elicit,
            LookFirst, Receive, TimesOut, ElicitTimesOut, CloseCall, HumanAnswers,
            HumanDeclines
      <4> QED BY <4>1, <4>2, <4>3, <4>4, StepCases
    <3> QED BY <2>1, <3>1, <3>2 DEF AuditInv
  <2>2. CASE call[c] \notin {"resting", "stopping"}
    <3>1. ASSUME NEW d \in Question, Quiet(d)  PROVE FALSE
      BY <1>0, <1>3, <2>2, <3>1, QuietEffect
    <3>2. CASE RunStep  BY <1>3, <2>2, <3>2, RunStepFrame
    <3>3. CASE \/ \E o \in Operator : Render(o) \/ SendAnswer(o)
               \/ \E a \in Await : AwaitBegins(a) \/ AwaitReturns(a)
               \/ \E d \in Question : Abandon(d)
               \/ UNCHANGED vars
      BY <1>3, <2>2, <3>3, OutsiderFrame
    <3>4. ASSUME NEW d \in Question,
                 Lookup(d) \/ AskRun(d) \/ SubmitElicited(d) \/ Rest(d) \/ StopRun(d)
          PROVE  FALSE
      BY <1>0, <1>3, <2>2, <3>4 DEF Lookup, AskRun, SubmitElicited, Rest, StopRun, Rested
    <3>5. ASSUME NEW d \in Question, RefuseAfterTUI(d)
          PROVE  <<"timeout", c>> \in log'
      BY <1>0, <1>3, <2>2, <3>5 DEF RefuseAfterTUI
    <3>6. ASSUME NEW d \in Question, RefuseAfterElicit(d)
          PROVE  via'[c] = "elicit"
      BY <1>0, <1>3, <2>2, <3>6 DEF RefuseAfterElicit
    <3> QED BY <3>1, <3>2, <3>3, <3>4, <3>5, <3>6, StepCases
  <2> QED BY <2>1, <2>2
<1>4. ASSUME NEW c \in Question, <<"timeout", c>> \in log'
      PROVE  call'[c] = "resting" \/ Settled(run'.state)
  <2>1. CASE call[c] = "closing"  BY <1>2, <2>1 DEF StopInv
  <2>2. CASE <<"timeout", c>> \in log
    BY <1>2, <2>2, RestingStep DEF AuditInv
  <2> QED BY <1>4, <2>1, <2>2, TimedOutStep
(* Nobody asks beside a call that has timed out.                           *)
<1>5. ASSUME OneCall', NEW c \in TimedOut', NEW d \in Question,
             d \in TimedOut' \/ call'[d] \in Asking
      PROVE  d = c
  <2>0. OneCall /\ c \in Question  BY <1>1, <1>5 DEF TimedOut
  <2>1. \A e \in TimedOut, f \in Question :
           f \in TimedOut \/ call[f] \in Asking => f = e
    BY <2>0 DEF AuditInv, Asking
  <2>2. \A e \in TimedOut' \ TimedOut :
           call[e] \in Asking /\ call[e] \in {"refusing", "resting"}
    BY TimedOutStep DEF Asking, Unresolved
  <2>3. \A e \in Question : call[e] \in Asking \cup {"found"} => e \in InFlight
    BY DEF Asking, Unresolved, InFlight
  <2>4. d \in TimedOut \/ call[d] \in Asking \cup {"found"}
    BY <1>5, <2>2, AskingStep
  <2>5. CASE c \in TimedOut
    <3>1. ASSUME call[d] = "found", call'[d] \in Asking  PROVE FALSE
      <4>1. ~Settled(run.state)  BY <3>1, AskingStep DEF Asking, Unresolved
      <4>2. call[c] = "resting"
        BY <2>0, <2>5, <4>1 DEF TimedOut, AuditInv, StopInv
      <4>3. c \in InFlight /\ d \in InFlight  BY <2>0, <2>3, <3>1, <4>2 DEF Asking
      <4> QED BY <2>0, <3>1, <4>2, <4>3 DEF OneInv
    <3> QED BY <1>5, <2>1, <2>2, <2>5, <3>1, AskingStep
  <2>6. CASE c \notin TimedOut
    <3>1. call[c] \in Asking  BY <2>2, <2>6
    <3>2. CASE d \in TimedOut  BY <2>0, <2>1, <3>1, <3>2
    <3>3. CASE d \notin TimedOut
      BY <2>0, <2>3, <2>4, <3>1, <3>3 DEF OneInv
    <3> QED BY <3>2, <3>3
  <2> QED BY <2>5, <2>6
<1>6. run'.state = "needs_input" => TimedOut' # {}
  <2>1. CASE run.state = "needs_input"
    BY <2>1, TimedOutStep DEF AuditInv, RestAudited
  <2>2. ASSUME run'.state = "needs_input", run.state # "needs_input"
        PROVE  TimedOut' # {}
    <3>1. PICK c \in Question : Rest(c)  BY <2>2, TimedOutStep
    <3>2. CASE <<"timeout", c>> \in log
      BY <3>2, TimedOutStep DEF TimedOut
    <3>3. CASE via[c] = "elicit"
      <4>1. \E step \in {"stopping", "closing"} : call' = [call EXCEPT ![c] = step]
        BY <3>1, <3>3 DEF Rest, Rested, GoTo
      <4>2. call'[c] \in {"stopping", "closing"}  BY <1>0, <4>1 DEF TypeOK
      <4> QED BY <4>2 DEF TimedOut
    <3> QED BY <3>1, <3>2, <3>3 DEF AuditInv, Rest
  <2> QED BY <2>1, <2>2
<1>7. RestAudited'
  <2>1. ASSUME OneCall', run'.state = "needs_input"
        PROVE  Cardinality(TimedOut') = 1
    <3>1. PICK c \in TimedOut' : TRUE  BY <1>6, <2>1
    <3>2. \A d \in TimedOut' : d = c  BY <1>5, <2>1, <3>1 DEF TimedOut
    <3>3. TimedOut' = {c}  BY <3>1, <3>2
    <3> QED BY <3>3, FS_Singleton
  <2> QED BY <1>6, <2>1 DEF RestAudited
<1> QED BY <1>3, <1>4, <1>5, <1>7 DEF AuditInv, Asking

(* No run rests and the log is empty.                                      *)
LEMMA AuditInvInit == Init => AuditInv
<1>1. Init => TimedOut = {}  BY DEF Init, TimedOut
<1>2. Init => run.state # "needs_input"  BY DEF Init, NoRun
<1> QED BY <1>1, <1>2 DEF Init, AuditInv, RestAudited

(* The inductive invariant, for every value of the constants.              *)
THEOREM GateInvCorrect == Spec => []GateInv
<1>1. Init => GateInv
  BY StopInvInit, AnswerInvInit, AuditInvInit DEF GateInv, RunInv
<1>2. GateInv /\ [Next]_vars => GateInv'
  BY AnswerInvNext, AuditStep DEF GateInv, RunInv
<1> QED BY <1>1, <1>2, PTL DEF Spec

(* No run comes to rest without its question.timeout entry, and with one   *)
(* call at a time there is one.                                            *)
THEOREM RestsAudited == Spec => []RestAudited
<1>1. GateInv => RestAudited  BY DEF GateInv, AuditInv
<1> QED BY <1>1, GateInvCorrect, PTL

-----------------------------------------------------------------------------
(* The refinement of QuestionBox *)

(* The outcome each kind of verdict stands for.                            *)
OutcomesTold ==
    \A q \in Question :
        /\ \A p \in Question : verdict[q] = Answer(p) => QuestionOutcome[q] = "answered"
        /\ verdict[q] \in {NoHuman, Closed} => QuestionOutcome[q] = "refused"
        /\ verdict[q] = Empty =>
              QuestionOutcome[q] = IF run.pending = q THEN "open" ELSE "unasked"

(* The outcome the refinement mapping gives follows the channel.           *)
LEMMA OutcomeOf == RunInv => OutcomesTold
<1> SUFFICES ASSUME RunInv, NEW q \in Question
             PROVE  /\ \A p \in Question :
                          verdict[q] = Answer(p) => QuestionOutcome[q] = "answered"
                    /\ verdict[q] \in {NoHuman, Closed} => QuestionOutcome[q] = "refused"
                    /\ verdict[q] = Empty =>
                          QuestionOutcome[q] = IF run.pending = q THEN "open" ELSE "unasked"
  BY DEF OutcomesTold
<1>1. /\ Empty.kind = "empty" /\ NoHuman.kind = "no human" /\ Closed.kind = "closed"
      /\ \A p \in Question : Answer(p).kind = "answer"
  BY DEF Empty, NoHuman, Closed, Answer, Word
<1>2. QuestionOutcome[q] =
        CASE verdict[q].kind = "answer" -> "answered"
          [] verdict[q] \in {NoHuman, Closed} -> "refused"
          [] run.pending = q -> "open"
          [] OTHER -> "unasked"
  BY DEF QuestionOutcome
<1>0. run.pending = q => verdict[q] = Empty  BY NoneAssumption DEF RunInv, PendingInv
<1>4. ASSUME NEW p \in Question, verdict[q] = Answer(p)
      PROVE  QuestionOutcome[q] = "answered"
  <2>1. /\ verdict[q].kind = "answer" /\ verdict[q] \notin {NoHuman, Closed}
        /\ run.pending # q
    BY <1>0, <1>1, <1>4, NotEmpty
  <2> QED BY <1>2, <2>1
<1>5. ASSUME verdict[q] \in {NoHuman, Closed}
      PROVE  QuestionOutcome[q] = "refused"
  <2>1. verdict[q].kind # "answer" /\ run.pending # q  BY <1>0, <1>1, <1>5, NotEmpty
  <2> QED BY <1>2, <1>5, <2>1
<1>6. verdict[q] = Empty =>
        QuestionOutcome[q] = IF run.pending = q THEN "open" ELSE "unasked"
  <2>1. verdict[q] = Empty => verdict[q].kind # "answer"  BY <1>1
  <2>2. verdict[q] = Empty => verdict[q] \notin {NoHuman, Closed}  BY NotEmpty
  <2> QED BY <1>2, <2>1, <2>2
<1> QED BY <1>4, <1>5, <1>6

(* So it does in the next state.                                           *)
LEMMA OutcomeAfter == RunInv' => OutcomesTold'
BY OutcomeOf, PTL

(* A question that is not pending keeps its outcome.                       *)
LEMMA OutcomeKept ==
    ASSUME RunInv, RunInv', NEW q \in Question, verdict'[q] = verdict[q],
           run'.pending = q <=> run.pending = q
    PROVE  QuestionOutcome'[q] = QuestionOutcome[q]
BY DEF QuestionOutcome

(* A step of the gate asks a question, closes the one that is open, or     *)
(* leaves them all as they are.                                            *)
LEMMA BoxStep ==
    ASSUME RunInv, RunInv', [Next]_vars
    PROVE  [Box!Next]_Box!vars
<1>0. TypeOK /\ TypeOK'  BY DEF RunInv
<1>1. DOMAIN QuestionOutcome = Question /\ DOMAIN QuestionOutcome' = Question
      /\ QuestionOutcome = [q \in Question |-> QuestionOutcome[q]]
      /\ QuestionOutcome' = [q \in Question |-> QuestionOutcome'[q]]
  BY DEF QuestionOutcome
<1>2. CASE run'.pending = run.pending /\ verdict' = verdict
  <2>1. \A q \in Question : QuestionOutcome'[q] = QuestionOutcome[q]
    BY <1>2, OutcomeKept
  <2>2. QuestionOutcome' = QuestionOutcome  BY <1>1, <2>1
  <2> QED BY <1>2, <2>2 DEF Box!vars
<1>3. ASSUME NEW c \in Question, Asks(c)  PROVE Box!Open(c)
  <2>1. run.pending = None /\ run'.pending = c /\ verdict' = verdict
    BY <1>3 DEF Asks
  <2>2. verdict'[c] = Empty  BY <2>1, NoneAssumption DEF RunInv, PendingInv
  <2>3. QuestionOutcome[c] = "unasked"  BY <2>1, <2>2, OutcomeOf, NoneAssumption DEF OutcomesTold
  <2>4. \A q \in Question \ {c} : QuestionOutcome'[q] = QuestionOutcome[q]
    BY <2>1, OutcomeKept, NoneAssumption
  <2>5. QuestionOutcome'[c] = "open"
    <3>1. QuestionOutcome'[c] = IF run'.pending = c THEN "open" ELSE "unasked"
      BY <2>2, OutcomeAfter DEF OutcomesTold
    <3> QED BY <2>1, <3>1
  <2>6. QuestionOutcome' = [QuestionOutcome EXCEPT ![c] = "open"]
    BY <1>1, <2>4, <2>5
  <2> QED BY <2>1, <2>3, <2>6 DEF Box!Open
<1>4. ASSUME NEW w \in Verdicts \ {Empty}, run.pending # None, run'.pending = None,
             SayPending(w)
      PROVE  \E how \in {"answered", "refused"} : Box!Close(how)
  <2>1. PICK c \in Question : c = run.pending
    BY <1>0, <1>4 DEF TypeOK, RunRecord
  <2>2. verdict'[c] = w /\ \A q \in Question \ {c} : verdict'[q] = verdict[q]
    BY <1>4, <2>1 DEF SayPending
  <2>3. \A q \in Question \ {c} : QuestionOutcome'[q] = QuestionOutcome[q]
    BY <1>4, <2>1, <2>2, OutcomeKept, NoneAssumption
  <2>4. QuestionOutcome'[c] \in {"answered", "refused"}
    BY <1>4, <2>2, OutcomeAfter DEF Verdicts, OutcomesTold
  <2>5. QuestionOutcome' = [QuestionOutcome EXCEPT ![c] = QuestionOutcome'[c]]
    BY <1>1, <2>3
  <2> QED BY <1>4, <2>1, <2>4, <2>5 DEF Box!Close
<1>5. CASE Settles /\ run.pending = None
  <2>1. verdict' = verdict  BY <1>0, <1>5, SayNothing DEF Settles
  <2> QED BY <1>2, <1>5, <2>1 DEF Settles
<1>6. CASE Settles /\ run.pending # None
  BY <1>4, <1>6, WordTypes, NotEmpty DEF Settles, Box!Next
<1>7. CASE Steady  BY <1>2, <1>7 DEF Steady
<1>8. CASE \E c \in Question : Asks(c)  BY <1>3, <1>8 DEF Box!Next
<1>9. CASE \E w \in Verdicts \ {Empty} : Resolves(w)
  BY <1>4, <1>9 DEF Resolves, Box!Next
<1> QED BY <1>5, <1>6, <1>7, <1>8, <1>9, StepEffect DEF Effect

(* The gate implements QuestionBox: whatever the timers, the two ways to a *)
(* human, the abandoned calls and the rest of the bridge do, a question is *)
(* asked alone, closed once, and stays answered or refused.                *)
THEOREM GateIsQuestionBox == Spec => IsQuestionBox
<1>1. Init => Box!Init
  <2>1. Init => run.pending = None /\ \A q \in Question : verdict[q] = Empty
    BY DEF Init, NoRun
  <2>2. Init => \A q \in Question : QuestionOutcome[q] = "unasked"
    BY <2>1, StopInvInit, NoneAssumption, OutcomeOf DEF OutcomesTold
  <2>3. Init => QuestionOutcome = [q \in Question |-> "unasked"]
    BY <2>2 DEF QuestionOutcome
  <2> QED BY <2>1, <2>3 DEF Box!Init
<1> QED BY <1>1, BoxStep, RunInvNext, StopInvInit, PTL DEF Spec, Box!Spec, IsQuestionBox

=============================================================================
