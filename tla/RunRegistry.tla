---------------------------- MODULE RunRegistry ----------------------------
(***************************************************************************)
(* The run registry, the handlers that start and continue runs through it, *)
(* the supervisor goroutine of each run, and the gate calls made for it.   *)
(*                                                                         *)
(* Granularity: one action per critical section of Registry.mu or Run.mu,  *)
(* and one per step of a supervisor that another goroutine can see.  A     *)
(* handler holds a *Run pointer across its steps, so a run that has left   *)
(* the registry can still be acted on.                                     *)
(***************************************************************************)
EXTENDS Run, FiniteSets

CONSTANTS
    Handler,           \* concurrent ask_<agent> and continueRun calls
    MaxLive,           \* max_concurrent_runs
    MaxContinuations   \* max_continuations

ASSUME RegistryAssumption ==
    /\ MaxLive \in Nat \ {0}          \* NewRegistry replaces anything below 1
    /\ MaxContinuations \in Nat       \* load refuses a negative one

VARIABLES
    runs,     \* runs[id]: the Run of that id, NoRun before Start mints it
    known,    \* the ids in Registry.runs
    verdict,  \* verdict[q]: whether the channel Ask returned for q has its value
    super,    \* super[id]: where the supervisor of the run is
    group,    \* the runs of which some process of the group may be alive
    handler   \* handler[h]: the local state of a handler

vars == <<runs, known, verdict, super, group, handler>>

-----------------------------------------------------------------------------
(* Types *)

Outcome == {"completed", "failed", "cancelled"}

(* "none" until the go statement; "sending" is the first message being     *)
(* written; a supervisor in an outcome has killed the group and is         *)
(* draining and reaping before it calls finish.                            *)
SuperStep == {"none", "spawning", "sending", "watching", "over"} \cup Outcome

(* What a verdict says matters to the gate (GateResolver), not here. *)
VerdictState == {"unasked", "open", "sent"}

(* "took" holds the predecessor's continuation record; "swept" is inside   *)
(* Start between its sweep and its critical section; "admitted" has        *)
(* registered run succ and not yet launched it; "launched" continues pred  *)
(* and has still to supersede it.                                          *)
HandlerRecord ==
    [pc : {"idle", "took", "swept", "admitted", "launched"},
     pred : RunId \cup {None}, succ : RunId \cup {None}]

IdleHandler == [pc |-> "idle", pred |-> None, succ |-> None]

TypeOK ==
    /\ runs \in [RunId -> RunRecord]
    /\ known \in SUBSET RunId
    /\ verdict \in [Question -> VerdictState]
    /\ super \in [RunId -> SuperStep]
    /\ group \in SUBSET RunId
    /\ handler \in [Handler -> HandlerRecord]

Init ==
    /\ runs = [r \in RunId |-> NoRun]
    /\ known = {}
    /\ verdict = [q \in Question |-> "unasked"]
    /\ super = [r \in RunId |-> "none"]
    /\ group = {}
    /\ handler = [h \in Handler |-> IdleHandler]

-----------------------------------------------------------------------------
(* Helpers *)

Minted(r) == runs[r].state # "unstarted"

(* The runs occupying a slot. *)
LiveRuns == {r \in RunId : CountsAsLive(runs[r])}

Bug_CountRunningOnly(pred) ==
    Cardinality({r \in known \ {pred} : runs[r].state = "running"})

(* liveCountExcludingLocked: over the registry, without the predecessor. *)
LiveCountExcluding(pred) ==
    Cardinality({r \in known \ {pred} : CountsAsLive(runs[r])})

(* The verdict map once the questions pending in the runs of S have had a  *)
(* verdict sent.                                                           *)
Sent(S) ==
    [q \in Question |->
        IF \E r \in S : runs[r].pending = q THEN "sent" ELSE verdict[q]]

Bug_SettleSilently(r) == UNCHANGED verdict

(* A call that settles run r sends to its waiter; one that finds it settled *)
(* already does nothing.                                                   *)
Settles(r) == verdict' = IF Settled(runs[r].state) THEN verdict ELSE Sent({r})

(* sweepExpired: expireIfDue on every registered run.  The runs share no   *)
(* state here, so the loop is one step.                                    *)
Sweep ==
    LET due == {r \in known : IsDue(runs[r])} IN
    /\ runs' = [r \in RunId |-> IF r \in due THEN Expire(runs[r]) ELSE runs[r]]
    /\ verdict' = Sent(due)

-----------------------------------------------------------------------------
(* Registry calls *)

(* Get and List: sweep, then pruneLocked.  A run the sweep has just expired *)
(* finished now, so it is not pruned in the same call.                     *)
Lookup ==
    /\ Sweep
    /\ known' = {r \in known : ~(IsTerminal(runs[r].state) /\ runs[r].aged)}
    /\ UNCHANGED <<super, group, handler>>

(* Snapshot (also at the end of Await) expires its own run. *)
Snapshot(r) ==
    /\ IsDue(runs[r])
    /\ runs' = [runs EXCEPT ![r] = Expire(@)]
    /\ verdict' = Sent({r})
    /\ UNCHANGED <<known, super, group, handler>>

(* An ask_<agent> call enters Start: the sweep comes before the lock. *)
BeginAsk(h) ==
    /\ handler[h].pc = "idle"
    /\ handler' = [handler EXCEPT ![h].pc = "swept"]
    /\ Sweep
    /\ UNCHANGED <<known, super, group>>

(* continueRun: TakeContinuation on the run the operator answered. *)
Take(h, p) ==
    /\ handler[h].pc = "idle"
    /\ MayTakeContinuation(runs[p])
    /\ runs' = [runs EXCEPT ![p] = TakeContinuation(@)]
    /\ handler' = [handler EXCEPT ![h] = [@ EXCEPT !.pc = "took", !.pred = p]]
    /\ UNCHANGED <<known, verdict, super, group>>

(* Any check between TakeContinuation and Start may refuse (depth, an      *)
(* unconfined write, no workspace, policy, buildSpec): each puts the       *)
(* record back.                                                            *)
RefuseContinuation(h) ==
    /\ handler[h].pc = "took"
    /\ runs' = [runs EXCEPT ![handler[h].pred] = SetContinuation(@)]
    /\ handler' = [handler EXCEPT ![h] = IdleHandler]
    /\ UNCHANGED <<known, verdict, super, group>>

(* CheckDepth and the other checks passed: continueRun enters Start. *)
BeginContinue(h) ==
    /\ handler[h].pc = "took"
    /\ runs[handler[h].pred].links + 1 <= MaxContinuations
    /\ handler' = [handler EXCEPT ![h].pc = "swept"]
    /\ Sweep
    /\ UNCHANGED <<known, super, group>>

(* Start's critical section: count, register, retire the predecessor. *)
Admit(h, r) ==
    LET p == handler[h].pred
        depth == IF p = None THEN 0 ELSE runs[p].links + 1
    IN
    /\ handler[h].pc = "swept"
    /\ ~Minted(r)
    /\ LiveCountExcluding(p) < MaxLive
    /\ runs' = [s \in RunId |->
                  CASE s = r -> NewRun(p, depth)
                    [] s = p /\ p \in known -> Retire(runs[s])
                    [] OTHER -> runs[s]]
    /\ known' = known \cup {r}
    /\ handler' = [handler EXCEPT ![h] = [@ EXCEPT !.pc = "admitted", !.succ = r]]
    /\ UNCHANGED <<verdict, super, group>>

(* ErrConcurrencyLimit: a continuation restores its predecessor's record.  *)
RefuseStart(h) ==
    LET p == handler[h].pred IN
    /\ handler[h].pc = "swept"
    /\ LiveCountExcluding(p) >= MaxLive
    /\ runs' = IF p = None THEN runs
               ELSE [runs EXCEPT ![p] = SetContinuation(@)]
    /\ handler' = [handler EXCEPT ![h] = IdleHandler]
    /\ UNCHANGED <<known, verdict, super, group>>

Bug_LaunchWithoutCancel(h) ==
    /\ handler[h].pc = "admitted"
    /\ super' = [super EXCEPT ![handler[h].succ] = "spawning"]
    /\ handler' = [handler EXCEPT ![h] = IF @.pred = None THEN IdleHandler
                                         ELSE [@ EXCEPT !.pc = "launched"]]
    /\ UNCHANGED <<runs, known, verdict, group>>

(* The rest of Start: r.cancel is set, then the supervisor is launched. *)
Launch(h) ==
    LET r == handler[h].succ IN
    /\ handler[h].pc = "admitted"
    /\ runs' = [runs EXCEPT ![r].cancel = TRUE]
    /\ super' = [super EXCEPT ![r] = "spawning"]
    /\ handler' = [handler EXCEPT ![h] = IF @.pred = None THEN IdleHandler
                                         ELSE [@ EXCEPT !.pc = "launched"]]
    /\ UNCHANGED <<known, verdict, group>>

(* continueRun labels the predecessor, if it still rests in needs_input. *)
SupersedePredecessor(h) ==
    /\ handler[h].pc = "launched"
    /\ runs' = [runs EXCEPT ![handler[h].pred] = Supersede(@, handler[h].succ)]
    /\ handler' = [handler EXCEPT ![h] = IdleHandler]
    /\ UNCHANGED <<known, verdict, super, group>>

(* cancel_agent, the operator's stop, CancelAll, a full transcript. *)
CancelRun(r) ==
    /\ Minted(r)
    /\ runs' = [runs EXCEPT ![r] = Cancel(@)]
    /\ UNCHANGED <<known, verdict, super, group, handler>>

-----------------------------------------------------------------------------
(* The supervisor *)

(* A failure before cmd.Start has returned: there is no child. *)
SpawnFails(r) ==
    /\ super[r] = "spawning"
    /\ super' = [super EXCEPT ![r] = "over"]
    /\ runs' = [runs EXCEPT ![r] = Finish(@, "failed")]
    /\ Settles(r)
    /\ UNCHANGED <<known, group, handler>>

Spawn(r) ==
    /\ super[r] = "spawning"
    /\ super' = [super EXCEPT ![r] = "sending"]
    /\ group' = group \cup {r}
    /\ UNCHANGED <<runs, known, verdict, handler>>

(* The first message has been written to the child's stdin (or there was   *)
(* none): readers, timer and select follow.  The write returns when the    *)
(* child reads, and nothing bounds it.                                     *)
SendFirstMessage(r) ==
    /\ super[r] = "sending"
    /\ super' = [super EXCEPT ![r] = "watching"]
    /\ UNCHANGED <<runs, known, verdict, group, handler>>

(* Every way to leave kills the group before finish: a failed AfterStart   *)
(* or first message, the child's exit (completed, or failed by its         *)
(* status), the timeout (failed), and the cancelled context.               *)
Kill(r, outcome) ==
    /\ super' = [super EXCEPT ![r] = outcome]
    /\ group' = group \ {r}
    /\ UNCHANGED <<runs, known, verdict, handler>>

SendFails(r) == super[r] = "sending" /\ Kill(r, "failed")

ChildExits(r) ==
    /\ super[r] = "watching"
    /\ \E outcome \in {"completed", "failed"} : Kill(r, outcome)

Bug_FinishBeforeKill(r) ==
    /\ super[r] = "watching"
    /\ super' = [super EXCEPT ![r] = "over"]
    /\ runs' = [runs EXCEPT ![r] = Finish(@, "failed")]
    /\ Settles(r)
    /\ UNCHANGED <<known, group, handler>>

TimesOut(r) == super[r] = "watching" /\ Kill(r, "failed")

SeesCancel(r) ==
    /\ super[r] = "watching"
    /\ runs[r].stopped
    /\ Kill(r, "cancelled")

(* The drain and the reap are over. *)
Reaped(r) ==
    /\ super[r] \in Outcome
    /\ super' = [super EXCEPT ![r] = "over"]
    /\ runs' = [runs EXCEPT ![r] = Finish(@, super[r])]
    /\ Settles(r)
    /\ UNCHANGED <<known, group, handler>>

-----------------------------------------------------------------------------
(* The gate and the operator.  A resolver holds the *Run it looked up, so  *)
(* its calls may come after the child is gone.                             *)

GateAsk(r, q) ==
    /\ super[r] \notin {"none", "spawning"}
    /\ verdict[q] = "unasked"
    /\ MayAsk(runs[r])
    /\ runs' = [runs EXCEPT ![r] = Ask(@, q)]
    /\ verdict' = [verdict EXCEPT ![q] = "open"]
    /\ UNCHANGED <<known, super, group, handler>>

(* AnswerQuestion, for a named question or blind, and DenyQuestion (blind). *)
GateResolve(r) ==
    /\ \E wanted \in Question \cup {None} : MayResolve(runs[r], wanted)
    /\ runs' = [runs EXCEPT ![r] = Resolve(@)]
    /\ verdict' = Sent({r})
    /\ UNCHANGED <<known, super, group, handler>>

(* A resolver gives up: only one that has asked gets this far.  It calls   *)
(* r.cancel in a later step.                                               *)
GateNeedsInput(r) ==
    /\ runs[r].asked
    /\ runs' = [runs EXCEPT ![r] = NeedsInput(@)]
    /\ Settles(r)
    /\ UNCHANGED <<known, super, group, handler>>

GateCancel(r) ==
    /\ runs[r].owes
    /\ runs' = [runs EXCEPT ![r] = CancelRested(@)]
    /\ UNCHANGED <<known, verdict, super, group, handler>>

-----------------------------------------------------------------------------
(* Time *)

DeadlinePasses(r) ==
    /\ runs[r].state = "needs_input" /\ runs[r].deadline = "ahead"
    /\ runs' = [runs EXCEPT ![r].deadline = "passed"]
    /\ UNCHANGED <<known, verdict, super, group, handler>>

RetentionPasses(r) ==
    /\ IsTerminal(runs[r].state) /\ ~runs[r].aged
    /\ runs' = [runs EXCEPT ![r].aged = TRUE]
    /\ UNCHANGED <<known, verdict, super, group, handler>>

-----------------------------------------------------------------------------

HandlerStep(h) ==
    \/ BeginAsk(h)
    \/ \E p \in RunId : Take(h, p)
    \/ RefuseContinuation(h)
    \/ BeginContinue(h)
    \/ \E r \in RunId : Admit(h, r)
    \/ RefuseStart(h)
    \/ Launch(h)
    \/ SupersedePredecessor(h)

SupervisorStep(r) ==
    \/ SpawnFails(r)
    \/ Spawn(r)
    \/ SendFirstMessage(r)
    \/ SendFails(r)
    \/ ChildExits(r)
    \/ TimesOut(r)
    \/ SeesCancel(r)
    \/ Reaped(r)

GateStep(r) ==
    \/ \E q \in Question : GateAsk(r, q)
    \/ GateResolve(r)
    \/ GateNeedsInput(r)
    \/ GateCancel(r)

RunStep(r) ==
    \/ Snapshot(r)
    \/ CancelRun(r)
    \/ SupervisorStep(r)
    \/ GateStep(r)
    \/ DeadlinePasses(r)
    \/ RetentionPasses(r)

Next ==
    \/ Lookup
    \/ \E h \in Handler : HandlerStep(h)
    \/ \E r \in RunId : RunStep(r)

Spec == Init /\ [][Next]_vars

-----------------------------------------------------------------------------
(* Safety *)

(* Never more than max_concurrent_runs runs occupy a slot, although a      *)
(* successor is admitted before its predecessor leaves needs_input, and    *)
(* several continuations run at once (Start, countsAsLive, retire).        *)
SlotBound == Cardinality(LiveRuns) <= MaxLive

(* A run is continued at most once, whatever continuation attempts race    *)
(* and fail (TakeContinuation consumes the record, continueRun restores it *)
(* on every refusal).                                                      *)
OneSuccessor ==
    \A r, s \in RunId :
        (runs[r].resumedFrom # None /\ runs[r].resumedFrom = runs[s].resumedFrom)
            => r = s

(* A refused continuation never costs the operator's answer: a run resting *)
(* in needs_input still has its record, or a handler that will put it back *)
(* holds it, or its successor has been admitted.                           *)
RecordNotLost ==
    \A p \in RunId :
        runs[p].state = "needs_input" =>
            \/ runs[p].rec
            \/ runs[p].retiring
            \/ \E h \in Handler : handler[h].pc \in {"took", "swept"}
                                  /\ handler[h].pred = p

(* No chain of continuations is longer than max_continuations (CheckDepth), *)
(* and each link counts the one before it.                                 *)
ChainBound ==
    \A r \in RunId :
        LET p == runs[r].resumedFrom IN
        p # None => /\ runs[r].links = runs[p].links + 1
                    /\ runs[r].links <= MaxContinuations

(* A goroutine blocked on the channel Ask returned can still be answered:  *)
(* its question is the pending one of a run that has not settled.  No way  *)
(* of settling (finish, NeedsInput, expiry) strands a waiter.              *)
NoStrandedWaiter ==
    \A q \in Question :
        verdict[q] = "open" =>
            \E r \in RunId : runs[r].pending = q /\ runs[r].state = "running"

(* No child is left behind by a run that has settled over its head: while  *)
(* some process of the group may live, the run's context is cancelled or   *)
(* the goroutine that put the run to rest has still to do so, also when    *)
(* the rest has become an expiry or a supersession in the meantime, and    *)
(* although Start sets r.cancel only after the run can be looked up        *)
(* (exec.go:126-143, question.go:223-236).                                 *)
SettledIsStopped ==
    \A r \in group : Settled(runs[r].state) => runs[r].stopped \/ runs[r].owes

(* Invariant 1 of docs/11 as far as it holds: a terminal run with a live   *)
(* process group is one that rested in needs_input first.                  *)
OnlyRestLeavesAChild ==
    \A r \in RunId :
        (IsTerminal(runs[r].state) /\ r \in group) =>
            runs[r].resumedBy # None \/ runs[r].deadline = "passed"

(* The first settled state wins: a terminal state is for ever, and         *)
(* needs_input becomes failed or superseded and nothing else.  In          *)
(* particular a killed child's exit does not make a resting run cancelled. *)
Transitions ==
    {<<"unstarted", "running">>, <<"running", "needs_input">>,
     <<"needs_input", "failed">>, <<"needs_input", "superseded">>}
        \cup {<<"running", s>> : s \in Outcome}

FirstSettledStateWins ==
    [][\A r \in RunId :
          runs'[r].state # runs[r].state =>
              <<runs[r].state, runs'[r].state>> \in Transitions]_vars

(* The registry is a pool of MaxLive slots: a run is given one slot once,  *)
(* from the free ones or from the run it continues, and never takes one    *)
(* back.                                                                   *)
Pool == INSTANCE SlotPool WITH
            Holder <- RunId, Size <- MaxLive, holders <- LiveRuns,
            past <- {r \in RunId : Minted(r) /\ ~CountsAsLive(runs[r])}

IsSlotPool == Pool!Spec

-----------------------------------------------------------------------------
(* The inductive invariant behind these, part by part *)

(* Handler h holds the continuation record it took from run p. *)
Holds(h, p) == handler[h].pc \in {"took", "swept"} /\ handler[h].pred = p

(* Handlers and supervisors exist only for runs that Start has minted. *)
MintedInv ==
    /\ \A r \in RunId : ~Minted(r) => runs[r] = NoRun /\ super[r] = "none"
    /\ \A h \in Handler :
          /\ handler[h].pc = "idle" => handler[h].pred = None
          /\ handler[h].pc \in {"took", "launched"} => handler[h].pred # None
          /\ handler[h].pc \in {"admitted", "launched"} =>
                handler[h].succ # None /\ Minted(handler[h].succ)
          /\ handler[h].pred # None => Minted(handler[h].pred)

(* A run that occupies a slot is registered, so Start's count sees it. *)
SlotInv ==
    /\ IsFiniteSet(known)
    /\ \A r \in RunId : CountsAsLive(runs[r]) => r \in known
    /\ SlotBound

(* A record is in one place: attached, held by one handler, or spent on    *)
(* the one successor.                                                      *)
ChainInv ==
    /\ \A g, h \in Handler, p \in RunId : Holds(g, p) /\ Holds(h, p) => g = h
    /\ \A h \in Handler, p \in RunId :
          Holds(h, p) => ~runs[p].rec /\ \A s \in RunId : runs[s].resumedFrom # p
    /\ \A p, s \in RunId :
          runs[s].resumedFrom = p => ~runs[p].rec /\ Minted(p)
    /\ \A r \in RunId : runs[r].state = "running" => runs[r].rec
    /\ OneSuccessor
    /\ RecordNotLost

(* Only a running run has a pending question, and its channel is open. *)
WaiterInv ==
    /\ \A r \in RunId :
          runs[r].pending # None =>
              runs[r].state = "running" /\ verdict[runs[r].pending] = "open"
    /\ \A r, s \in RunId :
          (runs[r].pending # None /\ runs[r].pending = runs[s].pending) => r = s
    /\ NoStrandedWaiter

(* r.cancel is set before the supervisor, hence the child, exists; and a   *)
(* run settles by the end of its supervisor or by a rest that cancels it.  *)
StopInv ==
    \A r \in RunId :
        /\ super[r] # "none" \/ runs[r].asked => runs[r].cancel
        /\ Settled(runs[r].state) =>
              runs[r].stopped \/ runs[r].owes \/ super[r] = "over"

(* A handler that carries a predecessor past CheckDepth may still add one  *)
(* link to its chain: nobody else can extend it meanwhile.                 *)
DepthInv ==
    /\ ChainBound
    /\ \A h \in Handler :
          (handler[h].pc = "swept" /\ handler[h].pred # None) =>
              runs[handler[h].pred].links + 1 <= MaxContinuations

(* A supervisor is launched once, by the one handler that admitted its run *)
(* and until then has it to itself.                                        *)
LaunchInv ==
    /\ \A h \in Handler :
          handler[h].pc = "admitted" => super[handler[h].succ] = "none"
    /\ \A g, h \in Handler :
          (/\ handler[g].pc = "admitted" /\ handler[h].pc = "admitted"
           /\ handler[g].succ = handler[h].succ) => g = h

(* A group outlives neither its supervisor's kill nor finish; what makes a *)
(* run terminal under a supervisor that has not finished is supersession   *)
(* or expiry.                                                              *)
ChildInv ==
    /\ \A r \in group : super[r] \in {"sending", "watching"}
    /\ \A r \in RunId :
          IsTerminal(runs[r].state) =>
              \/ super[r] = "over"
              \/ runs[r].resumedBy # None
              \/ runs[r].deadline = "passed"

RegistryInv ==
    /\ TypeOK /\ MintedInv /\ SlotInv /\ ChainInv /\ DepthInv
    /\ WaiterInv /\ StopInv /\ LaunchInv /\ ChildInv

=============================================================================
