------------------------------ MODULE Steering ------------------------------
(***************************************************************************)
(* Guidance for one live run: steer calls of the host agent and of         *)
(* operators, the channel into the child's stdin that they share with the  *)
(* opening prompt, and the question that blocks an agent's guidance.       *)
(* steer_agent is registered: the config allows agent steering.            *)
(*                                                                         *)
(* Two mutexes: what Steer does under r.mu is one step, while the one of   *)
(* the channel is held across a write that may block, so it is a variable. *)
(* A write blocks while the pipe is full and fails once nobody is left to  *)
(* read.  Only the child reads: descendants are in Supervise, whose        *)
(* supervisor is cut down here to what the channel sees of it.             *)
(***************************************************************************)
EXTENDS Run, Sequences, FiniteSets

CONSTANTS
    AgentCall,       \* steer_agent calls
    OperatorCall,    \* steer calls of operators
    MaxAgentSteers,  \* max_agent_steers
    PipeSize         \* messages that fit into the child's stdin

ASSUME SteeringAssumption ==
    /\ MaxAgentSteers \in Nat
    /\ PipeSize \in Nat \ {0}

VARIABLES
    run,          \* the Run
    agentSteers,  \* Run.agentSteers
    channel,      \* the steering channel, once r.steerCh is set
    lock,         \* who is in send or close of it
    inbox,        \* the child's stdin
    child,        \* the child
    sup,          \* the supervisor's next step
    reader,       \* streamEvents
    call,         \* where each steer call is
    delivered     \* the calls whose message has been written

pipeVars == <<channel, lock, inbox, child>>
goroutines == <<sup, reader>>
vars == <<run, agentSteers, pipeVars, goroutines, call, delivered>>

Call == AgentCall \cup OperatorCall

-----------------------------------------------------------------------------
(* Types *)

(* "admitted" has passed the checks of Steer and has no lock yet; "sent"   *)
(* has still to count itself and to tell its caller.                       *)
CallStep == {"idle", "admitted", "writing", "sent", "queued", "refused"}

(* The three users of the channel besides the calls. *)
Owner == {"task", "reader", "supervisor"}

TypeOK ==
    /\ run \in RunRecord
    /\ agentSteers \in 0..MaxAgentSteers
    /\ channel \in {"none", "open", "closed"}
    /\ lock \in Call \cup Owner \cup {None}
    /\ inbox \in Seq(Call \cup {"task"}) /\ Len(inbox) <= PipeSize
    /\ child \in {"unborn", "alive", "dead", "reaped"}
    /\ sup \in {"attach", "spawn", "task", "watch", "drain", "reap", "close", "done"}
    /\ reader \in {"unborn", "reading", "closing", "ended"}
    /\ call \in [Call -> CallStep]
    /\ delivered \in SUBSET Call

Init ==
    /\ run = [NewRun(None, 0) EXCEPT !.cancel = TRUE]
    /\ agentSteers = 0
    /\ channel = "none" /\ lock = None /\ inbox = <<>>
    /\ child = "unborn" /\ sup = "attach" /\ reader = "unborn"
    /\ call = [c \in Call |-> "idle"]
    /\ delivered = {}

-----------------------------------------------------------------------------
(* The channel *)

Acquire(owner) == lock = None /\ lock' = owner
Release(owner) == lock = owner /\ lock' = None

(* Somebody has, or will have, the read end. *)
Readable == child \in {"unborn", "alive"}

Write(message) ==
    /\ Readable /\ Len(inbox) < PipeSize
    /\ inbox' = Append(inbox, message)

(* steerChannel.close, which waits for the lock. *)
Close ==
    /\ lock = None
    /\ channel' = IF channel = "open" THEN "closed" ELSE channel
    /\ UNCHANGED <<lock, inbox>>

-----------------------------------------------------------------------------
(* Steer *)

Bug_OneTooMany(c) ==
    /\ ~IsTerminal(run.state)
    /\ channel # "none"
    /\ IF c \in AgentCall
       THEN /\ run.pending = None
            /\ agentSteers <= MaxAgentSteers
            /\ agentSteers' = agentSteers + 1
       ELSE UNCHANGED agentSteers

(* A live run with a channel; an agent moreover needs that no question is  *)
(* pending and that its budget is not used up.                             *)
Passes(c) ==
    /\ ~IsTerminal(run.state)
    /\ channel # "none"
    /\ IF c \in AgentCall
       THEN /\ run.pending = None
            /\ agentSteers < MaxAgentSteers
            /\ agentSteers' = agentSteers + 1
       ELSE UNCHANGED agentSteers

Admit(c) ==
    /\ call[c] = "idle"
    /\ Passes(c)
    /\ call' = [call EXCEPT ![c] = "admitted"]
    /\ UNCHANGED <<run, pipeVars, goroutines, delivered>>

Refuse(c) ==
    /\ call[c] = "idle"
    /\ \/ IsTerminal(run.state) \/ channel = "none"
       \/ c \in AgentCall /\ (run.pending # None \/ agentSteers >= MaxAgentSteers)
    /\ call' = [call EXCEPT ![c] = "refused"]
    /\ UNCHANGED <<run, agentSteers, pipeVars, goroutines, delivered>>

Bug_SendToClosed(c) ==
    /\ call[c] = "admitted"
    /\ IF channel = "closed" THEN lock = None /\ call' = [call EXCEPT ![c] = "sent"] /\ UNCHANGED lock
       ELSE Acquire(c) /\ call' = [call EXCEPT ![c] = "writing"]
    /\ UNCHANGED <<run, agentSteers, channel, inbox, child, goroutines, delivered>>

(* send *)
Send(c) ==
    /\ call[c] = "admitted"
    /\ IF channel = "closed" THEN lock = None /\ call' = [call EXCEPT ![c] = "refused"] /\ UNCHANGED lock
       ELSE Acquire(c) /\ call' = [call EXCEPT ![c] = "writing"]
    /\ UNCHANGED <<run, agentSteers, channel, inbox, child, goroutines, delivered>>

Written(c) ==
    /\ call[c] = "writing"
    /\ Write(c) /\ Release(c)
    /\ delivered' = delivered \cup {c}
    /\ call' = [call EXCEPT ![c] = "sent"]
    /\ UNCHANGED <<run, agentSteers, channel, child, goroutines>>

(* A broken pipe; the budget stays spent. *)
WriteFails(c) ==
    /\ call[c] = "writing" /\ ~Readable
    /\ Release(c)
    /\ call' = [call EXCEPT ![c] = "refused"]
    /\ UNCHANGED <<run, agentSteers, channel, inbox, child, goroutines, delivered>>

(* steerCount, the audit entry and the reply. *)
Told(c) ==
    /\ call[c] = "sent"
    /\ call' = [call EXCEPT ![c] = "queued"]
    /\ UNCHANGED <<run, agentSteers, pipeVars, goroutines, delivered>>

-----------------------------------------------------------------------------
(* Supervisor, reader and child *)

Settle(outcome) == run' = Finish(run, outcome)

(* The channel is there before the child is, and before its task is in it. *)
Attach ==
    /\ sup = "attach"
    /\ channel' = "open" /\ sup' = "spawn"
    /\ UNCHANGED <<run, agentSteers, lock, inbox, child, reader, call, delivered>>

Spawn ==
    /\ sup = "spawn"
    /\ \/ child' = "alive" /\ sup' = "task" /\ UNCHANGED run
       \/ child' = "reaped" /\ sup' = "close" /\ Settle("failed")
    /\ UNCHANGED <<agentSteers, channel, lock, inbox, reader, call, delivered>>

SendTask ==
    /\ sup = "task"
    /\ Acquire("task")
    /\ UNCHANGED <<run, agentSteers, channel, inbox, child, goroutines, call, delivered>>

TaskWritten ==
    /\ sup = "task"
    /\ Write("task") /\ Release("task")
    /\ sup' = "watch" /\ reader' = "reading"
    /\ UNCHANGED <<run, agentSteers, channel, child, call, delivered>>

TaskFails ==
    /\ sup = "task" /\ ~Readable
    /\ Release("task")
    /\ child' = "reaped" /\ sup' = "close" /\ Settle("failed")
    /\ UNCHANGED <<agentSteers, channel, inbox, reader, call, delivered>>

ChildReads ==
    /\ child = "alive" /\ inbox # <<>>
    /\ inbox' = Tail(inbox)
    /\ UNCHANGED <<run, agentSteers, channel, lock, child, goroutines, call, delivered>>

ChildExits ==
    /\ child = "alive"
    /\ child' = "dead"
    /\ UNCHANGED <<run, agentSteers, channel, lock, inbox, goroutines, call, delivered>>

(* Ask, the answer or the end of the wait. *)
ChildAsks(q) ==
    /\ child = "alive" /\ MayAsk(run)
    /\ run' = Ask(run, q)
    /\ UNCHANGED <<agentSteers, pipeVars, goroutines, call, delivered>>

Answered ==
    /\ MayResolve(run, None)
    /\ run' = Resolve(run)
    /\ UNCHANGED <<agentSteers, pipeVars, goroutines, call, delivered>>

(* With the cancel at its end: nothing here reads whether the run has been *)
(* told to stop, as its supervisor may stop watching at any time.          *)
GivesUp ==
    /\ run.pending # None
    /\ run' = CancelRested(NeedsInput(run))
    /\ UNCHANGED <<agentSteers, pipeVars, goroutines, call, delivered>>

(* streamEvents has read the record that ends the turn. *)
TurnEnds ==
    /\ child = "alive" /\ reader = "reading"
    /\ reader' = "closing"
    /\ UNCHANGED <<run, agentSteers, pipeVars, sup, call, delivered>>

CloseSteer ==
    /\ reader = "closing"
    /\ Close
    /\ reader' = "reading"
    /\ UNCHANGED <<run, agentSteers, child, sup, call, delivered>>

ReaderEnds ==
    /\ reader = "reading" /\ child # "alive"
    /\ reader' = "ended"
    /\ UNCHANGED <<run, agentSteers, pipeVars, sup, call, delivered>>

Bug_CloseBeforeKill ==
    /\ sup = "watch"
    /\ Close
    /\ child' = "dead" /\ sup' = "drain"
    /\ UNCHANGED <<run, agentSteers, reader, call, delivered>>

(* Exit, timeout or cancellation: the group is killed.                     *)
StopWatching ==
    /\ sup = "watch"
    /\ child' = "dead" /\ sup' = "drain"
    /\ UNCHANGED <<run, agentSteers, channel, lock, inbox, reader, call, delivered>>

(* The drain has a budget: it does not wait for a reader held up in close. *)
DrainOver ==
    /\ sup = "drain"
    /\ sup' = "reap"
    /\ UNCHANGED <<run, agentSteers, pipeVars, reader, call, delivered>>

Reap ==
    /\ sup = "reap"
    /\ child' = "reaped" /\ sup' = "close"
    /\ \E outcome \in {"completed", "failed", "cancelled"} : Settle(outcome)
    /\ UNCHANGED <<agentSteers, channel, lock, inbox, reader, call, delivered>>

(* The deferred close. *)
CloseAtEnd ==
    /\ sup = "close"
    /\ Close
    /\ sup' = "done"
    /\ UNCHANGED <<run, agentSteers, child, reader, call, delivered>>

-----------------------------------------------------------------------------

SteerStep(c) == Send(c) \/ Written(c) \/ WriteFails(c) \/ Told(c)
Supervisor ==
    \/ Attach \/ Spawn \/ SendTask \/ TaskWritten \/ TaskFails
    \/ StopWatching \/ DrainOver \/ Reap \/ CloseAtEnd
Reader == CloseSteer \/ ReaderEnds
Child ==
    \/ ChildReads \/ ChildExits \/ TurnEnds \/ Answered \/ GivesUp
    \/ \E q \in Question : ChildAsks(q)

Next ==
    \/ \E c \in Call : Admit(c) \/ Refuse(c) \/ SteerStep(c)
    \/ Supervisor \/ Reader \/ Child

Spec == Init /\ [][Next]_vars

(* Callers, the supervisor with its timer, and the reader.  Calls are      *)
(* finitely many, so nobody is kept from the lock by others for ever.      *)
FairSpec ==
    /\ Spec
    /\ \A c \in Call : WF_vars(SteerStep(c))
    /\ WF_vars(StopWatching \/ DrainOver \/ Reap \/ CloseAtEnd)
    /\ WF_vars(Reader)

-----------------------------------------------------------------------------
(* Properties *)

(* max_agent_steers: calls of the host agent that run at once never get    *)
(* more messages into one run than its budget (Steer counts before it      *)
(* releases r.mu).                                                         *)
AgentBudget == Cardinality(delivered \cap AgentCall) <= MaxAgentSteers

(* ErrSteerUnsupported's comment: a refusal, never a silent no-op.  Who is *)
(* told that the guidance is queued has it in the child's input, and who   *)
(* is refused does not.                                                    *)
NoSilentSteer ==
    \A c \in Call :
        /\ call[c] \in {"sent", "queued"} => c \in delivered
        /\ call[c] = "refused" => c \notin delivered

(* The inductive invariant behind these: an agent's call that has passed   *)
(* the checks of Steer and was not refused since is counted, and a message *)
(* is in the child's input exactly if its call knows.                      *)
Counted ==
    {c \in AgentCall : call[c] \in {"admitted", "writing", "sent", "queued"}}

SteerInv ==
    /\ IsFiniteSet(Counted) /\ Cardinality(Counted) <= agentSteers
    /\ \A c \in Call : c \in delivered <=> call[c] \in {"sent", "queued"}

(* A steer that blocks with the lock holds up the reader, which closes the *)
(* channel at the end of the turn, but not the supervisor.                 *)
BlockedSteerEndsRun == (sup = "watch") ~> (sup = "done" /\ reader = "ended")

=============================================================================
