------------------------------- MODULE Bridge -------------------------------
(***************************************************************************)
(* Bridge servers that share a state directory: how each starts, what a    *)
(* call acquires for its run (gate, gate config, workspace, the run), who  *)
(* gives it back, and what a shutdown or a crash leaves behind.            *)
(*                                                                         *)
(* A call is ask_<agent> or continueRun, from buildSpec on.  The critical  *)
(* sections and system calls that another server or goroutine can see the  *)
(* effect of are steps of their own; closeGate and discard, which nothing  *)
(* looks into, are one step each.  Admission is RunRegistry's, so Start    *)
(* may refuse at will here.  os.Remove does not fail.                      *)
(***************************************************************************)
EXTENDS FiniteSets

CONSTANTS
    Process,   \* bridge servers, each started once
    Run,       \* run ids
    None

ASSUME BridgeAssumption == None \notin Process /\ None \notin Run

VARIABLES
    server,     \* where each process is
    todo,       \* what is left of the loop a process is in
    doomed,     \* the gate config its sweep has found to be orphaned
    owner,      \* the process a run belongs to
    call,       \* the call that starts the run
    gate,       \* its gate.Server
    config,     \* the gate-<run>.json files in the state directory
    workspace,  \* the worktrees on disk
    stored,     \* the runs in changeStore.m
    run,        \* the Run
    cancelled,  \* the runs whose context has been cancelled
    child,      \* the child process, "alive" until the bridge has killed it
    orphans,    \* history: stale configs there when a process started
    late        \* history: calls in flight when their server began to stop

files == <<config, workspace>>
history == <<orphans, late>>
serverVars == <<server, todo, doomed>>
runVars == <<stored, run, cancelled, child>>
vars == <<serverVars, owner, call, gate, files, runVars, history>>

-----------------------------------------------------------------------------
(* Types *)

(* From "closing" on these are runServe's deferred calls, last first.      *)
ServerStep == {"off", "sweeping", "up", "closing", "cancelled", "gates",
               "discarding", "exited", "crashed"}

(* "written" is startGate before the gate is in bridge.gates; "built" is   *)
(* buildSpec done; "started" has not put the worktree into the store yet.  *)
CallStep == {"none", "begun", "listening", "written", "gated", "built",
             "started", "returned", "refused"}

TypeOK ==
    /\ server \in [Process -> ServerStep]
    /\ todo \in [Process -> SUBSET Run]
    /\ doomed \in [Process -> Run \cup {None}]
    /\ owner \in [Run -> Process \cup {None}]
    /\ call \in [Run -> CallStep]
    /\ gate \in [Run -> {"none", "listening", "open", "closed"}]
    /\ {config, workspace, stored, cancelled, late} \subseteq SUBSET Run
    /\ stored \subseteq workspace
    /\ run \in [Run -> {"none", "live", "settled"}]
    /\ child \in [Run -> {"none", "alive", "dead"}]
    /\ orphans \in [Process -> SUBSET Run]

Init ==
    /\ server = [p \in Process |-> "off"]
    /\ todo = [p \in Process |-> {}]
    /\ doomed = [p \in Process |-> None]
    /\ owner = [r \in Run |-> None]
    /\ call = [r \in Run |-> "none"]
    /\ gate = [r \in Run |-> "none"]
    /\ config = {} /\ workspace = {} /\ stored = {}
    /\ run = [r \in Run |-> "none"]
    /\ cancelled = {}
    /\ child = [r \in Run |-> "none"]
    /\ orphans = [p \in Process |-> {}] /\ late = {}

-----------------------------------------------------------------------------
(* Helpers *)

Alive(p) == server[p] \notin {"off", "exited", "crashed"}
Owned(p) == {r \in Run : owner[r] = p}
InProcess(r) == owner[r] # None /\ Alive(owner[r])

(* Somebody answers when the gate's socket is dialed. *)
Answers(r) == InProcess(r) /\ gate[r] \in {"listening", "open"}

InFlight == {r \in Run : call[r] \notin {"none", "returned", "refused"}}

(* closeGate: the gate if bridge.gates has it, the config in any case. *)
CloseGate(r) ==
    /\ gate' = IF gate[r] = "open" THEN [gate EXCEPT ![r] = "closed"] ELSE gate
    /\ config' = config \ {r}

(* changeStore.discard *)
Discard(r) ==
    /\ stored' = stored \ {r}
    /\ workspace' = IF r \in stored THEN workspace \ {r} ELSE workspace

-----------------------------------------------------------------------------
(* Start: the sweep, then service *)

(* ReadDir: the sweep works on the names that are there now. *)
Boot(p) ==
    /\ server[p] = "off"
    /\ server' = [server EXCEPT ![p] = "sweeping"]
    /\ todo' = [todo EXCEPT ![p] = config]
    /\ orphans' = [orphans EXCEPT ![p] = {r \in config : ~InProcess(r)}]
    /\ UNCHANGED <<doomed, owner, call, gate, files, runVars, late>>

Bug_NoDial(p, r) ==
    /\ server[p] = "sweeping" /\ doomed[p] = None
    /\ r \in todo[p]
    /\ todo' = [todo EXCEPT ![p] = @ \ {r}]
    /\ doomed' = [doomed EXCEPT ![p] = r]
    /\ UNCHANGED <<server, owner, call, gate, files, runVars, history>>

(* gateConfigLive: a config that cannot be read counts as live; otherwise  *)
(* the socket that belongs to its name is dialed.                          *)
SweepLook(p, r) ==
    /\ server[p] = "sweeping" /\ doomed[p] = None
    /\ r \in todo[p]
    /\ todo' = [todo EXCEPT ![p] = @ \ {r}]
    /\ doomed' = IF r \in config /\ ~Answers(r) THEN [doomed EXCEPT ![p] = r]
                 ELSE doomed
    /\ UNCHANGED <<server, owner, call, gate, files, runVars, history>>

SweepRemove(p) ==
    /\ server[p] = "sweeping" /\ doomed[p] # None
    /\ config' = config \ {doomed[p]}
    /\ doomed' = [doomed EXCEPT ![p] = None]
    /\ UNCHANGED <<server, todo, owner, call, gate, workspace, runVars, history>>

Bug_ServeFirst(p) ==
    /\ server[p] = "sweeping" /\ doomed[p] = None
    /\ server' = [server EXCEPT ![p] = "up"]
    /\ todo' = [todo EXCEPT ![p] = {}]
    /\ UNCHANGED <<doomed, owner, call, gate, files, runVars, history>>

(* The control channel is there, or the server gives up: the deferred      *)
(* calls then find nothing to do.                                          *)
Serve(p) ==
    /\ server[p] = "sweeping" /\ todo[p] = {} /\ doomed[p] = None
    /\ \E next \in {"up", "exited"} : server' = [server EXCEPT ![p] = next]
    /\ UNCHANGED <<todo, doomed, owner, call, gate, files, runVars, history>>

-----------------------------------------------------------------------------
(* A call acquires what its run needs *)

Begin(p, r) ==
    /\ server[p] = "up"
    /\ owner[r] = None
    /\ owner' = [owner EXCEPT ![r] = p]
    /\ call' = [call EXCEPT ![r] = "begun"]
    /\ UNCHANGED <<serverVars, gate, files, runVars, history>>

CallGoes(r, from, to) ==
    /\ InProcess(r) /\ call[r] = from
    /\ call' = [call EXCEPT ![r] = to]

(* The adapter is not interactive, or the operator has not allowed it. *)
NoGate(r) ==
    /\ CallGoes(r, "begun", "gated")
    /\ UNCHANGED <<serverVars, owner, gate, files, runVars, history>>

(* Fail closed: without its gate an interactive run does not start. *)
GateFails(r) ==
    /\ CallGoes(r, "begun", "refused")
    /\ UNCHANGED <<serverVars, owner, gate, files, runVars, history>>

GateListens(r) ==
    /\ CallGoes(r, "begun", "listening")
    /\ gate' = [gate EXCEPT ![r] = "listening"]
    /\ UNCHANGED <<serverVars, owner, files, runVars, history>>

GateWrites(r) ==
    /\ CallGoes(r, "listening", "written")
    /\ config' = config \cup {r}
    /\ UNCHANGED <<serverVars, owner, gate, workspace, runVars, history>>

GateWriteFails(r) ==
    /\ CallGoes(r, "listening", "refused")
    /\ gate' = [gate EXCEPT ![r] = "closed"]
    /\ UNCHANGED <<serverVars, owner, files, runVars, history>>

GateOpens(r) ==
    /\ CallGoes(r, "written", "gated")
    /\ gate' = [gate EXCEPT ![r] = "open"]
    /\ UNCHANGED <<serverVars, owner, files, runVars, history>>

(* The rest of buildSpec; a confined write run gets a worktree. *)
Prepare(r) ==
    /\ CallGoes(r, "gated", "built")
    /\ workspace' \in {workspace, workspace \cup {r}}
    /\ UNCHANGED <<serverVars, owner, gate, config, runVars, history>>

Bug_KeepGate(r) ==
    /\ CallGoes(r, "gated", "refused")
    /\ UNCHANGED <<serverVars, owner, gate, files, runVars, history>>

(* The deferred closeGate of a buildSpec that fails. *)
PrepareFails(r) ==
    /\ CallGoes(r, "gated", "refused")
    /\ CloseGate(r)
    /\ UNCHANGED <<serverVars, owner, workspace, runVars, history>>

Start(r) ==
    /\ CallGoes(r, "built", "started")
    /\ run' = [run EXCEPT ![r] = "live"]
    /\ UNCHANGED <<serverVars, owner, gate, files, stored, cancelled, child, history>>

StartRefused(r) ==
    /\ CallGoes(r, "built", "refused")
    /\ CloseGate(r)
    /\ workspace' = workspace \ {r}
    /\ UNCHANGED <<serverVars, owner, runVars, history>>

Bug_StoreLater(r) ==
    /\ CallGoes(r, "started", "returned")
    /\ UNCHANGED <<serverVars, owner, gate, files, runVars, history>>

(* The worktree is put into the store at spawn, not at collection. *)
Register(r) ==
    /\ CallGoes(r, "started", "returned")
    /\ stored' = stored \cup ({r} \cap workspace)
    /\ UNCHANGED <<serverVars, owner, gate, files, run, cancelled, child, history>>

-----------------------------------------------------------------------------
(* A run *)

Spawn(r) ==
    /\ InProcess(r) /\ run[r] = "live" /\ child[r] = "none"
    /\ \/ child' = [child EXCEPT ![r] = "alive"] /\ UNCHANGED run
       \/ child' = [child EXCEPT ![r] = "dead"] /\ run' = [run EXCEPT ![r] = "settled"]
    /\ UNCHANGED <<serverVars, owner, call, gate, files, stored, cancelled, history>>

(* The supervisor, after an exit, the timeout or a cancellation.           *)
Supervised(r) ==
    /\ InProcess(r) /\ child[r] = "alive"
    /\ child' = [child EXCEPT ![r] = "dead"]
    /\ run' = [run EXCEPT ![r] = "settled"]
    /\ UNCHANGED <<serverVars, owner, call, gate, files, stored, cancelled, history>>

(* A question nobody answered: the run rests in needs_input. *)
Rests(r) ==
    /\ InProcess(r) /\ run[r] = "live" /\ child[r] = "alive" /\ gate[r] = "open"
    /\ run' = [run EXCEPT ![r] = "settled"]
    /\ cancelled' = cancelled \cup {r}
    /\ UNCHANGED <<serverVars, owner, call, gate, files, stored, child, history>>

(* cancel_agent, or the operator's stop. *)
CancelRun(r) ==
    /\ InProcess(r) /\ run[r] = "live"
    /\ cancelled' = cancelled \cup {r}
    /\ UNCHANGED <<serverVars, owner, call, gate, files, stored, run, child, history>>

(* recordCompletion, when somebody awaits the run. *)
Awaited(r) ==
    /\ InProcess(r) /\ run[r] = "settled"
    /\ CloseGate(r)
    /\ UNCHANGED <<serverVars, owner, call, workspace, runVars, history>>

(* Accepted, rejected, handed on or reaped. *)
Decided(r) ==
    /\ InProcess(r) /\ run[r] = "settled"
    /\ Discard(r)
    /\ UNCHANGED <<serverVars, owner, call, gate, config, run, cancelled, child, history>>

-----------------------------------------------------------------------------
(* Shutdown: the deferred calls of runServe *)

Stops(p, from, to) ==
    /\ server[p] = from /\ todo[p] = {}
    /\ server' = [server EXCEPT ![p] = to]

(* The host has closed stdin, or a signal came: the control channel goes.  *)
CloseControl(p) ==
    /\ Stops(p, "up", "closing")
    /\ late' = late \cup (InFlight \cap Owned(p))
    /\ UNCHANGED <<todo, doomed, owner, call, gate, files, runVars, orphans>>

(* Registry.CancelAll cancels contexts and waits for nobody. *)
CancelAll(p) ==
    /\ Stops(p, "closing", "cancelled")
    /\ cancelled' = cancelled \cup {r \in Owned(p) : run[r] # "none"}
    /\ UNCHANGED <<todo, doomed, owner, call, gate, files, stored, run, child, history>>

CloseAllGates(p) ==
    /\ Stops(p, "cancelled", "gates")
    /\ todo' = [todo EXCEPT ![p] = {r \in Owned(p) : gate[r] = "open"}]
    /\ UNCHANGED <<doomed, owner, call, gate, files, runVars, history>>

CloseOne(p, r) ==
    /\ server[p] = "gates" /\ r \in todo[p]
    /\ todo' = [todo EXCEPT ![p] = @ \ {r}]
    /\ CloseGate(r)
    /\ UNCHANGED <<server, doomed, owner, call, workspace, runVars, history>>

DiscardAll(p) ==
    /\ Stops(p, "gates", "discarding")
    /\ todo' = [todo EXCEPT ![p] = stored \cap Owned(p)]
    /\ UNCHANGED <<doomed, owner, call, gate, files, runVars, history>>

DiscardOne(p, r) ==
    /\ server[p] = "discarding" /\ r \in todo[p]
    /\ todo' = [todo EXCEPT ![p] = @ \ {r}]
    /\ Discard(r)
    /\ UNCHANGED <<server, doomed, owner, call, gate, config, run, cancelled, child, history>>

(* main returns: every goroutine and every socket of the process is gone. *)
Exit(p) ==
    /\ Stops(p, "discarding", "exited")
    /\ UNCHANGED <<todo, doomed, owner, call, gate, files, runVars, history>>

Crash(p) ==
    /\ Alive(p)
    /\ server' = [server EXCEPT ![p] = "crashed"]
    /\ UNCHANGED <<todo, doomed, owner, call, gate, files, runVars, history>>

-----------------------------------------------------------------------------

CallSteps(r) ==
    \/ NoGate(r) \/ GateFails(r) \/ GateListens(r) \/ GateWrites(r)
    \/ GateWriteFails(r) \/ GateOpens(r) \/ Prepare(r) \/ PrepareFails(r)
    \/ Start(r) \/ StartRefused(r) \/ Register(r)

RunSteps(r) ==
    \/ Spawn(r) \/ Supervised(r) \/ Rests(r)
    \/ CancelRun(r) \/ Awaited(r) \/ Decided(r)

ServerSteps(p) ==
    \/ Boot(p) \/ SweepRemove(p) \/ Serve(p)
    \/ CloseControl(p) \/ CancelAll(p) \/ CloseAllGates(p) \/ DiscardAll(p)
    \/ Exit(p) \/ Crash(p)
    \/ \E r \in Run : SweepLook(p, r) \/ Begin(p, r) \/ CloseOne(p, r) \/ DiscardOne(p, r)

Next ==
    \/ \E p \in Process : ServerSteps(p)
    \/ \E r \in Run : CallSteps(r) \/ RunSteps(r)

Spec == Init /\ [][Next]_vars

-----------------------------------------------------------------------------
(* Properties *)

(* sweepStaleGateConfigs: the sweep of a server that starts never takes    *)
(* away the config of a gate another server has open, at whatever point of *)
(* startGate it looks; and a config a dead server left behind is gone      *)
(* before the next one serves, so that its token does not stay readable.   *)
SweepExact ==
    /\ \A r \in Run : (InProcess(r) /\ gate[r] = "open") => r \in config
    /\ \A p \in Process : server[p] = "up" => orphans[p] \cap config = {}

(* A call that is refused, at whatever step, has given back its gate, its  *)
(* config and its worktree (buildSpec's defer, makeAsk, continueRun).      *)
RefusedLeavesNothing ==
    \A r \in Run :
        call[r] = "refused" =>
            r \notin config \cup workspace /\ gate[r] \in {"none", "closed"}

(* A server that stops in order leaves no config and no worktree of a run  *)
(* whose call had returned by then, awaited and decided or not.            *)
CleanExit ==
    \A p \in Process :
        server[p] = "exited" => (Owned(p) \ late) \cap (config \cup workspace) = {}

-----------------------------------------------------------------------------
(* The inductive invariant behind these, part by part *)

(* The run's process has ended: nothing happens to the run any more.       *)
Dead(r) == owner[r] # None /\ ~Alive(owner[r])

(* A run belongs to a process that has served, once its call has begun.    *)
OwnerInv ==
    \A r \in Run :
        /\ owner[r] = None <=> call[r] = "none"
        /\ owner[r] # None => server[owner[r]] \notin {"off", "sweeping"}
        /\ run[r] # "none" => call[r] \in {"started", "returned"}
        /\ child[r] # "none" => run[r] # "none"

(* A config is there as long as its gate can be dialed and its process     *)
(* lives, and goes in the step that closes the gate.                       *)
GateInv ==
    \A r \in Run :
        /\ call[r] \in {"none", "begun"} => gate[r] = "none"
        /\ call[r] \in {"listening", "written"} <=> gate[r] = "listening"
        /\ call[r] = "refused" => gate[r] \in {"none", "closed"}
        /\ r \in config => gate[r] \in {"listening", "open"} /\ call[r] # "listening"
        /\ InProcess(r) /\ (call[r] = "written" \/ gate[r] = "open") => r \in config

(* A worktree is there from Prepare on, and registered once the call has   *)
(* returned.                                                               *)
WorkspaceInv ==
    \A r \in Run :
        /\ r \in workspace => call[r] \in {"built", "started", "returned"}
        /\ r \in workspace /\ call[r] = "returned" => r \in stored
        /\ r \in stored => r \in workspace /\ call[r] = "returned"

(* What a sweep removes, and what it has still to look at.                 *)
SweepInv ==
    \A p \in Process :
        /\ doomed[p] # None => Dead(doomed[p])
        /\ \A r \in orphans[p] : Dead(r)
        /\ server[p] = "sweeping" => orphans[p] \cap config \subseteq todo[p] \cup {doomed[p]}
        /\ server[p] = "up" => orphans[p] \cap config = {}

(* What is left of a run whose call had returned when its server began to  *)
(* stop, at each of the deferred calls.                                    *)
StopInv ==
    \A p \in Process :
        /\ server[p] = "gates" => \A r \in todo[p] : gate[r] \in {"open", "closed"}
        /\ \A r \in Owned(p) \ late :
              /\ server[p] \in {"closing", "cancelled", "gates", "discarding", "exited"} =>
                    call[r] \in {"returned", "refused"}
              /\ server[p] = "gates" /\ gate[r] = "open" => r \in todo[p]
              /\ server[p] \in {"discarding", "exited"} => gate[r] # "open"
              /\ server[p] = "discarding" /\ r \in stored => r \in todo[p]
              /\ server[p] = "exited" => r \notin stored

BridgeInv ==
    TypeOK /\ OwnerInv /\ GateInv /\ WorkspaceInv /\ SweepInv /\ StopInv

=============================================================================
