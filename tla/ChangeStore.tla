---------------------------- MODULE ChangeStore ----------------------------
(***************************************************************************)
(* The diffs of confined write runs: the worktree each run edits, what a   *)
(* continuation hands on from one run to the next, the store of changes    *)
(* that wait for a decision, and the calls that collect, accept, reject    *)
(* and reap them.                                                          *)
(*                                                                         *)
(* A file content is the set of runs whose work is in it, and the base of  *)
(* a chain is the empty set.  git succeeds on a worktree that is there and *)
(* fails on one that is gone; where it may fail for reasons of its own the *)
(* action says so.  The slot limit is RunRegistry's: Start may refuse at   *)
(* any time.  A run leaves the registry in one step when it has aged, for  *)
(* Get and List prune before they look.  changeStore.discard forgets the   *)
(* entry and then removes the worktree: one step, as nothing finds the     *)
(* worktree through the store in between.  The caller's own tree is left   *)
(* out: what is applied to it, nothing here reads.  A cancelled run is     *)
(* treated as a failed one throughout.                                     *)
(***************************************************************************)
EXTENDS Run

CONSTANTS
    Handler,   \* ask_<agent> and continueRun calls
    Await,     \* await_agent calls
    Operator   \* accept and reject calls

VARIABLES
    runs,     \* the Run of each id
    known,    \* the ids in the registry
    child,    \* the runs whose child is alive
    handle,   \* the runs whose own worktree handle nobody has taken
    tree,     \* the worktree and branch of each run
    store,    \* changeStore.m
    handler,  \* progress of each ask or continueRun
    await,    \* progress of each await_agent on an ended run
    decision, \* progress of each accept or reject
    rejected  \* the runs an operator has rejected

runVars == <<runs, known, child>>
vars == <<runVars, handle, tree, store, handler, await, decision, rejected>>

-----------------------------------------------------------------------------
(* Types *)

Work == SUBSET RunId

(* head is the content of the branch, files that of the working tree.      *)
Worktree == [there : BOOLEAN, head : Work, files : Work]
Gone == [there |-> FALSE, head |-> {}, files |-> {}]
Checkout(content) == [there |-> TRUE, head |-> content, files |-> content]

(* pendingChanges: registered at spawn, or collected with a patch.         *)
Entry == [kind : {"none", "spawned"}, patch : {{}}, accepted : {FALSE}]
            \cup [kind : {"diff"}, patch : Work \ {{}}, accepted : BOOLEAN]
NoEntry == [kind |-> "none", patch |-> {}, accepted |-> FALSE]
Spawned == [NoEntry EXCEPT !.kind = "spawned"]
Diff(patch) == [kind |-> "diff", patch |-> patch, accepted |-> FALSE]

(* "took" holds the predecessor's record; "built" has a worktree for succ; *)
(* "started" has yet to register it; then continueRun goes on to label the *)
(* predecessor, take its handle and discard its entry.                     *)
HandlerRecord ==
    [pc : {"idle", "took", "built", "started", "registered", "labelled", "taken"},
     pred : RunId \cup {None}, succ : RunId \cup {None}]
IdleHandler == [pc |-> "idle", pred |-> None, succ |-> None]

(* "ended" has seen run r terminal; "took" has its worktree; "diffed" the  *)
(* patch; "reap" has still to list; "reaping" walks the list; "doom" is    *)
(* about to discard r.                                                     *)
AwaitRecord ==
    [pc : {"idle", "ended", "took", "diffed", "reap", "reaping", "doom"},
     run : RunId \cup {None}, patch : Work, list : SUBSET RunId]
IdleAwait == [pc |-> "idle", run |-> None, patch |-> {}, list |-> {}]

DecisionRecord ==
    [pc : {"idle", "accepting", "applied", "rejecting"},
     run : RunId \cup {None}, agent : BOOLEAN]
IdleDecision == [pc |-> "idle", run |-> None, agent |-> FALSE]

TypeOK ==
    /\ runs \in [RunId -> RunRecord]
    /\ known \in SUBSET RunId
    /\ child \in SUBSET RunId
    /\ handle \in SUBSET RunId
    /\ tree \in [RunId -> Worktree]
    /\ store \in [RunId -> Entry]
    /\ handler \in [Handler -> HandlerRecord]
    /\ await \in [Await -> AwaitRecord]
    /\ decision \in [Operator -> DecisionRecord]
    /\ rejected \in SUBSET RunId

Init ==
    /\ runs = [r \in RunId |-> NoRun]
    /\ known = {} /\ child = {} /\ handle = {}
    /\ tree = [r \in RunId |-> Gone]
    /\ store = [r \in RunId |-> NoEntry]
    /\ handler = [h \in Handler |-> IdleHandler]
    /\ await = [a \in Await |-> IdleAwait]
    /\ decision = [o \in Operator |-> IdleDecision]
    /\ rejected = {}

-----------------------------------------------------------------------------
(* Helpers *)

Put(r, entry) == store' = [store EXCEPT ![r] = entry]

(* discard: what was not registered is not removed. *)
Discard(r) ==
    IF store[r].kind = "none" THEN UNCHANGED <<store, tree>>
    ELSE Put(r, NoEntry) /\ tree' = [tree EXCEPT ![r] = Gone]

(* newRunID: an id that neither a run nor a worktree has. *)
Unused(r) ==
    /\ runs[r].state = "unstarted"
    /\ \A h \in Handler : handler[h].succ # r

(* ContinueFrom: the predecessor's uncommitted work becomes a commit that  *)
(* the successor is checked out from; a clean predecessor gives its base.  *)
Dirty(p) == tree[p].files # tree[p].head
Commit(p) == [tree[p] EXCEPT !.head = tree[p].files]
HandedOn(p) == IF Dirty(p) THEN tree[p].files ELSE {}

HandlerAt(h, pc) == handler[h].pc = pc
Move(h, pc) == handler' = [handler EXCEPT ![h].pc = pc]

-----------------------------------------------------------------------------
(* ask_<agent> and continueRun *)

(* buildSpec for a new run: worktree.Create. *)
Create(h, r) ==
    /\ HandlerAt(h, "idle")
    /\ Unused(r)
    /\ tree' = [tree EXCEPT ![r] = Checkout({})]
    /\ handler' = [handler EXCEPT ![h] = [IdleHandler EXCEPT !.pc = "built", !.succ = r]]
    /\ UNCHANGED <<runVars, handle, store, await, decision, rejected>>

Take(h, p) ==
    /\ HandlerAt(h, "idle")
    /\ p \in known
    /\ MayTakeContinuation(runs[p])
    /\ runs' = [runs EXCEPT ![p] = TakeContinuation(@)]
    /\ handler' = [handler EXCEPT ![h] = [IdleHandler EXCEPT !.pc = "took", !.pred = p]]
    /\ UNCHANGED <<known, child, handle, tree, store, await, decision, rejected>>

(* Depth, policy, no recorded workspace, or a step of buildSpec: the       *)
(* record goes back.  ContinueFrom may have made its commit by then.       *)
Refuse(h) ==
    LET p == handler[h].pred IN
    /\ HandlerAt(h, "took")
    /\ runs' = [runs EXCEPT ![p] = SetContinuation(@)]
    /\ \/ UNCHANGED tree
       \/ tree[p].there /\ tree' = [tree EXCEPT ![p] = Commit(p)]
    /\ handler' = [handler EXCEPT ![h] = IdleHandler]
    /\ UNCHANGED <<known, child, handle, store, await, decision, rejected>>

(* The store has the predecessor's workspace, and ContinueFrom hands it on. *)
ContinueFrom(h, s) ==
    LET p == handler[h].pred IN
    /\ HandlerAt(h, "took")
    /\ Unused(s)
    /\ store[p].kind # "none" /\ tree[p].there
    /\ tree' = [tree EXCEPT ![p] = Commit(p), ![s] = Checkout(HandedOn(p))]
    /\ handler' = [handler EXCEPT ![h].pc = "built", ![h].succ = s]
    /\ UNCHANGED <<runVars, handle, store, await, decision, rejected>>

Bug_RemovePredecessor(h) ==
    LET p == handler[h].pred IN
    /\ HandlerAt(h, "built")
    /\ tree' = [tree EXCEPT ![IF p = None THEN handler[h].succ ELSE p] = Gone]
    /\ runs' = IF p = None THEN runs ELSE [runs EXCEPT ![p] = SetContinuation(@)]
    /\ handler' = [handler EXCEPT ![h] = IdleHandler]
    /\ UNCHANGED <<known, child, handle, store, await, decision, rejected>>

Bug_LeaveWorktree(h) ==
    LET p == handler[h].pred IN
    /\ HandlerAt(h, "built")
    /\ runs' = IF p = None THEN runs ELSE [runs EXCEPT ![p] = SetContinuation(@)]
    /\ handler' = [handler EXCEPT ![h] = IdleHandler]
    /\ UNCHANGED <<known, child, handle, tree, store, await, decision, rejected>>

(* Start refuses: no run, so its worktree goes, and the record goes back.  *)
RefuseStart(h) ==
    LET p == handler[h].pred IN
    /\ HandlerAt(h, "built")
    /\ tree' = [tree EXCEPT ![handler[h].succ] = Gone]
    /\ runs' = IF p = None THEN runs ELSE [runs EXCEPT ![p] = SetContinuation(@)]
    /\ handler' = [handler EXCEPT ![h] = IdleHandler]
    /\ UNCHANGED <<known, child, handle, store, await, decision, rejected>>

Start(h) ==
    LET p == handler[h].pred
        s == handler[h].succ
        depth == IF p = None THEN 0 ELSE runs[p].links + 1
    IN
    /\ HandlerAt(h, "built")
    /\ runs' = [r \in RunId |->
                  CASE r = s -> [NewRun(p, depth) EXCEPT !.cancel = TRUE]
                    [] r = p /\ p \in known -> Retire(runs[r])
                    [] OTHER -> runs[r]]
    /\ known' = known \cup {s}
    /\ child' = child \cup {s}
    /\ handle' = handle \cup {s}
    /\ Move(h, "started")
    /\ UNCHANGED <<tree, store, await, decision, rejected>>

(* Registered at spawn, not at collection: an ask is then done. *)
Register(h) ==
    /\ HandlerAt(h, "started")
    /\ Put(handler[h].succ, Spawned)
    /\ handler' = [handler EXCEPT ![h] = IF @.pred = None THEN IdleHandler
                                         ELSE [@ EXCEPT !.pc = "registered"]]
    /\ UNCHANGED <<runVars, handle, tree, await, decision, rejected>>

(* The label, which an expired predecessor refuses. *)
Label(h) ==
    /\ HandlerAt(h, "registered")
    /\ runs' = [runs EXCEPT ![handler[h].pred] = Supersede(@, handler[h].succ)]
    /\ Move(h, "labelled")
    /\ UNCHANGED <<known, child, handle, tree, store, await, decision, rejected>>

TakeHandle(h) ==
    /\ HandlerAt(h, "labelled")
    /\ handle' = handle \ {handler[h].pred}
    /\ Move(h, "taken")
    /\ UNCHANGED <<runVars, tree, store, await, decision, rejected>>

(* Whatever the label: the chain's diff now lives on the successor. *)
RetirePredecessor(h) ==
    /\ HandlerAt(h, "taken")
    /\ Discard(handler[h].pred)
    /\ handler' = [handler EXCEPT ![h] = IdleHandler]
    /\ UNCHANGED <<runVars, handle, await, decision, rejected>>

-----------------------------------------------------------------------------
(* The run *)

(* A child edits as long as it lives and has a directory, so also after    *)
(* its run has come to rest.                                               *)
Edit(r) ==
    /\ r \in child
    /\ tree[r].there
    /\ tree' = [tree EXCEPT ![r].files = @ \cup {r}]
    /\ UNCHANGED <<runVars, handle, store, handler, await, decision, rejected>>

(* The supervisor: kill, reap, finish. A resting run stays as it is. *)
ChildEnds(r) ==
    /\ r \in child
    /\ child' = child \ {r}
    /\ \E outcome \in {"completed", "failed"} :
            runs' = [runs EXCEPT ![r] = Finish(@, outcome)]
    /\ UNCHANGED <<known, handle, tree, store, handler, await, decision, rejected>>

(* A resolver that has asked gives up.  The cancel that follows is in the  *)
(* same step: nothing here reads it, as a child may end at any time.       *)
Rest(r) ==
    /\ runs[r].state = "running"
    /\ r \in child
    /\ runs' = [runs EXCEPT ![r] = CancelRested(NeedsInput([@ EXCEPT !.asked = TRUE]))]
    /\ UNCHANGED <<known, child, handle, tree, store, handler, await, decision, rejected>>

(* question_timeout_s is over and some call notices. *)
ExpireRun(r) ==
    /\ runs[r].state = "needs_input"
    /\ runs' = [runs EXCEPT ![r] = Expire([@ EXCEPT !.deadline = "passed"])]
    /\ UNCHANGED <<known, child, handle, tree, store, handler, await, decision, rejected>>

(* The retention window is over. *)
Forget(r) ==
    /\ r \in known
    /\ IsTerminal(runs[r].state)
    /\ known' = known \ {r}
    /\ UNCHANGED <<runs, child, handle, tree, store, handler, await, decision, rejected>>

-----------------------------------------------------------------------------
(* await_agent on a run that has ended *)

(* A superseded run's work lives on its successor: it is not collected.    *)
(* The call was let in by Get, perhaps long ago.                           *)
AwaitEnds(a, r) ==
    /\ await[a].pc = "idle"
    /\ IsTerminal(runs[r].state) /\ runs[r].state # "superseded"
    /\ await' = [await EXCEPT ![a] = [IdleAwait EXCEPT !.pc = "ended", !.run = r]]
    /\ UNCHANGED <<runVars, handle, tree, store, handler, decision, rejected>>

(* TakeWorktree hands the worktree out once. *)
TakeWorktree(a) ==
    /\ await[a].pc = "ended"
    /\ handle' = handle \ {await[a].run}
    /\ await' = [await EXCEPT ![a].pc = IF await[a].run \in handle THEN "took" ELSE "reap"]
    /\ UNCHANGED <<runVars, tree, store, handler, decision, rejected>>

(* collect: the diff against the chain's base.  If git fails, the worktree *)
(* is removed and its entry stays.                                         *)
TakeDiff(a) ==
    LET r == await[a].run IN
    /\ await[a].pc = "took"
    /\ \/ /\ tree[r].there
          /\ await' = [await EXCEPT ![a].pc = "diffed", ![a].patch = tree[r].files]
          /\ UNCHANGED tree
       \/ /\ await' = [await EXCEPT ![a].pc = "reap"]
          /\ tree' = [tree EXCEPT ![r] = Gone]
    /\ UNCHANGED <<runVars, handle, store, handler, decision, rejected>>

(* An empty diff is not kept pending. *)
Collect(a) ==
    LET r == await[a].run IN
    /\ await[a].pc = "diffed"
    /\ IF await[a].patch = {} THEN Discard(r)
       ELSE Put(r, Diff(await[a].patch)) /\ UNCHANGED tree
    /\ await' = [await EXCEPT ![a].pc = "reap"]
    /\ UNCHANGED <<runVars, handle, handler, decision, rejected>>

(* reapAbandonedWorktrees: List, then for each run get and maybe discard.  *)
Walk(a, rest) ==
    await' = [await EXCEPT ![a] = IF rest = {} THEN IdleAwait
                                  ELSE [IdleAwait EXCEPT !.pc = "reaping", !.list = rest]]

ReapList(a) ==
    /\ await[a].pc = "reap"
    /\ Walk(a, {r \in known : IsTerminal(runs[r].state) /\ runs[r].state # "completed"})
    /\ UNCHANGED <<runVars, handle, tree, store, handler, decision, rejected>>

ReapLook(a, r) ==
    /\ await[a].pc = "reaping"
    /\ r \in await[a].list
    /\ IF store[r].kind = "spawned"
       THEN await' = [await EXCEPT ![a].pc = "doom", ![a].run = r]
       ELSE Walk(a, await[a].list \ {r})
    /\ UNCHANGED <<runVars, handle, tree, store, handler, decision, rejected>>

ReapDiscard(a) ==
    /\ await[a].pc = "doom"
    /\ Discard(await[a].run)
    /\ Walk(a, await[a].list \ {await[a].run})
    /\ UNCHANGED <<runVars, handle, handler, decision, rejected>>

-----------------------------------------------------------------------------
(* Decisions *)

(* Accept (the operator, who may name a run the registry has forgotten)    *)
(* and acceptChanges (the host, who may not, and not twice).  For an entry *)
(* without a patch Apply refuses and nothing changes.                      *)
AcceptLook(o, r, agent) ==
    /\ decision[o].pc = "idle"
    /\ r \in known => runs[r].state # "superseded"
    /\ agent => r \in known /\ ~store[r].accepted
    /\ store[r].kind = "diff"
    /\ decision' = [decision EXCEPT ![o] = [pc |-> "accepting", run |-> r, agent |-> agent]]
    /\ UNCHANGED <<runVars, handle, tree, store, handler, await, rejected>>

(* A patch that does not apply changes nothing. *)
ApplyRefused(o) ==
    /\ decision[o].pc = "accepting"
    /\ decision' = [decision EXCEPT ![o] = IdleDecision]
    /\ UNCHANGED <<runVars, handle, tree, store, handler, await, rejected>>

(* Apply; acceptChanges marks the entry it read, if it is still there.     *)
Apply(o) ==
    LET r == decision[o].run IN
    /\ decision[o].pc = "accepting"
    /\ store' = IF decision[o].agent /\ store[r].kind = "diff"
                THEN [store EXCEPT ![r].accepted = TRUE] ELSE store
    /\ decision' = [decision EXCEPT ![o].pc = "applied"]
    /\ UNCHANGED <<runVars, handle, tree, handler, await, rejected>>

AcceptDone(o) ==
    /\ decision[o].pc = "applied"
    /\ Discard(decision[o].run)
    /\ decision' = [decision EXCEPT ![o] = IdleDecision]
    /\ UNCHANGED <<runVars, handle, handler, await, rejected>>

RejectLook(o, r) ==
    /\ decision[o].pc = "idle"
    /\ store[r].kind # "none"
    /\ decision' = [decision EXCEPT ![o] = [IdleDecision EXCEPT !.pc = "rejecting", !.run = r]]
    /\ UNCHANGED <<runVars, handle, tree, store, handler, await, rejected>>

RejectDone(o) ==
    LET r == decision[o].run IN
    /\ decision[o].pc = "rejecting"
    /\ Discard(r)
    /\ rejected' = rejected \cup {r}
    /\ decision' = [decision EXCEPT ![o] = IdleDecision]
    /\ UNCHANGED <<runVars, handle, handler, await>>

-----------------------------------------------------------------------------

HandlerStep(h) ==
    \/ \E r \in RunId : Create(h, r) \/ Take(h, r) \/ ContinueFrom(h, r)
    \/ Refuse(h) \/ RefuseStart(h) \/ Start(h)
    \/ Register(h) \/ Label(h) \/ TakeHandle(h) \/ RetirePredecessor(h)

RunStep(r) == Edit(r) \/ ChildEnds(r) \/ Rest(r) \/ ExpireRun(r) \/ Forget(r)

AwaitStep(a) ==
    \/ \E r \in RunId : AwaitEnds(a, r) \/ ReapLook(a, r)
    \/ TakeWorktree(a) \/ TakeDiff(a) \/ Collect(a)
    \/ ReapList(a) \/ ReapDiscard(a)

DecisionStep(o) ==
    \/ \E r \in RunId : (\E agent \in BOOLEAN : AcceptLook(o, r, agent)) \/ RejectLook(o, r)
    \/ ApplyRefused(o) \/ Apply(o) \/ AcceptDone(o) \/ RejectDone(o)

Next ==
    \/ \E h \in Handler : HandlerStep(h)
    \/ \E r \in RunId : RunStep(r)
    \/ \E a \in Await : AwaitStep(a)
    \/ \E o \in Operator : DecisionStep(o)

Spec == Init /\ [][Next]_vars

-----------------------------------------------------------------------------
(* Safety *)

(* A run that works or rests keeps its workspace: no failed continuation,  *)
(* no await of another run and no reaping takes it, only an operator who   *)
(* rejects the run.                                                        *)
LiveKeepsWorkspace ==
    \A r \in RunId :
        runs[r].state \in {"running", "needs_input"} => tree[r].there \/ r \in rejected

(* No worktree leaks: one that is on disk is registered, so shutdown finds *)
(* it, or a handler holds it that will register or remove it.              *)
WorktreesReachable ==
    \A r \in RunId :
        tree[r].there =>
            \/ store[r].kind # "none"
            \/ \E h \in Handler : handler[h].pc \in {"built", "started"}
                                  /\ handler[h].succ = r

(* docs/02: Diff from any link reports the chain's cumulative work, so the *)
(* new link's starts with what its predecessor's reported.  A predecessor  *)
(* that is clean because its work is committed hands on nothing.           *)
WorkHandedOn ==
    [][\A h \in Handler :
          (handler[h].pc = "took" /\ handler'[h].pc = "built") =>
              tree[handler[h].pred].files \subseteq tree'[handler'[h].succ].files]_vars

=============================================================================
