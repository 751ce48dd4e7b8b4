# A TLA+ model of agents-mcp-bridge

agents-mcp-bridge is an MCP server in Go. A host agent calls `ask_<agent>` and the
bridge starts another CLI agent as a child process (a *run*), supervises it, lets a
human answer its questions, and hands the host the result and, for runs in a worktree,
a patch to accept. This directory models the part of it where steps of several actors
interleave, model-checks it with TLC and proves what matters most with TLAPS.

- [1. The system](#1-the-system): components, state, operations, how they interact
- [2. Modules](#2-modules) and how they correspond to the code
- [3. Runs](#3-runs): what TLC checks, with which bounds and fairness
- [4. Proofs](#4-proofs): what holds for every value of the constants, and why
- [5. Findings](#5-findings): where the code and what is said of it differ
- [6. Plan](#6-plan) and what is not modelled

## 1. The system

| Component | State it keeps | Operations | What is hard about it |
|---|---|---|---|
| **Run** (`internal/run/run.go`, `question.go`, `continuation.go`) | per run: state, pending question and its verdict channel, deadline, done, continuation record, `retiring`, `cancel` | `Ask`, `AnswerQuestion`, `DenyQuestion`, `NeedsInput`, `Cancel`, `finish`, expiry, `SetContinuation`, `TakeContinuation`, `Supersede` | several goroutines race to settle a run; whoever does must release the goroutine blocked on the question |
| **Run registry** (`run.go`, `exec.go` `Start`) | `runs`, `maxLive`, retention | `Start`, `Get`, `List`, sweep, prune, `CancelAll` | the slot count, over a window where a successor and its predecessor both count; the window before `r.cancel` is set |
| **Supervisor** (`exec.go` `supervise`) | the child, its process group, pipes, the timeout | attach, spawn, first message, wait, kill, drain, reap, `finish` | kill before report, on every way out; a resting run's child outlives the rest |
| **Steering and events** (`steer.go`, `stream.go`) | stdin of the child, transcript, caps | `Steer`, `send`, `streamEvents` | check and send are not atomic; transcript overflow cancels the run from inside its reader |
| **Gate** (`internal/gate`, `cmd/bridge/gate.go`) | in-flight calls, the open question, two channels to a human | `accept`, `serve`, `Resolve`, `awaitVerdict`, elicitation | a timer against an answer; two answer channels; abandoned calls; refusing fail-closed |
| **Gate lifecycle** (`gateconfig.go`) | `gates`, config and token files | `startGate`, `closeGate`, `sweepStaleGateConfigs`, `closeAllGates` | a gate must not outlive its run, nor a crash |
| **Continuation** (`cmd/bridge/continuation.go`) | none of its own: record, slot, worktree, pending changes of the predecessor | `continueRun` | a ten-step transaction over four components with an undo for each failure |
| **Tools** (`cmd/bridge/tools.go`) | `awaiting`, progress | `ask`, `await_agent`, `steer_agent`, `cancel_agent`, `list_runs` | overlapping awaits share a registration; collecting the result races continuation and reaping |
| **Change store** (`changes.go`, `controlhandler.go`, `accept.go`) | `pendingChanges` | `collect`, `get_changes`, `accept`, `reject`, reap | one acceptable diff per chain; check and apply are not atomic |
| **Worktrees** (`internal/worktree`) | base commit, tree, carried work | `Create`, `ContinueFrom`, `Diff`, `Apply`, `Remove` | no link of a chain may lose an earlier one's work |
| **Control server, index** (`internal/control`) | watchers, `servers.json` | `Attach`, `Runs`, `Answer`, `Stop`, register/deregister | the index is shared by processes without a lock |
| **Operator UI** (`internal/tui`, `watch.go`) | the screen | poll, answer, steer | the answer is for what was on the screen, not for what is pending now |
| **Audit log** (`internal/audit`) | log files, the key of the digests | `New`, `Write`, rotate, prune | every server rotates one file under the others' handles; the first start makes the key |
| **Policy, toggles** (`internal/policy`) | overrides, rate window | `Authorise`, `SetFeature` | the window is checked at admission |
| **Config** (`internal/config`) | the loaded file | schema, semantic rules, `Load` | what the rules ask of the adapter's own mode, calls use in another |
| **Adapter arguments** (`internal/adapter`) | none | expand, redact | what a template shows of the prompt |
| **Sanitizer** (`internal/sanitize`) | none | `Clean`, `EnvelopeTail` | the budget at its boundaries |
| **Platform** (`internal/platform`) | a pipe's handle, deadlines | sockets and pipes, process groups, path guard | overlapped I/O, late timers and `Close`, at once |

How they interact. `ask` runs `buildSpec` (gate, transcript, worktree, record) and
`Registry.Start`; the supervisor goroutine owns the child and calls `finish`. A blocked
child calls its gate over a socket; the gate's resolver goroutine calls `Ask`, then waits
for a verdict: `bridge watch` and `bridge answer` call `AnswerQuestion` through the control
server, or the resolver itself elicits the host through whichever `await_agent` is in
flight. Whoever loses calls `DenyQuestion` and `NeedsInput`: the run rests, its context is
cancelled, the supervisor kills the child. An operator's later answer makes `continueRun`
start a successor with the predecessor's record, against the predecessor's slot. Locks:
`Registry.mu`, each `Run.mu`, never an audit write under either.

What makes each correct, informally:

- a run settles once, and its terminal state is for ever; needs_input only becomes failed or superseded;
- never more than `max_concurrent_runs` runs occupy a slot; a continuation takes over a slot, it does not need one more;
- a run is continued at most once, chains are bounded, and a refused continuation costs nothing;
- no goroutine is left waiting for a verdict; no gate call hangs;
- an answer goes to the question it was composed for, or to none, and then the operator is told;
- a child told that the run has stopped has been told the truth;
- a settled run's process group is killed, eventually in every case and before the report wherever the supervisor reports;
- a worktree is either reachable or gone, a live run keeps its own, and a run that was continued has no diff of its own beside its successor's;
- guidance is written to the child or refused, and the host agent's stays within its budget;
- what a call acquired is given back if it is refused, at shutdown, and after a crash by the next server;
- what an operator types into a panel reaches the question that was on the screen; counts of watchers and the index of servers stay exact;
- admission only narrows: no sequence of calls, continuations and switches gets beyond the configuration that was loaded;
- an audit entry whose write returned is kept as long as the retention says, under one key, without the prompt;
- an operation on a pipe ends at its deadline or when the connection is closed, and `Close` ends too;
- what is handed to the host stays within `max_output_bytes`, evidence first, and says if it was cut.

`PROJECT.json` lists every component with its status, and under `hazards` each thing that
is hard to test, at its line, with the properties that cover it.

## 2. Modules

    Run             records and methods of one run (no variables)
     ├─ RunRegistry      registry, handlers, supervisors, gate calls     ⟶ implements SlotPool
     │    ├─ MCRunRegistry        instances for TLC
     │    └─ RunRegistry_proofs   theorems
     ├─ GateResolver     one run's gate, its resolvers, the operators   ⟶ implements QuestionBox
     │    └─ GateResolver_proofs  theorems
     ├─ ChangeStore      worktrees, continuations, pending changes, decisions   + ChangeStore_proofs
     └─ Steering         steer calls, the stdin channel and its lock    + Writers_proofs
    Supervise       one child from fork to finish: kill, wait, drain, reap   + Supervise_proofs
    Bridge          servers that share a state directory: acquisition, undo, shutdown, crash, sweep   + Bridge_proofs
    Panel           one run as its operator sees it: poll, answer, continue, feed   + Operator_proofs
    Control         the index, the walk of a command over the servers, the watchers   + Operator_proofs
    Argv            templates, command lines, redaction (no variables)
     ├─ AuditLog         the servers that share the log   + Writers_proofs
     └─ Loader           the rules of a configuration file (no variables)
         └─ Policy           admission: engine, rate limiter, switches   + Policy_proofs
    NamedPipe       one connection over a Windows pipe   + Operator_proofs
    Sanitize        the budget of the envelope (no variables)   + Supervise_proofs

Each module `M` that TLC runs has `MCM` with its symmetry sets and definitions for the `.cfg` files. `Writers_proofs` and `Operator_proofs` hold
the theorems of several small components that share no variable, so the actions of `Panel`, `Control`, `NamedPipe` and `AuditLog` have names of their own (`PanelNext`,
`ControlNext`, `PipeNext`, `AuditNext`). Modules
overlap on purpose: each takes the whole of its own component and reduces its neighbours to what can be
seen from there, and its header says how. Operators named `Bug_...` are mutated forms of the definition that
follows them: each breaks one property, which shows that the property depends on that line of the code.

**`Run`**. Every method of `*Run` does its state change under `r.mu`; so each is an operator
from a record to a record (`Finish`, `Ask`, `Resolve`, `NeedsInput`, `TakeContinuation`,
`Supersede`, ...), with a `May...` operator for its guard where it can refuse. Four modules
apply them. Time is `deadline \in {"unset", "ahead", "passed"}` and `aged`; texts are left out.
A verdict is sent after `r.mu` is released, into a channel with room for one, by the only
caller that took it out of the record: nothing can tell this from sending it in the step. `NeedsInput` calls
`r.cancel` after that, and this can be told: it is the step `CancelRested`, which the record `owes` meanwhile.

**`RunRegistry`**. `runs` and `known` are `Registry.runs` (a handler keeps its `*Run` after the
registry has pruned it); `handler[h]` is the progress of an `ask` or `continueRun` call;
`super[r]` of a supervisor goroutine; `group` the runs with a process alive.
A step is a critical section or a step of a supervisor that others can see:

| Action | Code |
|---|---|
| `BeginAsk`, `BeginContinue` | the sweep at the head of `Start` (outside `Registry.mu`) |
| `Take`, `RefuseContinuation`, `RefuseStart` | `TakeContinuation` and the restore on every refusal of `continueRun` |
| `Admit`, `Launch` | `Start`'s critical section; then `r.cancel = cancel` and the `go` statement |
| `SupersedePredecessor` | `continueRun` after `Start` |
| `Lookup`, `Snapshot` | `Get`/`List` with their sweep and prune; `Snapshot`/`Await` with their own expiry |
| `CancelRun` | `Cancel`, from `cancel_agent`, the operator, `CancelAll`, transcript overflow |
| `Spawn`, `SpawnFails`, `SendFirstMessage`, `SendFails`, `ChildExits`, `TimesOut`, `SeesCancel`, `Reaped` | `supervise`, of which `Supervise` has the detail (a recovered panic acts as `TimesOut` does: kill, then `finish(failed)`) |
| `GateAsk`, `GateResolve`, `GateNeedsInput`, `GateCancel` | the three calls a resolver makes, in any order a resolver may make them; `NeedsInput` in its two steps |
| `DeadlinePasses`, `RetentionPasses` | time |

The gate appears here only through those three calls, over-approximated: any started run
may be asked anything, any pending question may be resolved by anyone.

**`SlotPool`** is what `max_concurrent_runs` promises without runs: a holder takes a free slot
or is handed one, gives it up once, and never has one again. `RunRegistry` implements it with
`holders` = the runs that count as live: `IsSlotPool`.

**`GateResolver`**. The other half in detail, for one run: every connection (`call[c]` is where
its goroutine is in `serve`/`Resolve`/`awaitVerdict`), both channels to a human, the operator's
front ends (what they show, `seen`, and what they then send), the await registrations that
elicitation uses, the audit entries, and the replies to the child. `StartRun`, `FinishRun`,
`ExpireRun`, `ContinueRun`, `PruneRun` are what `RunRegistry` does, as far as a gate sees it.
The two-case `select` of `awaitVerdict` is `LookFirst`, then `Receive` or `TimesOut` with no
preference, as Go's `select` has none. `Rest` and `StopRun` are `NeedsInput`, under the lock and after it.

**`QuestionBox`** is what the run promises of questions: one open at a time, closed once. `GateResolver`
implements it: `IsQuestionBox`.

**`ChangeStore`**. `tree[r]` is the worktree and branch of a run, its content the set of runs whose work is in it;
`store` is `changeStore.m`; `handle` says who still owns a worktree handle.

| Action | Code |
|---|---|
| `Create`; `Take`, `ContinueFrom`, `Refuse`, `RefuseStart`, `Start`, `Register`, `Label`, `TakeHandle`, `RetirePredecessor` | `buildSpec` for an ask; `continueRun` from the record to the discard of the predecessor's changes, with the undo of each refusal |
| `Edit`, `ChildEnds`, `Rest`, `ExpireRun`, `Forget` | the child, and the registry as seen from here |
| `AwaitEnds`, `TakeWorktree`, `TakeDiff`, `Collect` | `await_agent` on a run that has ended: `collect` |
| `ReapList`, `ReapLook`, `ReapDiscard` | `reapAbandonedWorktrees`, whose list, look and discard are not atomic |
| `AcceptLook`, `ApplyRefused`, `Apply`, `AcceptDone`, `RejectLook`, `RejectDone` | `accept_changes`, `reject_changes` and the operator's commands |

**`Supervise`**. `adapter` is fixed at `Init`: how the prompt is given, whether the platform can wait for an exit without reaping,
whether events are parsed. `sup` is the supervisor's next step (`spawn`, `select`, three graces, `reap`), `waiter` the goroutine in
`WaitExit`/`Wait`, `leader` and `helper` the child and one descendant in or outside its group, `pipe` and `reader` the output.
`KillAll` marks `stray` if it signals a group whose id was already free. `Record`, `Store` and `Read` are `streamEvents` and the basic
tier's `drain` with their limits; `GraceOver`, `ReadersDone` and `Drained` are `drainReaders` and its caller.

**`Steering`**. `Admit` and `Refuse` are `Steer` under `r.mu`, `Send`/`Written`/`WriteFails` the channel's `send` under its own lock, which
is held across a write that may block (`lock`); `Told` counts and answers. `SendTask`, `CloseSteer` and `CloseAtEnd` are the channel's three
other users: the opening prompt, the reader at the end of a turn, the supervisor's defer.

**`Bridge`**. `Boot`, `SweepLook`, `SweepRemove`, `Serve` start a server; `Begin` to `Spawn` are one call's way through `buildSpec`,
`startGate` and `Start`, with a refusal after each step; `CloseControl`, `CancelAll`, `CloseAllGates`, `DiscardAll`, `Exit` are `runServe`'s
deferred calls, last first, the loops one element at a time; `Crash` may come anywhere.

**`Panel`**. `PollSize`, `PollFeed`, `PollQuestion`, `PollFails` are the parts of a tick that read something; `BeginTyping` to `SendChoice` the keys;
`TypeCommand` the typing of a `bridge answer`, with its text, `LookUp` and `AnswerRun` its two round trips. A request says what its sender had read and, from
a command, which question the lookup found. One whose sender gives up stays in `late` and may still be served.

**`Control`**. `Register`, `Deregister`, `OpenTmp`, `WriteTmp`, `RenameTmp` rewrite the index, following the file behind a handle through the
renames of others; `ReadIndex` to `GiveUp` are a command's walk; `AttachFirst` to `Noticed` the watchers' bookkeeping.

**`Argv`**. An element of a template is a literal, a placeholder, a placeholder bound to a flag (`--flag={{x}}`), or a placeholder inside something
larger. `Loads` is `validateArgs`; `Builds` and `BuildArgs` the expansion; `RedactArgv` what the audit log makes of its result.

**`Loader`**. A file is a record with one field for whatever a rule looks at; each rule of `validateSemantics` and `validateAdapter` is a
conjunct of its own. `Load` drops the host's adapter and fills in the rate; `ParsersBound` is what `runServe` asks besides.

**`Policy`**. `Init` takes any accepted file of `File`, loaded. `Ask` and `Continue` are one `Authorise` each, in the order of its checks (`StructurallyRefused`, `ModeRefused`,
the limiter, `LaterRefused`); `Build` is where `buildSpec` consults the interactive switch (`Interacts`) and fails if a template does not expand or a
sandbox is claimed without flags (`Buildable`); `Disable` and `Enable` are `SetFeature` under the ceiling.

**`AuditLog`**. `files` is every file there ever was; `live` and `rotated` are the directory's names for some of them; `handle[p]` follows its file through renames and removal.
`Start`, `Truncate`, `Store`, `Open` are `New` with the making of the key, which also follows a failing read of a whole one (`MayMisread`); `WriteEntry`, `EntryFails` one append; `CloseFull` (with the reading of the clock), `Rename`, `RenameCollides`, `List`, `RemoveOld`, `Reopen`,
`RotateFails` the calls of `rotate` and `pruneOldFiles`, under the server's own mutex and no common one; `Stop` and `StopInWrite` an exit or a kill anywhere.

**`NamedPipe`**. Per direction: `op` the goroutine in `do` (`Enter` to `Collect`; `Cancel`, `CancelFails`, `Abort` are its ways out of `await`; `WaitFails` is the system call failing), `io` the kernel's side, and the
deadline with its event and its timers, of which several generations may be about to fire (`SetDeadline`, `TimerFires`, `Expire`). `CloseSignals` to `DestroyEvents` are `Close`, in
its order; `MayRLock` is the pending write lock that keeps new operations out.

**`Sanitize`**. A text is its size; the two cuts may move back by up to three bytes.

## 3. Runs

| Run | Constants | Checks | Question |
|---|---|---|---|
| `races` | 3 runs, 1 question, 2 handlers, 2 slots, chains of 1 | `OneSuccessor` `RecordNotLost` `SettledIsStopped` `ChainBound` `NoStrandedWaiter` `OnlyRestLeavesAChild`, `IsSlotPool` `FirstSettledStateWins` | two handlers race to continue one run, or for the last slot, or against every way a run settles; whether its child is told to stop |
| `gate` | a child that makes 2 calls, one at a time, and may abandon them; 2 in flight, 1 operator, 1 await | `AnswerDelivered` `GiveUpStopsRun` `RestAudited`, `IsQuestionBox` `CallsEnd` (fair) | the answer against the timer; resolvers left behind by abandoned calls; no call hangs |
| `store` | 2 runs, 1 handler, 1 await, 1 decision | `LiveKeepsWorkspace` `WorktreesReachable` | continuation, collection, reaping and decision on one chain |
| `super` | 2 items, a pipe of 2, limits of 1, every adapter | `KillsOwnGroup` `LeavesNobody` `WholeOutput`, `TurnEnds` `DrainEnds` (fair) | every order of exit, timeout, cancellation, drain and reap |
| `steer` | 2 agent calls with a budget of 1, 1 operator call, a pipe of 1 | `AgentBudget` `NoSilentSteer`, `BlockedSteerEndsRun` (fair) | guidance against the end of the turn and a full pipe |
| `bridge` | 2 servers, 2 runs | `SweepExact` `RefusedLeavesNothing` `CleanExit` | one server sweeps while the other starts, refuses, stops or crashes |
| `panel` | 1 panel, 2 `bridge answer`, 2 questions, 2 events | `AnswersWhatWasRead` `FeedComplete`, `PanelFollows` (fair) | stale screens, commands typed too early, late replies, a growing transcript |
| `control` | 2 servers, 2 commands, 2 runs of one server | `WatchersExact` `CommandArrives` | starts, stops and crashes within a rewrite of the index |
| `policy` | 3 calls, 2 agents, a directory inside and one outside, a minute of 2 ticks, time up to 3, one adapter in 17 shapes | `RateBound` `NarrowsOnly`, `RefusedOnlyWhenFull` | every file, call, continuation and flip of the switch |
| `audit` | 2 servers, a line per file, 2 rotated files kept, 2 entries, 3 seconds, a template with every form and one that never builds | `AckedKept` `AuditsOn` `DigestsSound` | rotations that meet or rename late, stale handles, kills, two first starts, a key that cannot be read |
| `pipe` | both ends, 2 moves of the read deadline | `HandleSafe` `DeadlineExact`, `NothingHangs` (fair) | late timers, operations that cannot be cancelled, a silent peer, `Close` in the middle |
| `store_handon` | 2 runs, 1 handler | `WorkHandedOn` | a violation: section 5 |

**Bounds.** Three runs give a predecessor, two rivals for its record, and a pool of two with a third contender; a third handler can only repeat
what the second does. With chains of 1 a second link is the one refused; longer chains are the theorem `DepthCorrect`'s. In `gate`
one question can replace another, and an abandoned call still holds its slot when the child asks again. In `store` two runs are a link and its
predecessor: the properties relate these two, and each operation looks at one link. `super` and `steer` need one item more than fits a limit. In `bridge` the second
server is the one that sweeps or crashes. In `policy` three calls exceed every rate up to 2 and three ticks are more than a minute; the shapes (`MCFile`) break each of the
loader's rules about an adapter that matters afterwards, or pass them in a different way; `Model` is empty and
`Feature` has the one that is consulted, as the theorem `NarrowingCorrect` holds for any. In `audit` every line fills a file, so each entry leads to a rotation, and to another by the server that had
counted it too: three rotations with two files kept are enough to prune, to rename under an older second and to overwrite a file that was to stay (with one kept, a file that is
overwritten is old enough to go). Three seconds give each rotation a name of its own. A whole key is misread only as long as there is one key: after that `DigestsSound` says nothing of keys. In `pipe` a deadline that is moved twice leaves two old timers; the write direction has the same code and none is set there.
Ids are only compared, so they are symmetric wherever no liveness is checked.
`MaxItems`, `MaxQuestions`, `MaxEvents`, `MaxTime`, `MaxEntry`, `MaxSecond` and `MaxMoves` are bounds of the model; all other constants are parameters of the code.

**Deadlock** is switched off in every run but `audit`, since each id, question, call, process or connection is used once and then the system has stopped; that what should
not block does not is what the liveness properties say.
The passing runs together take every action.

**Fairness**, only what goroutines and timers justify:

- `GateResolver`: each resolver goroutine (`Serve(c)`), since both of its waits have a timer. Not that an operator acts or that anybody looks at the run: expiry is lazy, so a
  run may rest for ever.
- `Supervise`: the supervisor's own steps, the waiter, the copy of a prompt into a pipe without readers, and a child that exits once its turn is over and its
  input closed. That the reader runs and that the timer fires are premises of the properties that need them (`ReaderRuns => ...`, `TimerFires => ...`): `TurnEnds` holds without a timer, `DrainEnds` without a reader.
  Not that a child reads, writes or exits.
- `Steering`: the callers, the supervisor with its timer, the reader. Not the child.
- `Panel`: the tick, which re-arms itself in `Update`, and nothing else.
- `NamedPipe`: an operation's goroutine, timers, `Close`, and the kernel, which ends what was cancelled. Not that the peer reads, writes or leaves, nor that a deadline is set, nor that a wait which nothing ends fails: `WaitFails` may happen and is not fair, so
  what `NothingHangs` promises comes from the events that are signalled.

## 4. Proofs

`RunRegistry_proofs`, for any sets of runs, questions and handlers and any limits (assumed:
`None` is neither a run nor a question, `MaxLive` is positive, `MaxContinuations` a natural number):

| Theorem | States |
|---|---|
| `TypeCorrect` | `Spec => []TypeOK` (which the run no longer repeats) |
| `SlotsCorrect` | `Spec => []SlotBound`: never more than `MaxLive` live runs |
| `ChainCorrect` | `Spec => []ChainInv`, with `SuccessorsCorrect` (`OneSuccessor`) and `RecordsCorrect` (`RecordNotLost`) |
| `DepthCorrect` | `Spec => []ChainBound` |
| `RestsCorrect` | `Spec => []SettledIsStopped` |
| `WaitersCorrect` | `Spec => []NoStrandedWaiter` |
| `ChildrenCorrect` | `Spec => []OnlyRestLeavesAChild` |
| `FirstSettledCorrect` | `Spec => FirstSettledStateWins`, an action property: who settles a run first wins |
| `RegistryIsSlotPool` | `Spec => IsSlotPool`: the registry implements `SlotPool` |

The argument. None of these is inductive by itself. `MintedInv` says that handlers and supervisors
only hold runs that exist. *Slots*: `SlotBound` needs that each live run is still registered, for `Start`
counts the registry (`SlotInv`); pruning keeps it because a terminal run is not live. Admission excludes the
predecessor from the count and retires it in the same critical section, so at most `MaxLive - 1` other live runs
and the successor remain. If the predecessor has left the registry meanwhile, it was terminal, and not live anyway.
*Chains*: `ChainInv` says where a record can be: attached to its run, held by exactly one handler, or spent on one
successor. `Take` moves it from the first place to the second, every refusal back, `Admit` to the third; a running run always
has its own. `OneSuccessor` and `RecordNotLost` are its consequences, and so is the depth: a handler that is past `CheckDepth` holds its predecessor's record, so it is the only one
that can extend that chain, by one. *Rest*: `StopInv` says that `r.cancel` is set before the
supervisor exists, hence before a child that could ask; so `NeedsInput` always finds something to cancel and `owes` it until it has (`KeepsStop`: no method takes that back, neither
expiry nor supersession in between). What else settles a run is `finish`, after the child is dead (`ChildInv`).
*Waiters*: `WaiterInv` adds that no two runs wait on one
channel, so the verdict for one leaves the other's open. *Children*: `ChildInv` says that a group is alive only under a supervisor that is sending or watching,
and `LaunchInv` that a supervisor starts once, since two handlers never have the same run admitted. *Settling*: whatever a step does to a record is one of `Run`'s
methods (`NextByMethod`), and every method leaves a settled state alone or makes one of the moves allowed (`MethodMoves`). *Refinement*: the holders of the slot pool are the live runs and
the past ones the others that Start has made; a step that makes no run live and settles none is a stutter, `Admit` acquires or hands over, by `SlotInv`, and
what settles several runs at once, such as a sweep, is one release of them all.
Most steps touch none of this: they are "quiet" (`QuietStep`: records, resumption links and the minted set unchanged,
no run becomes live), and one lemma per invariant deals with all of them.

`Policy_proofs`, for any files, agents, models, directories, features, calls, length of a minute and bounds (`LoaderAssumption`, `PolicyAssumption`: `None` differs from
all of them, the host is an agent, the first root is an allowed one, a minute is positive):

| Theorem | States |
|---|---|
| `PolicyTypeCorrect` | `Spec => []TypeOK` |
| `RateCorrect` | `Spec => []RateBound`, over every window, wherever it begins |
| `LimiterFair` | `Spec => RefusedOnlyWhenFull` |
| `NarrowingCorrect` | `Spec => []NarrowsOnly` |

`LimiterInv`: the limiter's list contains every attempt of the last minute and, if there is a limit, no more than it; forgetting old attempts lazily keeps
the first because what is forgotten is never recent, admission keeps the second because it counts after forgetting. `NarrowsOnly` needs `ChainInv` (a
predecessor has come to rest, and its decision does not change any more) and `AgentInv` (a decided call has a configured agent and a mode):
only then does the mode a continuation is authorised for stay its predecessor's. It also needs `ConfigInv`: what the loader asked of each adapter still holds of what it
loaded, because `Load` only takes adapters away and leaves the ceilings alone (`LoadedCorrect`). From it come the write ceilings, and that a gated call is read-only: the loader accepts an
interactive adapter only in that mode, and a call's mode is at most its adapter's. The limiter's branch for "no limit" is kept in the proof, although a loaded rate is at least 1.

`Sanitize` (in `Supervise_proofs`), for texts of any size, any cap and any cut within a rune: `PayloadFits` (body, newline and tail together stay within the cap), `TailComesFirst` (the tail is cut only if it is
over the cap by itself), `TruncationTold` (whatever is missing is announced). They are arithmetic over the cases of `CleanBounds`; no run is needed to reach them.

`GateResolver_proofs`, for any calls, front ends and awaits, any limits, and a child that is patient or not (`GateAssumption`: both limits positive):

| Theorem | States |
|---|---|
| `TypeCorrect`, `GateInvCorrect` | `Spec => []TypeOK`, `Spec => []GateInv` |
| `GivingUpCorrect` | `Spec => []GiveUpStopsRun` |
| `AnswersCorrect` | `Spec => []AnswerDelivered` |
| `RestsAudited` | `Spec => []RestAudited` |
| `GateIsQuestionBox` | `Spec => IsQuestionBox`: the gate implements `QuestionBox` |

`PendingInv` has the pending question's channel empty and its resolver there, so a verdict goes to a call that is still going to look, and to it only. `StopInv`: whoever has told a
waiter that nobody answers is itself on the way through `NeedsInput` (`Stopping`), up to its cancel, so a child that is told the run has stopped was told the truth. `AnswerInv`: what was accepted stays in its channel, and a call
that goes on to rest although it was answered is on the path of elicitation or one of several. `AuditInv`: the entry is written before the rest on one path and after it on the other; hence a rest has its entry
or a resolver about to write it. The refinement goes by effects: each step leaves the questions alone, asks one, resolves one or settles the run (`StepEffect`), and each effect is a
step of `QuestionBox` or a stutter.
The proof showed that two of these properties had been stated with too little: they excluded abandoned calls (`dropped = {}`), but a child that has two calls under way without abandoning one loses an answer,
or has its rest audited twice, in the same way. With `MaxOpen = 2` TLC refutes the old form. `OneCall` (one call at a time *and* none abandoned) is what the argument needs, through `OneInv`: then no two resolvers are at work.

`Supervise_proofs`, for any number of messages, any limits and pipe, every adapter (`SuperviseAssumption`: naturals, a pipe of at least 1):

| Theorem | States |
|---|---|
| `TypeCorrect`, `SuperviseInvCorrect` | `Spec => []TypeOK`, `Spec => []SuperviseInv` |
| `KillsCorrect` | `Spec => []KillsOwnGroup` |
| `NobodyLeft` | `Spec => []LeavesNobody` |
| `OutputWhole` | `Spec => []WholeOutput` |

`IdInv` says who can free the child's id before the supervisor has finished: only a waiter that fell back to `cmd.Wait`. `KillInv` follows the kill through the stages: after an exit that was reaped that way it comes only
after the drain, otherwise it has come before any grace period, and nobody of a dead group can fork it anew. `CountInv` is a conservation law - what was said was kept, waits in the pipe, or was cut - and
`ReaderInv` that a reader which ends by itself leaves an empty pipe. The counts and the types need each other (`TypeOfParts`): that `kept` stays within its bound is a consequence of what was said.

`Bridge_proofs`, for any number of servers and runs (`BridgeAssumption`: `None` is neither):

| Theorem | States |
|---|---|
| `TypeCorrect`, `BridgeInvCorrect` | `Spec => []TypeOK`, `Spec => []BridgeInv` |
| `SweepCorrect` | `Spec => []SweepExact` |
| `RefusalsCorrect` | `Spec => []RefusedLeavesNothing` |
| `ExitsClean` | `Spec => []CleanExit` |

`GateInv` ties the config file to the gate: it is there from the write on, as long as the gate can be dialed and its process lives. `SweepInv`: what a sweep is about to remove (`doomed`) belongs
to a process that has ended, and an orphan is either among the files it has still to look at, in its hand, or gone. `StopInv` carries the same through the loops of the shutdown: at each
deferred call, what has not been closed or discarded yet is in the snapshot the loop works on, unless its call was still in flight (`late`).

`ChangeStore_proofs`, for any runs, handlers, awaits and decisions:

| Theorem | States |
|---|---|
| `TypeCorrect` | `Spec => []TypeInv`: the types, and that no call works on a run it has not been given |
| `WorktreesCorrect` | `Spec => []WorktreesReachable` |
| `KeepsInvCorrect`, `WorkspacesCorrect` | `Spec => []KeepsInv`, and from it `Spec => []LiveKeepsWorkspace` |
| `DiscardsEnded` | what a decision, an await or a handler is about to discard has ended, at each step between the look and the discard |

`WorktreesReachable` is inductive with the types: whoever takes an entry out of the store removes its worktree in the same critical section, or has the handle. `LiveKeepsWorkspace`
is not: nothing is locked between the look at a run and the discard of its entry. `KeepsInv` says what each step in between may rely on, and it is all about runs that *age*: what has settled
stays settled, what has ended has ended for good (`Ages`), and only `Start` brings a run to life, under an id that one handler has chosen (`Distinct`), with a worktree that is already there (`HandlerOK`).
So what the reaper listed, what an await found ended, what an operator accepted and what a handler has labelled has still ended when its worktree goes.

`Writers_proofs`, `Steering`, for any calls and any budget: `TypeCorrect`; `BudgetCorrect` (`AgentBudget`) and `NoticeCorrect` (`NoSilentSteer`), from `SteerInv`: the agent's calls past
`Steer`'s checks are at most `agentSteers`, for each was counted in the step that checked; and a message is in the child's input exactly if its call knows.

`Writers_proofs`, `AuditLog`, for any servers, templates, sizes, retention and bounds (`AuditAssumption`: some and finitely many servers, templates are sequences of elements):

| Theorem | States |
|---|---|
| `AuditTypeCorrect` | `AuditSpec => []AuditTypeOK` |
| `KeptCorrect` | `AuditSpec => []AckedKept` |
| `SilenceCorrect` | `AuditSpec => []AuditsOn` |
| `ShownBound` | what any template that builds shows of the prompt after redaction: at most what it binds to a flag |
| `DigestsCorrect` | `AuditSpec => []DigestsSound` |

The types need `CountInv` (no more keys in the files than lines begun), so that a server which makes a key finds a fresh one. `AckedKept`: `AgeInv` says that a rotated file with *n* newer names has
been followed by more than *n* renames, but for the names that were later than its own when it got it (`ahead`); `DoomInv` that a name which a server has listed as old keeps `RetainFiles` newer ones,
whoever removes and renames since, as the earliest goes first. So a file that is pruned is older than `RetainFiles` (`StaysInv`), whichever of the servers prunes and however late; a line stays where it was
written (`WrittenInv`). The proof showed an exception of the property to be superfluous: an entry after a torn line is glued to it, but it is in the file. `AuditsOn`: while `path` has no file there is a
server that did not run into another's rotation and will not, the one that renamed it or one that was stopped or failed since (`SilenceInv`); every collision leaves that one. `DigestsSound`: unless a key was made beside another (`twoKeys`),
either the key file is whole, and everybody has its key, or nothing was written and at most one server is making a key (`KeyInv`); a kill between truncation and writing leaves the second case.
What an entry shows is an induction over the template. The library's induction theorems take an operator, which the provers cannot instantiate, but well-foundedness does not: `LeastNumber` has a least
counterexample from `WFMin`, `FlattenStep` the recursive function behind `FlattenSeq`, and `FlattenPlaces` that each element of a flattened sequence has a place of its own in one of the parts.

`Operator_proofs`, `Panel`, for any panels, callers, questions and events:

| Theorem | States |
|---|---|
| `PanelTypeCorrect` | `PanelSpec => []PanelTypeOK` |
| `AnswersCorrect` | `PanelSpec => []AnswersWhatWasRead` |
| `FeedCorrect` | `PanelSpec => []FeedComplete` |

`AnswerInv`: a request that is on its way, late or not, names the question its sender had read or its lookup found, or is a continuation of a run that is at rest after that question (`Faithful`); a draft was begun for the question on screen, and a
screen that shows a rest shows the last question (`ScreenInv`). A run at rest asks nothing more, so both survive every delay. `FeedInv`: a second copy of an event only of what the panel has gone past,
and between the size and the events nothing beyond that size.

`Operator_proofs`, `Control`, for any servers, runs and (finitely many) commands:

| Theorem | States |
|---|---|
| `ControlTypeCorrect` | `ControlSpec => []ControlTypeOK` |
| `ArrivesCorrect` | `ControlSpec => []CommandArrives` |
| `WatchersCorrect` | `ControlSpec => []WatchersExact` |

`IndexInv`: as long as rewrites have not overlapped, one server rewrites at a time, and what it holds, has written to the temporary file and is about to rename names every server that is up (`Ready`), across crashes at
each of these steps. `WalkInv`: a command that nothing has disturbed has the owner still before it, or is asking it. `WatchInv`: only a watcher's connection is attached, and its server answers as long as
its process is there; a step changes one connection, and the counts of its old and its new target.

`Operator_proofs`, `NamedPipe`, for any bound on the moves of a deadline and any directions that have one: `PipeTypeCorrect`; `DeadlinesCorrect` (`DeadlineExact`), from `TimerInv`: a timer that is about to fire is
of this generation only if the deadline has passed; `HandlesCorrect` (`HandleSafe`), from `PipeInv`: once `Close` has had the write lock no operation is inside (`LockInv`), and whoever is about to
close the handle is alone and finds it open (`HandleInv`).

Each `...Inv` that a proof uses was checked by TLC as an invariant of its module's run before it was proved.

**Only model-checked**: every invariant that a passing run checks is also a theorem, and so is every action property and both refinements. Out of the prover's reach, and left to TLC: liveness, fairness and
`ENABLED`, hence `CallsEnd`, `TurnEnds`, `DrainEnds`, `BlockedSteerEndsRun`, `PanelFollows`, `NothingHangs`. `WorkHandedOn` is an action property that the code violates (section 5).

## 5. Findings

One is a run with one property that TLC finds violated; the trace is the explanation.

- `store_handon`: `ContinueFrom` checks the successor out from the predecessor's base unless it has just made a commit. If the work was committed already (an earlier
  attempt's `Start` failed after `ContinueFrom`, or the predecessor itself carried on from a commit and changed nothing), the tree is clean, the successor starts without the work, and the branch that had
  it is removed. `docs/02-architecture.md:233` promises the chain's cumulative work.

What was met besides, and is in the model the way the code has it; a reader who expects otherwise would look for it here.

- *Terminal runs with a child* (`continuation.go:107`, expiry): a run that rests and is then superseded, or expires, is terminal before its supervisor has killed the child, while
  `docs/11-domain-model.md` invariant 1 says that no terminal run has a live child. `OnlyRestLeavesAChild` is the part that holds.
- *First message* (`exec.go:208`, `280`): it is written before the timeout timer exists. A child that does not read a prompt larger than the pipe's buffer is bounded by nothing and keeps its slot.
- *Shutdown*: `run.go:611` says "No run outlives its server", but `CancelAll` waits for nobody and `main` returns, so supervisors may be gone before they have killed
  their groups; and a run whose `r.cancel` is not set yet is missed (`exec.go:143-148`).
- *`prompt: stdin`*: `cmd.Wait` also waits for the copy of the prompt, which a descendant outside the group can hold up for ever; `DrainEnds` excludes that adapter.
- *Drain* (`exec.go:455`): readers that ended because `drainReaders` closed their files count as finished, so output is dropped without `truncated`; nor does overflow of the transcript say so. `WholeOutput` names both.
- *`DenyQuestion` names no question* (`question.go:157`): after the child has abandoned a call and asked again, the first resolver's timeout refuses the second question.
- *`question.answered`* is also audited for the verdict that a settling run sends to its waiter.
- *Elicitation* (`resolver.go:94-113`): an answer given with `bridge answer` while the host is elicited is accepted and then dropped; `AnswerDelivered` says what happens on each path.
- *Gates*: the gate of a run that nobody awaits is closed only at shutdown; `closeAllGates` and `discardAll` work on snapshots, so a call still in flight slips through (`late` in `Bridge`).
- *Two diffs*: for a predecessor that expired, instead of being superseded, `collect` may register a diff beside its successor's. `reapAbandonedWorktrees` does not itself respect the retention window.
- *Steering* (`steer.go:113-130`): the pending-question check and the send are two steps, so guidance may reach a child that asked in between (`docs/10:98-100`).
- *Switches*: `registerTools` reads `steer_agent` once from the config, and only `Status` and `interactiveEnabled` ask `FeatureEnabled`; disabling any other feature has no effect on a running server (FR-7.2,
  `docs/01:198`, `docs/02:79`, `docs/03:110`). A switch and its audit entry are two steps.
- *Policy*: a continuation that policy refuses writes no `run.refused` (`continuation.go:133-141`; FR-8.3, `docs/01:213`). The limiter counts attempts it let through, also those refused later; it bounds
  attempts, not starts, which may bunch. A continuation drops the caller's model. `on_concurrency_limit: queue` is not implemented.
- *Index*: overlapping rewrites through one temporary name lose an entry, and make a server fail to start (`docs/02:388`). `CommandArrives` is stated without overlap.
- *Panel*: the client's decoder keeps its first error (`client.go:51`), so a panel that timed out once stays as it was; the feed may show an event twice (`tui/watch.go:342-378`).
  `bridge stop` reports "no live server owns run" after a timeout too.
- *`bridge answer`* (`accept.go:44-53`): the comment says that looking the pending question up "right before it answers" keeps a stale invocation, "typed against a question the
  operator already saw resolved", from landing on the question that replaced it. It does if the replacement comes after the lookup. The text is an argument (`accept.go:58`), so if the replacement came
  before, the lookup finds the new question and the old text answers it, or seeds its continuation. `AnswersWhatWasRead` has `found` for this case: without it TLC refutes the property.
- *Audit* (`audit.go:173-190`): the second of two servers that rotate at once finds `path` missing, keeps a closed file and never audits again, and no caller looks at the error
  (`docs/11-domain-model.md`, invariant 5: a run with no terminal entry is a fault). Two rotations within one second overwrite the first rotated file; a server that reads the clock (`audit.go:177`) and
  renames after another's rotation gives a newer file the older name, and "the timestamp format sorts chronologically" (`audit.go:196`) then has it pruned too early; a server's handle
  may be of a file that was renamed or removed; an entry after a torn line is glued to it; on Windows a file that another server has open cannot be renamed. Two servers that
  start for the first time may digest with different keys, and one that cannot read a whole key replaces it (`audit.go:215`), while `Options.KeyFile` says "created if absent". The properties name what is left;
  without its exceptions (`clobbered`, `ahead`; `twoKeys`) TLC refutes `AckedKept` and `DigestsSound`.
- *Prompt in the audit log* (`audit.go:38`, `docs/01` FR-11.2): only an argument that is the prompt by itself is digested, so a template `--flag={{prompt}}` logs it.
- *Loader and builder*: a placeholder inside a larger string loads, and then every call is refused. The rules never ask that `invoke.args` mentions `{{sandbox_flags}}` or `{{gate_flags}}` (only
  `resume_invoke` for the latter, rule 19), so an adapter labelled sandboxed may be started without its flags. Rule 15 in `schema/config.schema.json:460` requires `resume_sandbox`; the
  code is content with `{{sandbox_flags}}` in `resume_invoke`. Rule 16 accepts `close_stdin_after: never`. Rule 5 looks at the adapter's own mode, so a narrowed call
  may be refused when it is built. A rate of 0 cannot be written, and one left out means 20.
- *Pipe*: an operation that cannot be cancelled closes the handle under the other direction or `Close`, which `pipe_windows.go:412-415` excludes. A server's `Close` waits in
  `FlushFileBuffers` for a client that neither reads nor leaves. A read that `Close` cancels may return the system's error instead of `net.ErrClosed`. Not in a model: the listener makes no instance before
  the first `Accept`, so a sweep that dials for 200 ms relies on its being quick.
- *Transcript*: `buildSpec` does not close it when a later step fails.

## 6. Plan

The order was: `Run`, `RunRegistry`, `SlotPool`; `GateResolver`, `QuestionBox`; `ChangeStore`; `Supervise`; `Steering`; `Bridge`; `Panel`; `Control`; `Policy`; theorems on `RunRegistry` and `Policy`;
`Argv`, `AuditLog`; `NamedPipe`; `Sanitize` with its theorems; `Loader` beneath `Policy`, and the theorems about both; the theorems on `ChangeStore`, `Panel`, `Control` and `AuditLog`.
All of that is there. What could come next: the pipe's listener; the reader that splits a child's output into lines and drops what is too long; `ChangeStore` against an abstract owner of worktrees.

### Not modelled

Reading, decoding and checking the configuration file against the schema and its permissions, and `bridge validate`, which reports on the rules `Loader` has (one file, read sequentially); sockets, peer credentials, the
path guard and job objects (system calls, external: the modules use what they promise); vendors' event formats and flags; drawing; the doctor report; the test agent. `PROJECT.json` says of each
component what is left out.
