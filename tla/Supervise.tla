----------------------------- MODULE Supervise -----------------------------
(***************************************************************************)
(* One run from the fork of its child to finish: the supervisor goroutine, *)
(* the goroutine that waits for the exit, the reader of the child's output *)
(* and the processes at the other end of the pipes.                        *)
(*                                                                         *)
(* stdout and stderr are one pipe here, of which stdout's content counts.  *)
(* An item is one event, or for a basic-tier adapter one piece of output.  *)
(* helper stands for the processes that the child leaves behind: "group"   *)
(* is still in its process group, "escaped" is not (setsid).  Both have    *)
(* inherited the child's pipes.  KillAll is taken to succeed.  A panic in  *)
(* the supervisor is left out.                                             *)
(***************************************************************************)
EXTENDS Naturals, Sequences

CONSTANTS
    MaxItems,  \* bound: items the child and its helper write
    PipeSize,  \* items that fit into the pipe
    Keep,      \* MaxOutput, in items
    Limit      \* max_transcript_bytes, in events

ASSUME SuperviseAssumption ==
    /\ {MaxItems, Keep, Limit} \subseteq Nat
    /\ PipeSize \in Nat \ {0}

VARIABLES
    adapter,   \* Spec: how the prompt is given, and what the platform can do
    state,     \* Run.state, and the truncated flag of the result
    truncated,
    ctxDone,   \* r.Cancel has been called
    sup,       \* the supervisor's next step
    cause,     \* which case its select took
    leader,    \* the child
    helper,    \* the child's descendants
    waiter,    \* the goroutine that waits for the exit
    fellBack,  \* leaderReaped
    stray,     \* KillAll has signalled a process group whose id was free
    pipe,      \* written and not yet read
    reader,    \* the goroutine that reads it
    said,      \* messages written to the pipe
    turnOver,  \* the record that ends the turn has been written to it
    kept,      \* messages in outBuf
    cut,       \* streamEvents' or drain's truncated
    stuck,     \* readersStuck
    forced,    \* drainReaders has closed the read ends
    logged,    \* events in the transcript
    overflow,  \* transcriptOverflow
    logFailed, \* transcriptFailed
    stdin      \* the child's input: the prompt being copied, or the steering channel

outputVars == <<pipe, reader, said, turnOver, kept, cut, logged, overflow, logFailed>>
processVars == <<leader, helper, stray>>
waitVars == <<waiter, fellBack>>
resultVars == <<state, truncated>>
drainVars == <<stuck, forced>>
vars == <<adapter, resultVars, ctxDone, sup, cause, processVars, waitVars,
          outputVars, drainVars, stdin>>

-----------------------------------------------------------------------------
(* Types *)

(* prompt: argv, copied to stdin by os/exec, or the first message of a     *)
(* channel that stays open.  waits: the platform has an ExitWaiter.        *)
(* parses: full tier and events on.  A stream-json child without it is     *)
(* legal; nobody then sees its turn end, and it runs into the timeout.     *)
Adapter == [prompt : {"argv", "stdin", "stream"}, waits : BOOLEAN, parses : BOOLEAN]

Item == {"message", "result"}

Finished == {"completed", "failed", "cancelled"}

TypeOK ==
    /\ adapter \in Adapter
    /\ state \in Finished \cup {"running", "needs_input"}
    /\ sup \in {"spawn", "bind", "abort", "select", "grace1", "grace2", "grace3",
                "drained", "reap", "done"}
    /\ cause \in {"none", "exited", "timeout", "cancelled"}
    /\ leader \in {"unborn", "running", "zombie", "reaped"}
    /\ helper \in {"none", "group", "escaped", "gone"}
    /\ waiter \in {"unborn", "waiting", "reaping", "copying", "exited"}
    /\ pipe \in Seq(Item) /\ Len(pipe) <= PipeSize
    /\ reader \in {"unborn", "reading", "ended"}
    /\ {said, kept} \subseteq 0..MaxItems
    /\ logged \in 0..MaxItems + 1
    /\ {truncated, ctxDone, fellBack, stray, cut, stuck, forced, overflow, logFailed,
        turnOver} \subseteq BOOLEAN
    /\ stdin \in {"none", "copying", "open", "closed"}

Init ==
    /\ adapter \in Adapter
    /\ state = "running" /\ truncated = FALSE /\ ctxDone = FALSE
    /\ sup = "spawn" /\ cause = "none"
    /\ leader = "unborn" /\ helper = "none"
    /\ waiter = "unborn" /\ fellBack = FALSE /\ stray = FALSE
    /\ pipe = <<>> /\ reader = "unborn"
    /\ said = 0 /\ kept = 0 /\ logged = 0
    /\ turnOver = FALSE /\ cut = FALSE /\ stuck = FALSE /\ forced = FALSE
    /\ overflow = FALSE /\ logFailed = FALSE
    /\ stdin = "none"

-----------------------------------------------------------------------------
(* Helpers *)

(* Who has the other ends of the pipes.                                    *)
Alive == leader = "running" \/ helper \in {"group", "escaped"}

(* group.KillAll signals the group of the child's pid.                     *)
KillAll ==
    /\ leader' = IF leader = "running" THEN "zombie" ELSE leader
    /\ helper' = IF helper = "group" THEN "gone" ELSE helper
    /\ stray' = (stray \/ leader = "reaped")

(* finish: the first settled state wins.                                   *)
Finish(outcome, short) ==
    IF state = "running" THEN state' = outcome /\ truncated' = short
    ELSE UNCHANGED resultVars

Goto(step) == sup' = step

-----------------------------------------------------------------------------
(* Starting the child *)

SpawnFails ==
    /\ sup = "spawn"
    /\ Finish("failed", FALSE)
    /\ Goto("done")
    /\ UNCHANGED <<adapter, ctxDone, cause, processVars, waitVars, outputVars, drainVars, stdin>>

Spawn ==
    /\ sup = "spawn"
    /\ leader' = "running"
    /\ stdin' = CASE adapter.prompt = "argv" -> "none"
                  [] adapter.prompt = "stdin" -> "copying"
                  [] adapter.prompt = "stream" -> "open"
    /\ Goto("bind")
    /\ UNCHANGED <<adapter, resultVars, ctxDone, cause, helper, stray, waitVars, outputVars, drainVars>>

(* AfterStart or the first message fails: kill, close the readers, wait.   *)
BindFails ==
    /\ sup = "bind"
    /\ KillAll
    /\ reader' = "ended"
    /\ Goto("abort")
    /\ UNCHANGED <<adapter, resultVars, ctxDone, cause, waitVars, pipe, said, turnOver, kept, cut,
                   logged, overflow, logFailed, drainVars, stdin>>

Abort ==
    /\ sup = "abort"
    /\ leader = "zombie" /\ stdin # "copying"
    /\ leader' = "reaped"
    /\ Finish("failed", FALSE)
    /\ stdin' = IF stdin = "open" THEN "closed" ELSE stdin
    /\ Goto("done")
    /\ UNCHANGED <<adapter, ctxDone, cause, helper, stray, waitVars, outputVars, drainVars>>

(* The readers and the waiter are started. Without an ExitWaiter the       *)
(* waiter reaps at once.                                                   *)
Begin ==
    /\ sup = "bind"
    /\ reader' = "reading"
    /\ waiter' = IF adapter.waits THEN "waiting" ELSE "reaping"
    /\ fellBack' = ~adapter.waits
    /\ Goto("select")
    /\ UNCHANGED <<adapter, resultVars, ctxDone, cause, processVars, pipe, said, turnOver, kept, cut,
                   logged, overflow, logFailed, drainVars, stdin>>

-----------------------------------------------------------------------------
(* Processes *)

(* A holder of the write end can write while there is a read end.          *)
Readable == reader # "ended" /\ ~forced /\ sup # "done"

Say ==
    /\ Alive /\ Readable
    /\ said < MaxItems /\ Len(pipe) < PipeSize
    /\ pipe' = Append(pipe, "message")
    /\ said' = said + 1
    /\ UNCHANGED <<adapter, resultVars, ctxDone, sup, cause, processVars, waitVars, reader,
                   turnOver, kept, cut, logged, overflow, logFailed, drainVars, stdin>>

EndTurn ==
    /\ leader = "running" /\ Readable
    /\ adapter.parses /\ ~turnOver
    /\ Len(pipe) < PipeSize
    /\ pipe' = Append(pipe, "result")
    /\ turnOver' = TRUE
    /\ UNCHANGED <<adapter, resultVars, ctxDone, sup, cause, processVars, waitVars, reader,
                   said, kept, cut, logged, overflow, logFailed, drainVars, stdin>>

Exit ==
    /\ leader = "running"
    /\ leader' = "zombie"
    /\ UNCHANGED <<adapter, resultVars, ctxDone, sup, cause, helper, stray, waitVars,
                   outputVars, drainVars, stdin>>

(* Where there is an ExitWaiter, groups are POSIX ones, which a process can *)
(* leave; elsewhere they are job objects.                                  *)
Fork(where) ==
    /\ leader = "running" /\ helper = "none"
    /\ where = "escaped" => adapter.waits
    /\ helper' = where
    /\ UNCHANGED <<adapter, resultVars, ctxDone, sup, cause, leader, stray, waitVars,
                   outputVars, drainVars, stdin>>

HelperExits ==
    /\ helper \in {"group", "escaped"}
    /\ helper' = "gone"
    /\ UNCHANGED <<adapter, resultVars, ctxDone, sup, cause, leader, stray, waitVars,
                   outputVars, drainVars, stdin>>

(* os/exec's copy of the prompt ends when it has been read, or when nobody *)
(* is left to read it.                                                     *)
PromptRead ==
    /\ stdin = "copying"
    /\ Alive
    /\ stdin' = "closed"
    /\ UNCHANGED <<adapter, resultVars, ctxDone, sup, cause, processVars, waitVars,
                   outputVars, drainVars>>

PromptBroken ==
    /\ stdin = "copying"
    /\ ~Alive
    /\ stdin' = "closed"
    /\ UNCHANGED <<adapter, resultVars, ctxDone, sup, cause, processVars, waitVars,
                   outputVars, drainVars>>

-----------------------------------------------------------------------------
(* The reader *)

Bug_StopAtFailedWrite ==
    \/ logFailed' = TRUE /\ reader' = "ended" /\ UNCHANGED <<logged, overflow, ctxDone>>
    \/ /\ logged' = logged + 1
       /\ overflow' = (logged + 1 > Limit)
       /\ ctxDone' = (ctxDone \/ logged + 1 > Limit)
       /\ reader' = IF logged + 1 > Limit THEN "ended" ELSE reader
       /\ UNCHANGED logFailed

(* record: after a failed write nothing is written; beyond the limit the   *)
(* run is cancelled and the stream is left.                                *)
Record ==
    IF logFailed THEN UNCHANGED <<logged, overflow, logFailed, ctxDone, reader>>
    ELSE \/ logFailed' = TRUE /\ UNCHANGED <<logged, overflow, ctxDone, reader>>
         \/ /\ logged' = logged + 1
            /\ overflow' = (logged + 1 > Limit)
            /\ ctxDone' = (ctxDone \/ logged + 1 > Limit)
            /\ reader' = IF logged + 1 > Limit THEN "ended" ELSE reader
            /\ UNCHANGED logFailed

(* A message goes to the buffer up to its cap.  A line that turns out to   *)
(* be oversized is dropped.                                                *)
Store(item) ==
    \/ item = "result" /\ UNCHANGED <<kept, cut>>
    \/ item = "message" /\ kept < Keep /\ kept' = kept + 1 /\ UNCHANGED cut
    \/ item = "message" /\ (kept = Keep \/ adapter.parses) /\ cut' = TRUE /\ UNCHANGED kept

(* streamEvents takes an event, drain a chunk.  close_stdin_after: result  *)
(* closes a stream-json child's input, before the result is recorded.      *)
Read ==
    /\ reader = "reading" /\ pipe # <<>> /\ ~forced
    /\ pipe' = Tail(pipe)
    /\ Store(Head(pipe))
    /\ stdin' = IF Head(pipe) = "result" /\ stdin = "open" THEN "closed" ELSE stdin
    /\ IF adapter.parses THEN Record
       ELSE UNCHANGED <<logged, overflow, logFailed, ctxDone, reader>>
    /\ UNCHANGED <<adapter, resultVars, sup, cause, processVars, waitVars, said, turnOver,
                   drainVars>>

(* End of file, or of the read end. *)
ReaderEnds ==
    /\ reader = "reading"
    /\ forced \/ (pipe = <<>> /\ ~Alive)
    /\ reader' = "ended"
    /\ UNCHANGED <<adapter, resultVars, ctxDone, sup, cause, processVars, waitVars, pipe, said, turnOver,
                   kept, cut, logged, overflow, logFailed, drainVars, stdin>>

-----------------------------------------------------------------------------
(* The waiter *)

WaitExitReturns ==
    /\ waiter = "waiting" /\ leader = "zombie"
    /\ waiter' = "exited"
    /\ UNCHANGED <<adapter, resultVars, ctxDone, sup, cause, processVars, fellBack,
                   outputVars, drainVars, stdin>>

WaitExitFails ==
    /\ waiter = "waiting"
    /\ waiter' = "reaping" /\ fellBack' = TRUE
    /\ UNCHANGED <<adapter, resultVars, ctxDone, sup, cause, processVars, outputVars,
                   drainVars, stdin>>

(* cmd.Wait reaps the child, then waits for the copy of the prompt.        *)
WaiterReaps ==
    /\ waiter = "reaping" /\ leader = "zombie"
    /\ leader' = "reaped" /\ waiter' = "copying"
    /\ UNCHANGED <<adapter, resultVars, ctxDone, sup, cause, helper, stray, fellBack,
                   outputVars, drainVars, stdin>>

WaiterReturns ==
    /\ waiter = "copying" /\ stdin # "copying"
    /\ waiter' = "exited"
    /\ UNCHANGED <<adapter, resultVars, ctxDone, sup, cause, processVars, fellBack,
                   outputVars, drainVars, stdin>>

-----------------------------------------------------------------------------
(* The supervisor's select, the drain and the reap *)

(* Cancel, from whoever asks for it. *)
Cancel ==
    /\ ~ctxDone
    /\ ctxDone' = TRUE
    /\ UNCHANGED <<adapter, resultVars, sup, cause, processVars, waitVars, outputVars,
                   drainVars, stdin>>

(* NeedsInput, when a question stays unanswered.  The call of r.cancel at  *)
(* its end is one more Cancel.                                             *)
Rest ==
    /\ state = "running" /\ leader = "running"
    /\ state' = "needs_input"
    /\ UNCHANGED <<adapter, truncated, ctxDone, sup, cause, processVars, waitVars, outputVars,
                   drainVars, stdin>>

Bug_ReapFirst ==
    /\ sup = "select" /\ waiter = "exited"
    /\ cause' = "exited"
    /\ leader' = "reaped" /\ UNCHANGED <<helper, stray>>
    /\ Goto("grace1")
    /\ UNCHANGED <<adapter, resultVars, ctxDone, waitVars, outputVars, drainVars, stdin>>

Bug_NoDrain ==
    /\ sup = "select" /\ waiter = "exited"
    /\ cause' = "exited"
    /\ IF fellBack THEN UNCHANGED processVars ELSE KillAll
    /\ Goto("drained")
    /\ UNCHANGED <<adapter, resultVars, ctxDone, waitVars, outputVars, drainVars, stdin>>

(* The zombie reserves the group's id: kill first.  Once it is reaped, the *)
(* readers have their grace before the group may be signalled.             *)
SeesExit ==
    /\ sup = "select" /\ waiter = "exited"
    /\ cause' = "exited"
    /\ IF fellBack THEN UNCHANGED processVars ELSE KillAll
    /\ Goto("grace1")
    /\ UNCHANGED <<adapter, resultVars, ctxDone, waitVars, outputVars, drainVars, stdin>>

TimesOut ==
    /\ sup = "select"
    /\ cause' = "timeout"
    /\ KillAll
    /\ Goto("grace1")
    /\ UNCHANGED <<adapter, resultVars, ctxDone, waitVars, outputVars, drainVars, stdin>>

SeesCancel ==
    /\ sup = "select" /\ ctxDone
    /\ cause' = "cancelled"
    /\ KillAll
    /\ Goto("grace1")
    /\ UNCHANGED <<adapter, resultVars, ctxDone, waitVars, outputVars, drainVars, stdin>>

ReadersDone ==
    /\ sup \in {"grace1", "grace2", "grace3"}
    /\ reader = "ended"
    /\ Goto("drained")
    /\ UNCHANGED <<adapter, resultVars, ctxDone, cause, processVars, waitVars, outputVars,
                   drainVars, stdin>>

Bug_NeverClose ==
    /\ reader # "ended"
    /\ sup = "grace1" /\ KillAll /\ Goto("grace2")
    /\ UNCHANGED <<adapter, resultVars, ctxDone, cause, waitVars, outputVars, drainVars, stdin>>

(* drainReaders: kill the group, close the read ends, give up.  A grace    *)
(* period is long enough for it to see readers that have ended.            *)
GraceOver ==
    /\ reader # "ended"
    /\ \/ sup = "grace1" /\ KillAll /\ Goto("grace2") /\ UNCHANGED drainVars
       \/ sup = "grace2" /\ forced' = TRUE /\ Goto("grace3") /\ UNCHANGED <<processVars, stuck>>
       \/ sup = "grace3" /\ stuck' = TRUE /\ Goto("drained") /\ UNCHANGED <<processVars, forced>>
    /\ UNCHANGED <<adapter, resultVars, ctxDone, cause, waitVars, outputVars, stdin>>

Bug_NoLateKill ==
    /\ sup = "drained"
    /\ Goto("reap")
    /\ UNCHANGED <<adapter, resultVars, ctxDone, cause, processVars, waitVars, outputVars,
                   drainVars, stdin>>

Drained ==
    /\ sup = "drained"
    /\ IF cause = "exited" /\ fellBack THEN KillAll ELSE UNCHANGED processVars
    /\ Goto("reap")
    /\ UNCHANGED <<adapter, resultVars, ctxDone, cause, waitVars, outputVars, drainVars, stdin>>

Outcome ==
    CASE cause = "exited" -> {"completed", "failed"}
      [] cause = "timeout" -> {"failed"}
      [] cause = "cancelled" -> {"cancelled"}

(* reap waits for the waiter, and calls cmd.Wait if that has not; then the *)
(* run is settled, and the deferred calls close what is open.              *)
Reap ==
    /\ sup = "reap" /\ waiter = "exited"
    /\ fellBack \/ stdin # "copying"
    /\ leader' = "reaped"
    /\ \E outcome \in Outcome : Finish(outcome, cut \/ stuck)
    /\ stdin' = IF stdin = "open" THEN "closed" ELSE stdin
    /\ Goto("done")
    /\ UNCHANGED <<adapter, ctxDone, cause, helper, stray, waitVars, outputVars, drainVars>>

-----------------------------------------------------------------------------

Start == SpawnFails \/ Spawn \/ BindFails \/ Abort \/ Begin
Processes ==
    \/ Say \/ EndTurn \/ Exit \/ HelperExits
    \/ \E where \in {"group", "escaped"} : Fork(where)
    \/ PromptRead \/ PromptBroken
Reader == Read \/ ReaderEnds
Waiter == WaitExitReturns \/ WaitExitFails \/ WaiterReaps \/ WaiterReturns
Supervisor ==
    \/ SeesExit \/ TimesOut \/ SeesCancel
    \/ ReadersDone \/ GraceOver \/ Drained \/ Reap

Next == Start \/ Processes \/ Reader \/ Waiter \/ Supervisor \/ Cancel \/ Rest

Spec == Init /\ [][Next]_vars

(* The supervisor and the waiter make progress, a pipe without readers     *)
(* ends the copy, and a closed input ends a child whose turn is over.      *)
FairSpec ==
    /\ Spec
    /\ WF_vars(Abort)
    /\ WF_vars(WaitExitReturns) /\ WF_vars(WaiterReaps) /\ WF_vars(WaiterReturns)
    /\ WF_vars(SeesExit \/ SeesCancel)
    /\ WF_vars(ReadersDone \/ GraceOver \/ Drained \/ Reap)
    /\ WF_vars(PromptBroken)
    /\ WF_vars(Exit /\ turnOver /\ stdin = "closed")

ReaderRuns == WF_vars(Reader)
TimerFires == WF_vars(SeesExit \/ SeesCancel \/ TimesOut)

-----------------------------------------------------------------------------
(* Properties *)

(* docs/11 invariant 1: only after a failed wait (or where there is none)  *)
(* can the kill reach a group that has reused the child's id.              *)
KillsOwnGroup == stray => fellBack

(* docs/11 invariant 1, for a supervisor that has reported: the child is   *)
(* reaped and nothing of its process group is left.                        *)
LeavesNobody ==
    sup = "done" => leader \in {"unborn", "reaped"} /\ helper # "group"

(* FR-12.5: an exit discards no output.  A run that completed and does not *)
(* say truncated has every message, unless the transcript's limit stopped  *)
(* the reader or the drain closed it: in those two cases the code drops    *)
(* output without saying so.                                               *)
WholeOutput ==
    (state = "completed" /\ ~truncated /\ ~overflow /\ ~forced) => kept = said

-----------------------------------------------------------------------------
(* The inductive invariant behind these, part by part *)

HasResult == \E i \in DOMAIN pipe : pipe[i] = "result"

(* The messages that wait in the pipe.                                     *)
Unread == Len(pipe) - (IF HasResult THEN 1 ELSE 0)

(* What was said is kept, waits, or was cut; a turn ends once; the         *)
(* transcript has at most what was read.                                   *)
CountInv ==
    /\ HasResult => turnOver
    /\ \A i, j \in DOMAIN pipe : pipe[i] = "result" /\ pipe[j] = "result" => i = j
    /\ kept + Unread <= said
    /\ ~cut => kept + Unread = said
    /\ logged + Len(pipe) <= said + (IF turnOver THEN 1 ELSE 0)

(* A reader that ended by itself has read everything.                      *)
ReaderInv ==
    /\ reader = "ended" => overflow \/ forced \/ waiter = "unborn" \/ pipe = <<>>
    /\ sup \in {"drained", "reap"} => reader = "ended" \/ stuck
    /\ state = "completed" /\ ~truncated => reader = "ended" /\ ~cut /\ waiter # "unborn"

(* Which of the three the supervisor has started, and what it has seen.    *)
StageInv ==
    /\ sup \in {"spawn", "bind", "abort"} => waiter = "unborn"
    /\ sup \in {"grace1", "grace2", "grace3", "drained", "reap"} => cause # "none"
    /\ sup \in {"spawn", "bind", "abort", "select"} => cause = "none"
    /\ cause = "exited" => waiter = "exited"
    /\ sup = "spawn" => leader = "unborn"
    /\ leader = "unborn" => sup \in {"spawn", "done"} /\ helper = "none"

(* Only a waiter that has fallen back to cmd.Wait frees the child's id     *)
(* before the supervisor has finished.                                     *)
IdInv ==
    /\ KillsOwnGroup
    /\ waiter = "unborn" => ~fellBack
    /\ waiter \in {"reaping", "copying"} => fellBack
    /\ leader = "reaped" /\ sup # "done" => fellBack
    /\ leader = "reaped" => sup \notin {"bind", "abort"}

(* Nothing of the group is left, and nobody who could fork it anew.        *)
GroupDead == leader # "running" /\ helper # "group"

(* When the supervisor has killed the group: at once, but after an exit    *)
(* that was reaped only when the readers have had their grace.             *)
KillInv ==
    /\ LeavesNobody
    /\ sup \in {"abort", "grace2", "grace3", "reap", "done"} => GroupDead
    /\ sup \in {"grace1", "drained"} => GroupDead \/ (cause = "exited" /\ fellBack)

SuperviseInv ==
    TypeOK /\ CountInv /\ ReaderInv /\ StageInv /\ IdInv /\ KillInv

-----------------------------------------------------------------------------
(* Liveness *)

(* FR-12.3: the end of a stream-json child's turn ends the child, also     *)
(* when its transcript can no longer be written, without the timeout.      *)
TurnEnds ==
    ReaderRuns =>
        ((turnOver /\ adapter.prompt = "stream" /\ reader = "reading") ~> (leader # "running"))

(* FR-12.5: a run never hangs on a descendant; holding the output cannot   *)
(* delay it beyond the drain's budget, nor can readers that stand still.   *)
(* A prompt that os/exec copies to stdin is another matter: cmd.Wait also  *)
(* waits for that copy.                                                    *)
DrainEnds ==
    TimerFires => ((sup = "select" /\ adapter.prompt # "stdin") ~> (sup = "done"))

=============================================================================
