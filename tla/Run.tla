-------------------------------- MODULE Run --------------------------------
(***************************************************************************)
(* One delegated execution: the record internal/run keeps for it and what  *)
(* each method does to that record.  Every method of *Run holds r.mu for   *)
(* its whole state change, so each is one operator from a record to a      *)
(* record; the modules that have runs as a variable apply them in actions. *)
(*                                                                         *)
(* Time is abstract: a deadline is ahead or has passed, and a finished run *)
(* is or is not older than the retention window.  Output, failure text and *)
(* diagnostics are left out: nothing branches on them.                     *)
(*                                                                         *)
(* A verdict is sent after r.mu is released (finish, NeedsInput, expiry).  *)
(* Its channel has a buffer of one and only the caller that took it out of *)
(* the record sends on it, so the send cannot block and the reader can     *)
(* only wait for it: it is modelled in the same step as the state change.  *)
(***************************************************************************)
EXTENDS Naturals

CONSTANTS
    RunId,     \* run ids the bridge can mint
    Question,  \* question ids the bridge can mint (mintQuestionID)
    None       \* no question, no run

ASSUME NoneAssumption == None \notin RunId /\ None \notin Question

(* "unstarted" is an id Start has not yet made a Run for. *)
States == {"unstarted", "running", "completed", "failed", "cancelled",
           "needs_input", "superseded"}

(* State.IsTerminal. "refused" is declared but nothing sets it. *)
IsTerminal(s) == s \in {"completed", "failed", "cancelled", "superseded"}

(* The guard finish, NeedsInput and Ask share: no longer running. *)
Settled(s) == IsTerminal(s) \/ s = "needs_input"

(***************************************************************************)
(* pending  the question the child blocks on, and its open verdict channel *)
(* asked    lastQuestion is set                                            *)
(* deadline of the needs_input rest; "unset" is the zero time              *)
(* aged     Finished is further back than the retention window             *)
(* done     r.done is closed                                               *)
(* rec      the continuation record is attached; links is its Depth        *)
(* cancel   r.cancel is set; stopped is that context being cancelled       *)
(* owes     a NeedsInput that has released r.mu has still to call r.cancel  *)
(***************************************************************************)
RunRecord ==
    [state       : States,
     retiring    : BOOLEAN,
     pending     : Question \cup {None},
     asked       : BOOLEAN,
     deadline    : {"unset", "ahead", "passed"},
     aged        : BOOLEAN,
     done        : BOOLEAN,
     rec         : BOOLEAN,
     links       : Nat,
     resumedFrom : RunId \cup {None},
     resumedBy   : RunId \cup {None},
     cancel      : BOOLEAN,
     stopped     : BOOLEAN,
     owes        : BOOLEAN]

NoRun ==
    [state |-> "unstarted", retiring |-> FALSE, pending |-> None,
     asked |-> FALSE, deadline |-> "unset", aged |-> FALSE, done |-> FALSE,
     rec |-> FALSE, links |-> 0, resumedFrom |-> None, resumedBy |-> None,
     cancel |-> FALSE, stopped |-> FALSE, owes |-> FALSE]

(* Bug_ operators, here and in the modules that use this one, are mutated  *)
(* forms of the definition that follows.  Nothing uses them; PROJECT.json  *)
(* says which property each one breaks.                                    *)
Bug_DepthNotCarried(pred, depth) ==
    [NoRun EXCEPT !.state = "running", !.rec = TRUE, !.resumedFrom = pred]

(* The Run that Start builds from a Spec: it always carries a record. *)
NewRun(pred, depth) ==
    [NoRun EXCEPT !.state = "running", !.rec = TRUE, !.links = depth,
                  !.resumedFrom = pred]

(* countsAsLive: the run occupies a max_concurrent_runs slot. *)
CountsAsLive(r) == /\ r.state \in {"running", "needs_input"}
                   /\ ~r.retiring

Retire(r) == [r EXCEPT !.retiring = TRUE]

(* Cancel does nothing while r.cancel is nil. *)
Cancel(r) == [r EXCEPT !.stopped = @ \/ r.cancel]

Bug_FinishResting(r, outcome) ==
    IF IsTerminal(r.state) THEN r
    ELSE [r EXCEPT !.state = outcome, !.done = TRUE, !.pending = None]

(* finish: the first settled state wins, and a question that is still      *)
(* pending is released with it.                                            *)
Finish(r, outcome) ==
    IF Settled(r.state) THEN r
    ELSE [r EXCEPT !.state = outcome, !.done = TRUE, !.pending = None]

(* expireIfPastDeadlineLocked *)
IsDue(r) == r.state = "needs_input" /\ r.deadline = "passed"

Expire(r) ==
    IF IsDue(r) THEN [r EXCEPT !.state = "failed", !.pending = None] ELSE r

Bug_MayAskTwice(r) == ~Settled(r.state)

(* Ask refuses a settled run and a second question. *)
MayAsk(r) == ~Settled(r.state) /\ r.pending = None

Ask(r, q) == [r EXCEPT !.pending = q, !.asked = TRUE]

(* resolve: a named question must be the one that is pending; naming none  *)
(* resolves whatever is.                                                   *)
MayResolve(r, wanted) ==
    /\ r.pending # None
    /\ wanted # None => r.pending = wanted

Resolve(r) == [r EXCEPT !.pending = None]

(* NeedsInput, under r.mu: the deadline is re-anchored to now if a question *)
(* was ever asked, the pending question goes, and r.cancel is taken ...    *)
NeedsInput(r) ==
    IF Settled(r.state) THEN r
    ELSE [r EXCEPT !.state = "needs_input", !.done = TRUE, !.pending = None,
                   !.deadline = IF r.asked THEN "ahead" ELSE @,
                   !.owes = r.cancel]

(* ... to be called, if it is set, once r.mu is released and the verdict   *)
(* is sent: a step of its own, and only then is the child told to stop.    *)
CancelRested(r) == [r EXCEPT !.owes = FALSE, !.stopped = @ \/ r.owes]

MayTakeContinuation(r) == r.state = "needs_input" /\ r.rec

Bug_TakeKeepsRecord(r) == r

TakeContinuation(r) == [r EXCEPT !.rec = FALSE]

Bug_NoRestore(r) == r

SetContinuation(r) == [r EXCEPT !.rec = TRUE]

(* Supersede refuses everything but needs_input. *)
Supersede(r, successor) ==
    IF r.state # "needs_input" THEN r
    ELSE [r EXCEPT !.state = "superseded", !.resumedBy = successor,
                   !.rec = FALSE, !.done = TRUE]

=============================================================================
