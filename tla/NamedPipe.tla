------------------------------ MODULE NamedPipe ------------------------------
(***************************************************************************)
(* A connection over a Windows named pipe: a reader and a writer on one    *)
(* handle by overlapped I/O, deadlines that any goroutine may move, and    *)
(* Close, while all of it is going on.                                     *)
(*                                                                         *)
(* handleMu is read-locked by an operation from its Enter to its end, and  *)
(* write-locked by Close; readMu and writeMu admit one operation in each   *)
(* direction; deadlineMu makes a step of what it covers.  The kernel owns  *)
(* an operation's buffer until the operation is done.                      *)
(***************************************************************************)
EXTENDS Naturals

CONSTANTS
    MaxMoves,      \* bound: how often a deadline is set
    DeadlineDirs   \* bound: the directions whose deadline is set

ASSUME PipeAssumption ==
    MaxMoves \in Nat /\ DeadlineDirs \subseteq {"read", "write"}

VARIABLES
    isServer,   \* which end of the pipe this is
    handle,     \* whether the handle is open
    events,     \* whether the events exist
    op,         \* op[d]: where the operation in direction d is
    io,         \* io[d]: what the kernel has of it
    timed,      \* timed[d]: whether its wait has a timeout
    cancelEv,   \* the event that stops both directions
    deadline,   \* deadline[d]: none, in the future, or past
    dlEv,       \* dlEv[d]: the event of the deadline
    gen,        \* gen[d]: how often the deadline was set
    armed,      \* armed[d]: whether the timer of this gen is running
    firing,     \* firing[d]: gens of timers that went off, before they lock
    dlDead,     \* whether deadlines are silenced
    closer,     \* where Close is
    closed, aborted,
    peer,       \* whether the other end is there
    unread,     \* whether it has bytes to read
    forced,     \* whether an operation closed the handle
    misuse      \* what was used after its end

opVars == <<op, io, timed>>
dlVars == <<deadline, dlEv, gen, armed, firing, dlDead>>
closeVars == <<closer, closed>>
peerVars == <<peer, unread>>
handleVars == <<handle, aborted, forced>>
pipeVars == <<isServer, handleVars, events, opVars, cancelEv, dlVars, closeVars,
          peerVars, misuse>>

-----------------------------------------------------------------------------
(* Types *)

Dir == {"read", "write"}

(* "checking" and "waiting" are the two halves of the loop in await.       *)
OpStep == {"idle", "entered", "checking", "waiting", "cancelling", "aborting",
           "collecting"}
Io == {"none", "pending", "cancelled", "done"}
CloseStep == {"no", "cancelling", "locking", "flushing", "closing", "silencing",
              "destroying", "done"}
Deadline == {"none", "future", "past"}
Gen == 0..MaxMoves

PipeTypeOK ==
    /\ isServer \in BOOLEAN /\ handle \in BOOLEAN /\ events \in BOOLEAN
    /\ op \in [Dir -> OpStep] /\ io \in [Dir -> Io] /\ timed \in [Dir -> BOOLEAN]
    /\ cancelEv \in BOOLEAN
    /\ deadline \in [Dir -> Deadline] /\ dlEv \in [Dir -> BOOLEAN]
    /\ gen \in [Dir -> Gen] /\ armed \in [Dir -> BOOLEAN]
    /\ firing \in [Dir -> SUBSET Gen] /\ dlDead \in BOOLEAN
    /\ closer \in CloseStep /\ closed \in BOOLEAN /\ aborted \in BOOLEAN
    /\ peer \in BOOLEAN /\ unread \in BOOLEAN
    /\ forced \in BOOLEAN /\ misuse \subseteq {"handle", "event", "close"}

PipeInit ==
    /\ isServer \in BOOLEAN
    /\ handle = TRUE /\ events = TRUE
    /\ op = [d \in Dir |-> "idle"]
    /\ io = [d \in Dir |-> "none"]
    /\ timed = [d \in Dir |-> FALSE]
    /\ cancelEv = FALSE
    /\ deadline = [d \in Dir |-> "none"] /\ dlEv = [d \in Dir |-> FALSE]
    /\ gen = [d \in Dir |-> 0] /\ armed = [d \in Dir |-> FALSE]
    /\ firing = [d \in Dir |-> {}] /\ dlDead = FALSE
    /\ closer = "no" /\ closed = FALSE /\ aborted = FALSE
    /\ peer = TRUE /\ unread = FALSE
    /\ forced = FALSE /\ misuse = {}

-----------------------------------------------------------------------------
(* Helpers *)

At(d, from, to) == op[d] = from /\ op' = [op EXCEPT ![d] = to]
CloseAt(from, to) == closer = from /\ closer' = to

(* A call on the handle or on an event, and the closing of the handle.     *)
Misused(what, alive) == IF alive THEN misuse ELSE misuse \cup {what}
UsesHandle == misuse' = Misused("handle", handle)
UsesEvents == misuse' = Misused("event", events)
ClosesHandle == handle' = FALSE /\ misuse' = Misused("close", handle)

CancelPending(dirs) ==
    [d \in Dir |-> IF d \in dirs /\ io[d] = "pending" THEN "cancelled" ELSE io[d]]

(* A pending write lock keeps new readers out.                             *)
MayRLock == closer \in {"no", "cancelling", "done"}

-----------------------------------------------------------------------------
(* do: one operation *)

(* It is refused without a trace when the connection is closed, when the   *)
(* handle is, and when its deadline has passed.                            *)
Enter(d) ==
    /\ MayRLock
    /\ ~closed /\ ~aborted /\ deadline[d] # "past"
    /\ At(d, "idle", "entered")
    /\ UNCHANGED <<isServer, handleVars, events, io, timed, cancelEv, dlVars,
                   closeVars, peerVars, misuse>>

(* The call is under way, done at once, or fails.                          *)
Issue(d) ==
    /\ op[d] = "entered"
    /\ misuse' = Misused("handle", handle) \cup Misused("event", events)
    /\ \/ /\ handle /\ peer
          /\ At(d, "entered", "checking")
          /\ io' = [io EXCEPT ![d] = "pending"]
          /\ unread' = unread
       \/ /\ handle /\ peer
          /\ At(d, "entered", "collecting")
          /\ io' = [io EXCEPT ![d] = "done"]
          /\ unread' = (unread \/ d = "write")
       \/ /\ At(d, "entered", "idle")
          /\ UNCHANGED <<io, unread>>
    /\ UNCHANGED <<isServer, handleVars, events, timed, cancelEv, dlVars, closeVars,
                   peer>>

(* await reads the deadline, and waits until then at the latest.           *)
Look(d) ==
    /\ At(d, "checking", IF deadline[d] = "past" THEN "cancelling" ELSE "waiting")
    /\ timed' = [timed EXCEPT ![d] = deadline[d] = "future"]
    /\ UNCHANGED <<isServer, handleVars, events, io, cancelEv, dlVars, closeVars,
                   peerVars, misuse>>

(* WaitForMultipleObjects: the operation comes first, then Close, then the *)
(* deadline; a timeout only has the deadline read again.                   *)
Wake(d) ==
    /\ \/ io[d] = "done" /\ At(d, "waiting", "collecting")
       \/ /\ io[d] # "done" /\ (cancelEv \/ dlEv[d])
          /\ At(d, "waiting", "cancelling")
       \/ /\ io[d] # "done" /\ ~cancelEv /\ ~dlEv[d] /\ timed[d]
          /\ At(d, "waiting", "checking")
    /\ UsesEvents
    /\ UNCHANGED <<isServer, handleVars, events, io, timed, cancelEv, dlVars,
                   closeVars, peerVars>>

(* The wait itself fails, or says what it cannot say.                      *)
WaitFails(d) ==
    /\ At(d, "waiting", "cancelling")
    /\ UsesEvents
    /\ UNCHANGED <<isServer, handleVars, events, io, timed, cancelEv, dlVars,
                   closeVars, peerVars>>

(* CancelIoEx is accepted, or finds that the operation is done.            *)
Cancel(d) ==
    /\ handle
    /\ At(d, "cancelling", "collecting")
    /\ io' = CancelPending({d})
    /\ UsesHandle
    /\ UNCHANGED <<isServer, handleVars, events, timed, cancelEv, dlVars, closeVars,
                   peerVars>>

(* CancelIoEx fails.  The first operation it happens to closes the handle; *)
(* the event tells the one in the other direction.                         *)
CancelFails(d) ==
    /\ At(d, "cancelling", IF aborted THEN "idle" ELSE "aborting")
    /\ aborted' = TRUE /\ forced' = TRUE
    /\ cancelEv' = TRUE
    /\ UsesHandle
    /\ UNCHANGED <<isServer, handle, events, io, timed, dlVars, closeVars, peerVars>>

Abort(d) ==
    /\ At(d, "aborting", "idle")
    /\ ClosesHandle
    /\ io' = CancelPending(Dir)
    /\ UNCHANGED <<isServer, aborted, forced, events, timed, cancelEv, dlVars,
                   closeVars, peerVars>>

(* GetOverlappedResult waits until the kernel has done with the buffer.    *)
Collect(d) ==
    /\ io[d] = "done"
    /\ At(d, "collecting", "idle")
    /\ io' = [io EXCEPT ![d] = "none"]
    /\ UsesHandle
    /\ UNCHANGED <<isServer, handleVars, events, timed, cancelEv, dlVars, closeVars,
                   peerVars>>

-----------------------------------------------------------------------------
(* Deadlines *)

SetDeadline(d, t) ==
    /\ d \in DeadlineDirs /\ gen[d] < MaxMoves
    /\ ~dlDead
    /\ deadline' = [deadline EXCEPT ![d] = t]
    /\ dlEv' = [dlEv EXCEPT ![d] = t = "past"]
    /\ gen' = [gen EXCEPT ![d] = @ + 1]
    /\ armed' = [armed EXCEPT ![d] = t = "future"]
    /\ UsesEvents
    /\ UNCHANGED <<isServer, handleVars, events, opVars, cancelEv, firing, dlDead,
                   closeVars, peerVars>>

TimePasses(d) ==
    /\ deadline[d] = "future"
    /\ deadline' = [deadline EXCEPT ![d] = "past"]
    /\ UNCHANGED <<isServer, handleVars, events, opVars, cancelEv, dlEv, gen, armed,
                   firing, dlDead, closeVars, peerVars, misuse>>

(* The timer's goroutine starts; stopping the timer is too late for it.    *)
TimerFires(d) ==
    /\ armed[d] /\ deadline[d] = "past"
    /\ armed' = [armed EXCEPT ![d] = FALSE]
    /\ firing' = [firing EXCEPT ![d] = @ \cup {gen[d]}]
    /\ UNCHANGED <<isServer, handleVars, events, opVars, cancelEv, deadline, dlEv, gen,
                   dlDead, closeVars, peerVars, misuse>>

Bug_AnyGen(d, g) == ~dlDead

Bug_AfterDeath(d, g) == gen[d] = g

(* The timer's event still means this deadline, and the event exists.      *)
StillMeant(d, g) == ~dlDead /\ gen[d] = g

Expire(d, g) ==
    /\ g \in firing[d]
    /\ firing' = [firing EXCEPT ![d] = @ \ {g}]
    /\ IF StillMeant(d, g)
       THEN dlEv' = [dlEv EXCEPT ![d] = TRUE] /\ UsesEvents
       ELSE UNCHANGED <<dlEv, misuse>>
    /\ UNCHANGED <<isServer, handleVars, events, opVars, cancelEv, deadline, gen, armed,
                   dlDead, closeVars, peerVars>>

-----------------------------------------------------------------------------
(* Close, once *)

Bug_NoSignal ==
    /\ CloseAt("no", IF aborted THEN "locking" ELSE "cancelling")
    /\ UNCHANGED <<isServer, handleVars, events, opVars, cancelEv, dlVars, closed,
                   peerVars, misuse>>

(* With a read lock, it wakes the operations and looks at aborted.         *)
CloseSignals ==
    /\ CloseAt("no", IF aborted THEN "locking" ELSE "cancelling")
    /\ cancelEv' = TRUE
    /\ UsesEvents
    /\ UNCHANGED <<isServer, handleVars, events, opVars, dlVars, closed, peerVars>>

(* Whether CancelIoEx succeeds is not looked at.                           *)
CloseCancels ==
    /\ CloseAt("cancelling", "locking")
    /\ io' \in {io} \cup (IF handle THEN {CancelPending(Dir)} ELSE {})
    /\ UsesHandle
    /\ UNCHANGED <<isServer, handleVars, events, op, timed, cancelEv, dlVars, closed,
                   peerVars>>

(* The write lock: every operation that entered has ended.                 *)
CloseLocks ==
    /\ \A d \in Dir : op[d] = "idle"
    /\ CloseAt("locking", CASE aborted -> "silencing"
                            [] ~aborted /\ isServer -> "flushing"
                            [] OTHER -> "closing")
    /\ closed' = TRUE /\ aborted' = TRUE
    /\ UNCHANGED <<isServer, handle, forced, events, opVars, cancelEv, dlVars, peerVars,
                   misuse>>

(* FlushFileBuffers returns when the client has read everything, or is     *)
(* gone; DisconnectNamedPipe.                                              *)
Flush ==
    /\ ~unread
    /\ CloseAt("flushing", "closing")
    /\ peer' = FALSE
    /\ UsesHandle
    /\ UNCHANGED <<isServer, handleVars, events, opVars, cancelEv, dlVars, closed, unread>>

CloseTheHandle ==
    /\ CloseAt("closing", "silencing")
    /\ ClosesHandle
    /\ UNCHANGED <<isServer, aborted, forced, events, opVars, cancelEv, dlVars, closed,
                   peerVars>>

StopDeadlines ==
    /\ CloseAt("silencing", "destroying")
    /\ dlDead' = TRUE
    /\ armed' = [d \in Dir |-> FALSE]
    /\ UNCHANGED <<isServer, handleVars, events, opVars, cancelEv, deadline, dlEv, gen,
                   firing, closed, peerVars, misuse>>

DestroyEvents ==
    /\ CloseAt("destroying", "done")
    /\ events' = FALSE
    /\ UNCHANGED <<isServer, handleVars, opVars, cancelEv, dlVars, closed, peerVars,
                   misuse>>

-----------------------------------------------------------------------------
(* The kernel and the other end *)

(* A read finds bytes, a write finds room.                                 *)
Transfer(d) ==
    /\ io[d] = "pending" /\ peer
    /\ io' = [io EXCEPT ![d] = "done"]
    /\ unread' = (unread \/ d = "write")
    /\ UNCHANGED <<isServer, handleVars, events, op, timed, cancelEv, dlVars, closeVars,
                   peer, misuse>>

Acknowledge(d) ==
    /\ io[d] = "cancelled"
    /\ io' = [io EXCEPT ![d] = "done"]
    /\ UNCHANGED <<isServer, handleVars, events, op, timed, cancelEv, dlVars, closeVars,
                   peerVars, misuse>>

PeerReads ==
    /\ peer /\ unread
    /\ unread' = FALSE
    /\ UNCHANGED <<isServer, handleVars, events, opVars, cancelEv, dlVars, closeVars,
                   peer, misuse>>

PeerLeaves ==
    /\ peer
    /\ peer' = FALSE /\ unread' = FALSE
    /\ io' = [d \in Dir |-> IF io[d] = "pending" THEN "done" ELSE io[d]]
    /\ UNCHANGED <<isServer, handleVars, events, op, timed, cancelEv, dlVars, closeVars,
                   misuse>>

-----------------------------------------------------------------------------
OpStepOf(d) ==
    Issue(d) \/ Look(d) \/ Wake(d) \/ Cancel(d) \/ CancelFails(d) \/ Abort(d) \/ Collect(d)

TimerStep(d) == TimerFires(d) \/ \E g \in Gen : Expire(d, g)

CloseGoesOn ==
    \/ CloseCancels \/ CloseLocks \/ Flush \/ CloseTheHandle \/ StopDeadlines
    \/ DestroyEvents

PipeNext ==
    \/ \E d \in Dir :
          \/ Enter(d) \/ OpStepOf(d) \/ WaitFails(d)
          \/ \E t \in Deadline : SetDeadline(d, t)
          \/ TimePasses(d) \/ TimerStep(d)
          \/ Transfer(d) \/ Acknowledge(d)
    \/ CloseSignals \/ CloseGoesOn
    \/ PeerReads \/ PeerLeaves

(* Goroutines and timers run, and the kernel ends what was cancelled.      *)
(* Nothing is assumed of the other end, nor that a deadline is set, nor    *)
(* that a wait which nothing ends fails.                                   *)
Fairness ==
    /\ \A d \in Dir : WF_pipeVars(OpStepOf(d)) /\ WF_pipeVars(TimerStep(d))
    /\ \A d \in Dir : WF_pipeVars(Acknowledge(d))
    /\ WF_pipeVars(CloseGoesOn)

PipeSpec == PipeInit /\ [][PipeNext]_pipeVars /\ Fairness

-----------------------------------------------------------------------------
(* Properties *)

(* Nothing is used after its end: no event after Close destroyed it, not   *)
(* by a timer that went off before; the handle is closed once; and it is   *)
(* used after that only where an operation had to close it under the one   *)
(* in the other direction, or under Close.  Only that operation, too,      *)
(* returns while the kernel still has its buffer.                          *)
HandleSafe ==
    /\ misuse \subseteq IF forced THEN {"handle"} ELSE {}
    /\ \A d \in Dir : op[d] = "idle" /\ ~forced => io[d] = "none"

(* The event of a deadline is set only when the deadline in force has      *)
(* passed: a timer of an earlier deadline that fires late does not end an  *)
(* operation whose deadline was moved or taken away.                       *)
DeadlineExact == \A d \in Dir : dlEv[d] => deadline[d] = "past"

-----------------------------------------------------------------------------
(* The inductive invariants behind these *)

(* A timer that has gone off for the deadline in force finds it passed.    *)
TimerInv ==
    /\ DeadlineExact
    /\ \A d \in Dir : \A g \in firing[d] :
          g <= gen[d] /\ (g = gen[d] => deadline[d] = "past")

(* Close has had the write lock; from then on nobody is in an operation.   *)
Shut == closer \in {"flushing", "closing", "silencing", "destroying", "done"}

LockInv ==
    /\ Shut => closed /\ \A d \in Dir : op[d] = "idle"
    /\ events <=> closer # "done"
    /\ dlDead <=> closer \in {"destroying", "done"}

(* Whoever is about to close the handle finds it open and is alone.        *)
HandleInv ==
    /\ ~aborted => handle /\ ~forced /\ ~Shut
    /\ closer \in {"flushing", "closing"} => handle
    /\ ~handle /\ ~forced => closer \in {"silencing", "destroying", "done"}
    /\ \A d \in Dir : op[d] = "aborting" => handle /\ aborted /\ forced
    /\ \A d, e \in Dir : op[d] = "aborting" /\ op[e] = "aborting" => d = e

BufferInv ==
    /\ HandleSafe
    /\ \A d \in Dir : op[d] = "entered" /\ ~forced => io[d] = "none"

PipeInv == PipeTypeOK /\ LockInv /\ HandleInv /\ BufferInv /\ TimerInv

-----------------------------------------------------------------------------
(* Liveness *)

(* An operation ends once its deadline has passed, or the connection is    *)
(* being closed, whatever the other end does; and Close ends unless it is  *)
(* a server whose client neither reads its answer nor leaves.              *)
NothingHangs ==
    /\ \A d \in Dir :
          (op[d] # "idle" /\ (deadline[d] = "past" \/ closer # "no"))
             ~> (op[d] = "idle" \/ (deadline[d] # "past" /\ closer = "no"))
    /\ closer # "no" ~> (closer = "done" \/ (closer = "flushing" /\ isServer /\ unread))

=============================================================================
