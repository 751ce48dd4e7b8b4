------------------------- MODULE RunRegistry_proofs -------------------------
(***************************************************************************)
(* Theorems about RunRegistry, for any run ids, questions, handlers and    *)
(* limits.                                                                 *)
(***************************************************************************)
EXTENDS RunRegistry, FiniteSetTheorems, TLAPS

-----------------------------------------------------------------------------
(* Each method turns a Run into a Run.                                     *)
LEMMA RunMethodsType ==
    ASSUME NEW r \in RunRecord
    PROVE  /\ Retire(r) \in RunRecord
           /\ Cancel(r) \in RunRecord
           /\ \A o \in Outcome : Finish(r, o) \in RunRecord
           /\ Expire(r) \in RunRecord
           /\ \A q \in Question : Ask(r, q) \in RunRecord
           /\ Resolve(r) \in RunRecord
           /\ NeedsInput(r) \in RunRecord /\ CancelRested(r) \in RunRecord
           /\ TakeContinuation(r) \in RunRecord
           /\ SetContinuation(r) \in RunRecord
           /\ [r EXCEPT !.cancel = TRUE] \in RunRecord
           /\ \A s \in RunId \cup {None} : Supersede(r, s) \in RunRecord
<1>1. Retire(r) \in RunRecord  BY DEF Retire, RunRecord
<1>2. Cancel(r) \in RunRecord  BY DEF Cancel, RunRecord
<1>3. \A o \in Outcome : Finish(r, o) \in RunRecord
  BY DEF Finish, RunRecord, Outcome, States
<1>4. Expire(r) \in RunRecord
  <2>1. CASE IsDue(r)  BY <2>1 DEF Expire, RunRecord, States
  <2>2. CASE ~IsDue(r)  BY <2>2 DEF Expire
  <2> QED BY <2>1, <2>2
<1>5. \A q \in Question : Ask(r, q) \in RunRecord  BY DEF Ask, RunRecord
<1>6. Resolve(r) \in RunRecord  BY DEF Resolve, RunRecord
<1>7. NeedsInput(r) \in RunRecord
  <2>1. CASE Settled(r.state)  BY <2>1 DEF NeedsInput
  <2>2. CASE ~Settled(r.state)
    <3> DEFINE due == IF r.asked THEN "ahead" ELSE r.deadline
    <3>1. due \in {"unset", "ahead", "passed"}  BY DEF RunRecord
    <3>2. NeedsInput(r) = [r EXCEPT !.state = "needs_input", !.done = TRUE, !.pending = None,
                                    !.deadline = due, !.owes = r.cancel]
      BY <2>2 DEF NeedsInput
    <3> HIDE DEF due
    <3> QED BY <3>1, <3>2 DEF RunRecord, States
  <2> QED BY <2>1, <2>2
<1>8. TakeContinuation(r) \in RunRecord  BY DEF TakeContinuation, RunRecord
<1>9. SetContinuation(r) \in RunRecord  BY DEF SetContinuation, RunRecord
<1>10. \A s \in RunId \cup {None} : Supersede(r, s) \in RunRecord
  BY DEF Supersede, RunRecord, States
<1>11. [r EXCEPT !.cancel = TRUE] \in RunRecord  BY DEF RunRecord
<1>12. CancelRested(r) \in RunRecord
  <2> DEFINE stop == r.stopped \/ r.owes
  <2>1. stop \in BOOLEAN  BY DEF RunRecord
  <2>2. CancelRested(r) = [r EXCEPT !.owes = FALSE, !.stopped = stop]  BY DEF CancelRested
  <2> HIDE DEF stop
  <2> QED BY <2>1, <2>2 DEF RunRecord
<1> QED BY <1>1, <1>2, <1>3, <1>4, <1>5, <1>6, <1>7, <1>8, <1>9, <1>10, <1>11, <1>12

(* Start builds a Run.                                                     *)
LEMMA NewRunType ==
    ASSUME NEW p \in RunId \cup {None}, NEW d \in Nat
    PROVE  NewRun(p, d) \in RunRecord
BY DEF NewRun, NoRun, RunRecord, States

(* Sending verdicts keeps the type of the verdict map.                     *)
LEMMA SentType ==
    ASSUME TypeOK, NEW S
    PROVE  Sent(S) \in [Question -> VerdictState]
BY DEF TypeOK, Sent, VerdictState

(* sweepExpired keeps the types of what it changes.                        *)
LEMMA SweepType ==
    ASSUME TypeOK, Sweep
    PROVE  runs' \in [RunId -> RunRecord] /\ verdict' \in [Question -> VerdictState]
<1>1. \A r \in RunId : runs[r] \in RunRecord /\ Expire(runs[r]) \in RunRecord
  BY RunMethodsType DEF TypeOK
<1> QED BY <1>1, SentType DEF Sweep

-----------------------------------------------------------------------------
(* Type correctness *)

(* The initial state has the types.                                        *)
LEMMA InitType == Init => TypeOK
BY DEF Init, TypeOK, RunRecord, NoRun, States, VerdictState, SuperStep, Outcome,
       HandlerRecord, IdleHandler

(* So does the state after any step of a handler.                          *)
LEMMA HandlerType ==
    ASSUME TypeOK, NEW h \in Handler, HandlerStep(h)
    PROVE  TypeOK'
<1>1. CASE BeginAsk(h)
  BY <1>1, SweepType DEF BeginAsk, TypeOK, HandlerRecord
<1>2. ASSUME NEW p \in RunId, Take(h, p)  PROVE TypeOK'
  BY <1>2, RunMethodsType DEF Take, TypeOK, HandlerRecord
<1>3. CASE RefuseContinuation(h)
  <2>1. \A r \in RunId : SetContinuation(runs[r]) \in RunRecord
    BY RunMethodsType DEF TypeOK
  <2> QED BY <1>3, <2>1 DEF RefuseContinuation, TypeOK, HandlerRecord, IdleHandler
<1>4. CASE BeginContinue(h)
  BY <1>4, SweepType DEF BeginContinue, TypeOK, HandlerRecord
<1>5. ASSUME NEW r \in RunId, Admit(h, r)  PROVE TypeOK'
  <2> DEFINE p == handler[h].pred
             depth == IF p = None THEN 0 ELSE runs[p].links + 1
  <2>1. p \in RunId \cup {None}  BY DEF TypeOK, HandlerRecord
  <2>2. depth \in Nat  BY <2>1 DEF TypeOK, RunRecord
  <2>3. NewRun(p, depth) \in RunRecord  BY <2>1, <2>2, NewRunType
  <2>4. \A s \in RunId : Retire(runs[s]) \in RunRecord
    BY RunMethodsType DEF TypeOK
  <2>5. runs' \in [RunId -> RunRecord]
    BY <1>5, <2>3, <2>4 DEF Admit, TypeOK
  <2>6. handler' \in [Handler -> HandlerRecord]
    BY <1>5, <2>1 DEF Admit, TypeOK, HandlerRecord
  <2> QED BY <1>5, <2>5, <2>6 DEF Admit, TypeOK
<1>6. CASE RefuseStart(h)
  <2>1. \A r \in RunId : SetContinuation(runs[r]) \in RunRecord
    BY RunMethodsType DEF TypeOK
  <2> QED BY <1>6, <2>1 DEF RefuseStart, TypeOK, HandlerRecord, IdleHandler
<1>7. CASE Launch(h)
  <2>1. \A r \in RunId : [runs[r] EXCEPT !.cancel = TRUE] \in RunRecord
    BY RunMethodsType DEF TypeOK
  <2>2. runs' \in [RunId -> RunRecord]  BY <1>7, <2>1 DEF Launch, TypeOK
  <2>3. super' \in [RunId -> SuperStep]  BY <1>7 DEF Launch, TypeOK, SuperStep
  <2>4. handler' \in [Handler -> HandlerRecord]
    BY <1>7 DEF Launch, TypeOK, HandlerRecord, IdleHandler
  <2> QED BY <1>7, <2>2, <2>3, <2>4 DEF Launch, TypeOK
<1>8. CASE SupersedePredecessor(h)
  <2>1. \A r \in RunId : Supersede(runs[r], handler[h].succ) \in RunRecord
    BY RunMethodsType DEF TypeOK, HandlerRecord
  <2> QED BY <1>8, <2>1
          DEF SupersedePredecessor, TypeOK, HandlerRecord, IdleHandler
<1> QED BY <1>1, <1>2, <1>3, <1>4, <1>5, <1>6, <1>7, <1>8 DEF HandlerStep

(* After any step of a supervisor.                                         *)
LEMMA SupervisorType ==
    ASSUME TypeOK, NEW r \in RunId, SupervisorStep(r)
    PROVE  TypeOK'
<1> USE DEF TypeOK
<1>1. runs[r] \in RunRecord  OBVIOUS
<1>2. \A o \in Outcome : Finish(runs[r], o) \in RunRecord
  BY <1>1, RunMethodsType
<1>3. ASSUME Settles(r)  PROVE verdict' \in [Question -> VerdictState]
  BY <1>3, SentType DEF Settles
<1>4. ASSUME NEW o \in Outcome, Kill(r, o)  PROVE TypeOK'
  BY <1>4 DEF Kill, SuperStep
<1>5. CASE SpawnFails(r)
  BY <1>5, <1>2, <1>3 DEF SpawnFails, SuperStep, Outcome
<1>6. CASE Spawn(r)  BY <1>6 DEF Spawn, SuperStep
<1>7. CASE SendFirstMessage(r)  BY <1>7 DEF SendFirstMessage, SuperStep
<1>8. CASE SendFails(r)  BY <1>8, <1>4 DEF SendFails, Outcome
<1>9. CASE ChildExits(r)  BY <1>9, <1>4 DEF ChildExits, Outcome
<1>10. CASE TimesOut(r)  BY <1>10, <1>4 DEF TimesOut, Outcome
<1>11. CASE SeesCancel(r)  BY <1>11, <1>4 DEF SeesCancel, Outcome
<1>12. CASE Reaped(r)  BY <1>12, <1>2, <1>3 DEF Reaped, SuperStep
<1> QED BY <1>5, <1>6, <1>7, <1>8, <1>9, <1>10, <1>11, <1>12 DEF SupervisorStep

(* After any step of a gate resolver or the operator.                      *)
LEMMA GateType ==
    ASSUME TypeOK, NEW r \in RunId, GateStep(r)
    PROVE  TypeOK'
<1> USE DEF TypeOK
<1>1. runs[r] \in RunRecord  OBVIOUS
<1>2. ASSUME NEW q \in Question, GateAsk(r, q)  PROVE TypeOK'
  BY <1>2, <1>1, RunMethodsType DEF GateAsk, VerdictState
<1>3. CASE GateResolve(r)
  BY <1>3, <1>1, RunMethodsType, SentType DEF GateResolve
<1>4. CASE GateNeedsInput(r)
  BY <1>4, <1>1, RunMethodsType, SentType DEF GateNeedsInput, Settles
<1>5. CASE GateCancel(r)  BY <1>5, <1>1, RunMethodsType DEF GateCancel
<1> QED BY <1>2, <1>3, <1>4, <1>5 DEF GateStep

(* After any step on one run.                                              *)
LEMMA RunStepType ==
    ASSUME TypeOK, NEW r \in RunId, RunStep(r)
    PROVE  TypeOK'
<1>1. runs[r] \in RunRecord  BY DEF TypeOK
<1>2. CASE Snapshot(r)
  BY <1>2, <1>1, RunMethodsType, SentType DEF Snapshot, TypeOK
<1>3. CASE CancelRun(r)
  BY <1>3, <1>1, RunMethodsType DEF CancelRun, TypeOK
<1>4. CASE DeadlinePasses(r)
  <2>1. [runs[r] EXCEPT !.deadline = "passed"] \in RunRecord
    BY <1>1 DEF RunRecord
  <2> QED BY <1>4, <2>1 DEF DeadlinePasses, TypeOK
<1>5. CASE RetentionPasses(r)
  <2>1. [runs[r] EXCEPT !.aged = TRUE] \in RunRecord  BY <1>1 DEF RunRecord
  <2> QED BY <1>5, <2>1 DEF RetentionPasses, TypeOK
<1> QED BY <1>2, <1>3, <1>4, <1>5, SupervisorType, GateType DEF RunStep

(* And so after every step: TypeOK is inductive.                           *)
LEMMA NextType == TypeOK /\ [Next]_vars => TypeOK'
<1> SUFFICES ASSUME TypeOK, [Next]_vars  PROVE TypeOK'  OBVIOUS
<1>1. CASE Lookup  BY <1>1, SweepType DEF Lookup, TypeOK
<1>2. CASE UNCHANGED vars  BY <1>2 DEF vars, TypeOK
<1> QED BY <1>1, <1>2, HandlerType, RunStepType DEF Next

(* Every variable keeps its type, for any constants. *)
THEOREM TypeCorrect == Spec => []TypeOK
BY InitType, NextType, PTL DEF Spec

-----------------------------------------------------------------------------
(* Steps that neither start nor continue a run *)

(* b is what such a step can make of a started run a: its place in its     *)
(* chain stays, and it does not start to occupy a slot.                    *)
Quiet(a, b) ==
    /\ b.rec = a.rec /\ b.retiring = a.retiring
    /\ b.resumedFrom = a.resumedFrom /\ b.links = a.links
    /\ b.state # "unstarted"
    /\ b.state = "running" => a.state = "running"
    /\ b.state = "needs_input" => a.state \in {"running", "needs_input"}

(* A step is quiet for every run, and leaves alone the ids not yet used. *)
QuietStep ==
    \A s \in RunId :
        IF Minted(s) THEN Quiet(runs[s], runs'[s])
        ELSE runs'[s] = runs[s] /\ super'[s] = super[s]

(* The methods that neither move the record nor start the run.             *)
LEMMA QuietMethods ==
    ASSUME NEW a \in RunRecord, a.state # "unstarted"
    PROVE  /\ Quiet(a, a)
           /\ Quiet(a, Cancel(a))
           /\ \A o \in Outcome : Quiet(a, Finish(a, o))
           /\ Quiet(a, Expire(a))
           /\ \A q : Quiet(a, Ask(a, q))
           /\ Quiet(a, Resolve(a))
           /\ Quiet(a, NeedsInput(a)) /\ Quiet(a, CancelRested(a))
           /\ Quiet(a, [a EXCEPT !.deadline = "passed"])
           /\ Quiet(a, [a EXCEPT !.aged = TRUE])
           /\ Quiet(a, [a EXCEPT !.cancel = TRUE])
<1> USE DEF Quiet
<1>1. Quiet(a, a)  OBVIOUS
<1>2. Quiet(a, Cancel(a))  BY DEF Cancel, RunRecord
<1>3. ASSUME NEW o \in Outcome  PROVE Quiet(a, Finish(a, o))
  <2>1. CASE Settled(a.state)  BY <2>1 DEF Finish
  <2>2. CASE ~Settled(a.state)  BY <2>2 DEF Finish, RunRecord, Outcome
  <2> QED BY <2>1, <2>2
<1>4. Quiet(a, Expire(a))
  <2>1. CASE IsDue(a)  BY <2>1 DEF Expire, RunRecord
  <2>2. CASE ~IsDue(a)  BY <2>2 DEF Expire
  <2> QED BY <2>1, <2>2
<1>5. \A q : Quiet(a, Ask(a, q))  BY DEF Ask, RunRecord
<1>6. Quiet(a, Resolve(a))  BY DEF Resolve, RunRecord
<1>7. Quiet(a, NeedsInput(a))
  <2>1. CASE Settled(a.state)  BY <2>1 DEF NeedsInput
  <2>2. CASE ~Settled(a.state)
    <3>1. a.state = "running"
      BY <2>2 DEF Settled, IsTerminal, RunRecord, States
    <3> QED BY <2>2, <3>1 DEF NeedsInput, RunRecord
  <2> QED BY <2>1, <2>2
<1>8. Quiet(a, [a EXCEPT !.deadline = "passed"])  BY DEF RunRecord
<1>9. Quiet(a, [a EXCEPT !.aged = TRUE])  BY DEF RunRecord
<1>10. Quiet(a, [a EXCEPT !.cancel = TRUE])  BY DEF RunRecord
<1>11. Quiet(a, CancelRested(a))  BY DEF CancelRested, RunRecord
<1> QED BY <1>1, <1>2, <1>3, <1>4, <1>5, <1>6, <1>7, <1>8, <1>9, <1>10, <1>11

(* A sweep is quiet: it only expires runs.                                 *)
LEMMA QuietSweep ==
    ASSUME TypeOK, Sweep, super' = super
    PROVE  QuietStep
<1> SUFFICES ASSUME NEW s \in RunId
             PROVE  IF Minted(s) THEN Quiet(runs[s], runs'[s])
                    ELSE runs'[s] = runs[s] /\ super'[s] = super[s]
  BY DEF QuietStep
<1>1. runs'[s] = runs[s] \/ (IsDue(runs[s]) /\ runs'[s] = Expire(runs[s]))
  BY DEF Sweep
<1>2. runs[s] \in RunRecord  BY DEF TypeOK
<1> QED BY <1>1, <1>2, QuietMethods DEF Minted, IsDue

(* A step on one started run that applies a quiet method, or none, to it. *)
LEMMA QuietOne ==
    ASSUME TypeOK, NEW r \in RunId, Minted(r), NEW b,
           Quiet(runs[r], b), runs' = [runs EXCEPT ![r] = b],
           NEW c, super' = [super EXCEPT ![r] = c]
    PROVE  QuietStep
<1> SUFFICES ASSUME NEW s \in RunId
             PROVE  IF Minted(s) THEN Quiet(runs[s], runs'[s])
                    ELSE runs'[s] = runs[s] /\ super'[s] = super[s]
  BY DEF QuietStep
<1>1. CASE s = r  BY <1>1 DEF TypeOK
<1>2. CASE s # r
  <2>1. runs'[s] = runs[s] /\ super'[s] = super[s]  BY <1>2 DEF TypeOK
  <2>2. runs[s] \in RunRecord  BY DEF TypeOK
  <2> QED BY <2>1, <2>2, QuietMethods DEF Minted
<1> QED BY <1>1, <1>2

(* Whatever the supervisor, the gate, the operator or the clock does to a  *)
(* run is quiet.                                                           *)
LEMMA QuietRun ==
    ASSUME TypeOK, MintedInv, NEW r \in RunId, RunStep(r)
    PROVE  QuietStep /\ UNCHANGED <<known, handler>>
<1>1. runs[r] \in RunRecord  BY DEF TypeOK
<1>2. runs = [runs EXCEPT ![r] = runs[r]] /\ super = [super EXCEPT ![r] = super[r]]
  BY DEF TypeOK
<1>3. super[r] # "none" => Minted(r)  BY DEF MintedInv
<1>4. runs[r].pending # None \/ runs[r].asked \/ runs[r].owes => Minted(r)
  BY DEF MintedInv, NoRun
<1>5. UNCHANGED <<known, handler>>
  BY DEF RunStep, Snapshot, CancelRun, SupervisorStep, GateStep, DeadlinePasses,
         RetentionPasses, SpawnFails, Spawn, SendFirstMessage, SendFails,
         ChildExits, TimesOut, SeesCancel, Reaped, Kill, GateAsk, GateResolve,
         GateNeedsInput, GateCancel
<1> SUFFICES QuietStep  BY <1>5
<1>6. CASE Snapshot(r)
  BY <1>6, <1>1, <1>2, QuietMethods, QuietOne DEF Snapshot, IsDue, Minted
<1>7. CASE CancelRun(r)
  BY <1>7, <1>1, <1>2, QuietMethods, QuietOne DEF CancelRun, Minted
<1>8. CASE SupervisorStep(r)
  <2>1. Minted(r) /\ Quiet(runs[r], runs[r])
    BY <1>8, <1>1, <1>3, QuietMethods
    DEF SupervisorStep, SpawnFails, Spawn, SendFirstMessage, SendFails, ChildExits,
        TimesOut, SeesCancel, Reaped, Outcome, Minted
  <2>2. \A o \in Outcome : Quiet(runs[r], Finish(runs[r], o))
    BY <1>1, <2>1, QuietMethods DEF Minted
  <2>3. ASSUME NEW o, Kill(r, o)  PROVE QuietStep
    BY <2>1, <2>3, <1>2, QuietOne DEF Kill
  <2>4. CASE SpawnFails(r)
    BY <2>1, <2>2, <2>4, QuietOne DEF SpawnFails, Outcome
  <2>5. CASE Spawn(r)  BY <2>1, <2>5, <1>2, QuietOne DEF Spawn
  <2>6. CASE SendFirstMessage(r)
    BY <2>1, <2>6, <1>2, QuietOne DEF SendFirstMessage
  <2>7. CASE Reaped(r)  BY <2>1, <2>2, <2>7, QuietOne DEF Reaped
  <2>8. CASE SendFails(r)  BY <2>8, <2>3 DEF SendFails
  <2>9. CASE ChildExits(r)  BY <2>9, <2>3 DEF ChildExits
  <2>10. CASE TimesOut(r)  BY <2>10, <2>3 DEF TimesOut
  <2>11. CASE SeesCancel(r)  BY <2>11, <2>3 DEF SeesCancel
  <2> QED BY <1>8, <2>4, <2>5, <2>6, <2>7, <2>8, <2>9, <2>10, <2>11
          DEF SupervisorStep
<1>9. CASE GateStep(r)
  <2>1. ASSUME NEW q \in Question, GateAsk(r, q)  PROVE QuietStep
    BY <2>1, <1>1, <1>2, <1>3, QuietMethods, QuietOne DEF GateAsk, Minted
  <2>2. CASE GateResolve(r)
    BY <2>2, <1>1, <1>2, <1>4, QuietMethods, QuietOne
    DEF GateResolve, MayResolve, Minted
  <2>3. CASE GateNeedsInput(r)
    BY <2>3, <1>1, <1>2, <1>4, QuietMethods, QuietOne DEF GateNeedsInput, Minted
  <2>4. (\E q \in Question : GateAsk(r, q)) => QuietStep  BY <2>1
  <2>5. CASE GateCancel(r)
    BY <2>5, <1>1, <1>2, <1>4, QuietMethods, QuietOne DEF GateCancel, Minted
  <2> QED BY <1>9, <2>4, <2>2, <2>3, <2>5 DEF GateStep
<1>10. CASE DeadlinePasses(r)
  <2>1. runs' = [runs EXCEPT ![r] = [runs[r] EXCEPT !.deadline = "passed"]]
    BY <1>10 DEF DeadlinePasses
  <2> QED BY <1>10, <2>1, <1>1, <1>2, QuietMethods, QuietOne
          DEF DeadlinePasses, Minted
<1>11. CASE RetentionPasses(r)
  <2>1. runs' = [runs EXCEPT ![r] = [runs[r] EXCEPT !.aged = TRUE]]
    BY <1>11 DEF RetentionPasses
  <2> QED BY <1>11, <2>1, <1>1, <1>2, QuietMethods, QuietOne
          DEF RetentionPasses, IsTerminal, Minted
<1> QED BY <1>6, <1>7, <1>8, <1>9, <1>10, <1>11 DEF RunStep

-----------------------------------------------------------------------------
(* Handlers and supervisors exist only for minted runs *)

UnmintedIsNoRun == \A r \in RunId : ~Minted(r) => runs[r] = NoRun /\ super[r] = "none"

(* What MintedInv says of one handler. *)
HoldsMinted(h) ==
    /\ handler[h].pc = "idle" => handler[h].pred = None
    /\ handler[h].pc \in {"took", "launched"} => handler[h].pred # None
    /\ handler[h].pc \in {"admitted", "launched"} =>
          handler[h].succ # None /\ Minted(handler[h].succ)
    /\ handler[h].pred # None => Minted(handler[h].pred)

(* MintedInv, said of each handler separately.                             *)
LEMMA MintedParts == MintedInv <=> UnmintedIsNoRun /\ \A h \in Handler : HoldsMinted(h)
BY DEF MintedInv, UnmintedIsNoRun, HoldsMinted

(* A quiet step mints nothing and unmints nothing. *)
LEMMA QuietMinted ==
    ASSUME TypeOK, UnmintedIsNoRun, QuietStep
    PROVE  UnmintedIsNoRun' /\ \A s \in RunId : Minted(s)' <=> Minted(s)
<1>1. ASSUME NEW s \in RunId  PROVE Minted(s)' <=> Minted(s)
  BY DEF QuietStep, Quiet, Minted
<1>2. ASSUME NEW s \in RunId, ~Minted(s)'
      PROVE  runs'[s] = NoRun /\ super'[s] = "none"
  BY <1>1, <1>2 DEF QuietStep, UnmintedIsNoRun
<1> QED BY <1>1, <1>2 DEF UnmintedIsNoRun

(* Minting more, and leaving the other handlers alone, keeps what they hold. *)
LEMMA OtherHandlers ==
    ASSUME TypeOK, NEW h \in Handler, MintedInv,
           \A s \in RunId : Minted(s) => Minted(s)',
           \A g \in Handler \ {h} : handler'[g] = handler[g]
    PROVE  \A g \in Handler \ {h} : HoldsMinted(g)'
BY MintedParts DEF HoldsMinted, TypeOK, HandlerRecord

(* The shape of a handler step: quiet, or one that moves a continuation    *)
(* record, admits a run or labels a predecessor.                           *)
LEMMA QuietHandler ==
    ASSUME TypeOK, MintedInv, NEW h \in Handler,
           BeginAsk(h) \/ BeginContinue(h) \/ Launch(h)
    PROVE  QuietStep
<1>1. CASE BeginAsk(h)  BY <1>1, QuietSweep DEF BeginAsk
<1>2. CASE BeginContinue(h)  BY <1>2, QuietSweep DEF BeginContinue
<1>3. CASE Launch(h)
  <2> DEFINE r == handler[h].succ
  <2>1. r \in RunId /\ Minted(r)
    BY <1>3 DEF Launch, MintedInv, TypeOK, HandlerRecord
  <2>2. runs' = [runs EXCEPT ![r] = [runs[r] EXCEPT !.cancel = TRUE]]
    BY <1>3 DEF Launch
  <2>3. Quiet(runs[r], [runs[r] EXCEPT !.cancel = TRUE])
    BY <2>1, QuietMethods DEF TypeOK, Minted
  <2>4. super' = [super EXCEPT ![r] = "spawning"]  BY <1>3 DEF Launch
  <2> QED BY <2>1, <2>2, <2>3, <2>4, QuietOne
<1> QED BY <1>1, <1>2, <1>3

(* What Admit does to the runs. *)
LEMMA AdmitShape ==
    ASSUME TypeOK, MintedInv, NEW h \in Handler, NEW r \in RunId, Admit(h, r)
    PROVE  /\ handler[h].pred # r
           /\ \E d \in Nat : runs'[r] = NewRun(handler[h].pred, d)
           /\ runs'[r].state = "running" /\ ~runs'[r].retiring /\ runs'[r].rec
           /\ runs'[r].pending = None /\ ~runs'[r].asked
           /\ runs'[r].resumedFrom = handler[h].pred
           /\ \A s \in RunId \ {r} :
                IF s = handler[h].pred /\ s \in known
                THEN runs'[s] = Retire(runs[s]) ELSE runs'[s] = runs[s]
<1> DEFINE p == handler[h].pred
           d == IF p = None THEN 0 ELSE runs[p].links + 1
<1>1. p \in RunId \cup {None} /\ d \in Nat
  BY DEF TypeOK, HandlerRecord, RunRecord
<1>2. runs' = [s \in RunId |->
                 CASE s = r -> NewRun(p, d)
                   [] s = p /\ p \in known -> Retire(runs[s])
                   [] OTHER -> runs[s]]
  BY DEF Admit
<1> HIDE DEF d
<1>3. p # r
  BY NoneAssumption DEF Admit, MintedInv
<1>4. runs'[r] = NewRun(p, d)  BY <1>2, <1>3
<1>5. ASSUME NEW s \in RunId \ {r}
      PROVE  IF s = p /\ s \in known
             THEN runs'[s] = Retire(runs[s]) ELSE runs'[s] = runs[s]
  BY <1>2, <1>5
<1>6. /\ NewRun(p, d).state = "running" /\ ~NewRun(p, d).retiring
      /\ NewRun(p, d).rec /\ NewRun(p, d).pending = None
      /\ ~NewRun(p, d).asked /\ NewRun(p, d).resumedFrom = p
  BY DEF NewRun, NoRun
<1> QED BY <1>1, <1>3, <1>4, <1>5, <1>6

(* A handler's step keeps ids that Start has not used as they are.         *)
LEMMA HandlerMinted ==
    ASSUME TypeOK, MintedInv, NEW h \in Handler, HandlerStep(h)
    PROVE  UnmintedIsNoRun' /\ \A s \in RunId : Minted(s) => Minted(s)'
<1> USE MintedParts
<1>1. CASE BeginAsk(h) \/ BeginContinue(h) \/ Launch(h)
  BY <1>1, QuietHandler, QuietMinted
<1>2. ASSUME NEW p \in RunId, Take(h, p)
      PROVE  UnmintedIsNoRun' /\ \A s \in RunId : Minted(s) => Minted(s)'
  BY <1>2 DEF Take, MayTakeContinuation, TakeContinuation, UnmintedIsNoRun, Minted,
             TypeOK, RunRecord
<1>3. CASE RefuseContinuation(h)
  BY <1>3 DEF RefuseContinuation, SetContinuation, UnmintedIsNoRun, HoldsMinted,
             Minted, TypeOK, RunRecord, HandlerRecord
<1>4. ASSUME NEW r \in RunId, Admit(h, r)
      PROVE  UnmintedIsNoRun' /\ \A s \in RunId : Minted(s) => Minted(s)'
  <2> DEFINE p == handler[h].pred
  <2>1. \A s \in RunId : Retire(runs[s]).state = runs[s].state
    BY DEF Retire, TypeOK, RunRecord
  <2>2. p # None => Minted(p)  BY DEF HoldsMinted
  <2>3. super' = super  BY <1>4 DEF Admit
  <2>5. ASSUME NEW s \in RunId, Minted(s)  PROVE Minted(s)'
    BY <1>4, <2>1, <2>5, AdmitShape DEF Minted
  <2>6. ASSUME NEW s \in RunId, ~Minted(s)'  PROVE runs'[s] = NoRun /\ super'[s] = "none"
    <3>1. s # r /\ ~Minted(s)
      BY <1>4, <2>5, <2>6, AdmitShape DEF Minted
    <3>2. s # p  BY <2>2, <3>1, NoneAssumption
    <3> QED BY <1>4, <2>3, <3>1, <3>2, AdmitShape DEF UnmintedIsNoRun
  <2> QED BY <2>5, <2>6 DEF UnmintedIsNoRun
<1>5. CASE RefuseStart(h)
  BY <1>5 DEF RefuseStart, SetContinuation, UnmintedIsNoRun, HoldsMinted,
             Minted, TypeOK, RunRecord, HandlerRecord
<1>6. CASE SupersedePredecessor(h)
  BY <1>6 DEF SupersedePredecessor, Supersede, UnmintedIsNoRun, HoldsMinted,
             Minted, TypeOK, RunRecord, HandlerRecord
<1> QED BY <1>1, <1>2, <1>3, <1>4, <1>5, <1>6 DEF HandlerStep

(* A handler that holds a run, before or after its step, holds one that    *)
(* exists.                                                                 *)
LEMMA HandlerHolds ==
    ASSUME TypeOK, MintedInv, NEW h \in Handler, HandlerStep(h)
    PROVE  HoldsMinted(h)' /\ \A g \in Handler \ {h} : handler'[g] = handler[g]
<1> USE MintedParts, HandlerMinted DEF HoldsMinted, TypeOK, HandlerRecord
<1>1. HoldsMinted(h)  OBVIOUS
<1>2. \A s \in RunId : Minted(s) => Minted(s)'  OBVIOUS
<1>3. CASE BeginAsk(h)  BY <1>1, <1>2, <1>3 DEF BeginAsk
<1>4. ASSUME NEW p \in RunId, Take(h, p)
      PROVE  HoldsMinted(h)' /\ \A g \in Handler \ {h} : handler'[g] = handler[g]
  <2>1. Minted(p)  BY <1>4 DEF Take, MayTakeContinuation, Minted
  <2> QED BY <1>2, <1>4, <2>1, NoneAssumption DEF Take
<1>5. CASE RefuseContinuation(h)
  BY <1>5 DEF RefuseContinuation, IdleHandler
<1>6. CASE BeginContinue(h)  BY <1>1, <1>2, <1>6 DEF BeginContinue
<1>7. ASSUME NEW r \in RunId, Admit(h, r)
      PROVE  HoldsMinted(h)' /\ \A g \in Handler \ {h} : handler'[g] = handler[g]
  <2>1. Minted(r)'  BY <1>7, AdmitShape DEF Minted
  <2> QED BY <1>1, <1>2, <1>7, <2>1, NoneAssumption DEF Admit
<1>8. CASE RefuseStart(h)  BY <1>8 DEF RefuseStart, IdleHandler
<1>9. CASE Launch(h)  BY <1>1, <1>2, <1>9 DEF Launch, IdleHandler
<1>10. CASE SupersedePredecessor(h)
  BY <1>10 DEF SupersedePredecessor, IdleHandler
<1> QED BY <1>3, <1>4, <1>5, <1>6, <1>7, <1>8, <1>9, <1>10 DEF HandlerStep

(* MintedInv is inductive.                                                 *)
LEMMA MintedNext == TypeOK /\ MintedInv /\ [Next]_vars => MintedInv'
<1> SUFFICES ASSUME TypeOK, MintedInv, [Next]_vars  PROVE MintedInv'  OBVIOUS
<1>1. MintedInv' <=> UnmintedIsNoRun' /\ \A h \in Handler : HoldsMinted(h)'
  BY DEF MintedInv, UnmintedIsNoRun, HoldsMinted
<1>2. ASSUME QuietStep, UNCHANGED handler  PROVE MintedInv'
  BY <1>1, <1>2, MintedParts, QuietMinted DEF HoldsMinted, TypeOK, HandlerRecord
<1>3. CASE Lookup  BY <1>2, <1>3, QuietSweep DEF Lookup
<1>4. ASSUME NEW h \in Handler, HandlerStep(h)  PROVE MintedInv'
  BY <1>1, <1>4, HandlerMinted, HandlerHolds, OtherHandlers
<1>5. ASSUME NEW r \in RunId, RunStep(r)  PROVE MintedInv'
  BY <1>2, <1>5, QuietRun
<1>6. CASE UNCHANGED vars
  BY <1>6 DEF vars, MintedInv, Minted
<1> QED BY <1>3, <1>4, <1>5, <1>6 DEF Next

(* Handlers and supervisors only ever act on runs that Start has made.     *)
THEOREM MintedCorrect == Spec => []MintedInv
<1>1. Init => MintedInv
  BY DEF Init, MintedInv, Minted, NoRun, IdleHandler
<1> QED BY <1>1, MintedNext, TypeCorrect, PTL DEF Spec

-----------------------------------------------------------------------------
(* The slot bound *)

(* A step after which no run occupies a slot that did not before. *)
NoNewLive == \A s \in RunId : CountsAsLive(runs'[s]) => CountsAsLive(runs[s])

(* A quiet step gives nobody a slot.                                       *)
LEMMA QuietNoNewLive ==
    ASSUME TypeOK, UnmintedIsNoRun, QuietStep
    PROVE  NoNewLive
BY DEF QuietStep, Quiet, Minted, NoNewLive, CountsAsLive, UnmintedIsNoRun, NoRun

(* A step that gives nobody a slot, and forgets no run that has one, keeps *)
(* SlotInv.                                                                *)
LEMMA ShrinkSlots ==
    ASSUME SlotInv, NoNewLive, known' \in SUBSET known,
           \A s \in known \ known' : ~CountsAsLive(runs'[s])
    PROVE  SlotInv'
<1>1. IsFiniteSet(known')  BY FS_Subset DEF SlotInv
<1>2. \A s \in RunId : CountsAsLive(runs'[s]) => s \in known'
  BY DEF SlotInv, NoNewLive
<1>3. LiveRuns \subseteq known  BY DEF SlotInv, LiveRuns
<1>4. IsFiniteSet(LiveRuns)  BY <1>3, FS_Subset DEF SlotInv
<1>5. LiveRuns' \subseteq LiveRuns  BY DEF LiveRuns, NoNewLive
<1>6. IsFiniteSet(LiveRuns') /\ Cardinality(LiveRuns') <= Cardinality(LiveRuns)
  BY <1>4, <1>5, FS_Subset
<1>7. Cardinality(LiveRuns') \in Nat /\ Cardinality(LiveRuns) \in Nat
  BY <1>4, <1>6, FS_CardinalityType
<1>8. Cardinality(LiveRuns') <= MaxLive
  BY <1>6, <1>7, RegistryAssumption DEF SlotInv, SlotBound
<1> QED BY <1>1, <1>2, <1>8 DEF SlotInv, SlotBound

(* Start's critical section keeps SlotInv: the predecessor it leaves out   *)
(* of the count is the one it retires.                                     *)
LEMMA AdmitSlots ==
    ASSUME TypeOK, MintedInv, SlotInv, NEW h \in Handler, NEW r \in RunId, Admit(h, r)
    PROVE  SlotInv'
<1> DEFINE p == handler[h].pred
           others == {s \in known \ {p} : CountsAsLive(runs[s])}
<1>1. known' = known \cup {r}  BY DEF Admit
<1>2. IsFiniteSet(known')  BY <1>1, FS_AddElement DEF SlotInv
<1>3. ASSUME NEW s \in RunId \ {r}, CountsAsLive(runs'[s])
      PROVE  s \in others
  <2>1. CASE s = p /\ s \in known
    <3>1. runs'[s] = Retire(runs[s])  BY <2>1, AdmitShape
    <3>2. Retire(runs[s]).retiring  BY DEF Retire, TypeOK, RunRecord
    <3> QED BY <1>3, <3>1, <3>2 DEF CountsAsLive
  <2>2. CASE ~(s = p /\ s \in known)
    <3>1. runs'[s] = runs[s]  BY <2>2, AdmitShape
    <3> QED BY <1>3, <2>2, <3>1 DEF SlotInv
  <2> QED BY <2>1, <2>2
<1>4. \A s \in RunId : CountsAsLive(runs'[s]) => s \in known'
  BY <1>1, <1>3
<1>5. LiveRuns' \subseteq others \cup {r}  BY <1>3 DEF LiveRuns
<1>6. IsFiniteSet(others)  BY FS_Subset DEF SlotInv
<1>7. Cardinality(others) < MaxLive  BY DEF Admit, LiveCountExcluding
<1>8. /\ IsFiniteSet(others \cup {r})
      /\ Cardinality(others \cup {r}) <= Cardinality(others) + 1
  <2> HIDE DEF others
  <2>1. Cardinality(others) \in Nat  BY <1>6, FS_CardinalityType
  <2>2. /\ IsFiniteSet(others \cup {r})
        /\ Cardinality(others \cup {r}) =
              IF r \in others THEN Cardinality(others) ELSE Cardinality(others) + 1
    BY <1>6, FS_AddElement
  <2> QED BY <2>1, <2>2
<1>9. Cardinality(LiveRuns') <= Cardinality(others \cup {r}) /\ IsFiniteSet(LiveRuns')
  BY <1>5, <1>8, FS_Subset
<1>10. /\ Cardinality(LiveRuns') \in Nat /\ Cardinality(others) \in Nat
       /\ Cardinality(others \cup {r}) \in Nat
  BY <1>6, <1>8, <1>9, FS_CardinalityType
<1>11. Cardinality(LiveRuns') <= MaxLive
  BY <1>7, <1>8, <1>9, <1>10, RegistryAssumption
<1> QED BY <1>2, <1>4, <1>11 DEF SlotInv, SlotBound

(* Every other step of a handler gives nobody a slot.                      *)
LEMMA HandlerSlots ==
    ASSUME TypeOK, MintedInv, SlotInv, NEW h \in Handler, HandlerStep(h)
    PROVE  SlotInv'
<1>1. ASSUME NoNewLive, known' = known  PROVE SlotInv'
  BY <1>1, ShrinkSlots DEF TypeOK
<1>2. CASE BeginAsk(h) \/ BeginContinue(h) \/ Launch(h)
  <2>1. known' = known  BY <1>2 DEF BeginAsk, BeginContinue, Launch
  <2> QED BY <1>1, <1>2, <2>1, QuietHandler, QuietNoNewLive, MintedParts
<1>3. ASSUME NEW p \in RunId, Take(h, p)  PROVE SlotInv'
  <2>1. NoNewLive
    BY <1>3 DEF Take, TakeContinuation, NoNewLive, CountsAsLive, TypeOK, RunRecord
  <2> QED BY <1>1, <1>3, <2>1 DEF Take
<1>4. CASE RefuseContinuation(h)
  <2>1. NoNewLive
    BY <1>4 DEF RefuseContinuation, SetContinuation, NoNewLive, CountsAsLive,
               TypeOK, RunRecord
  <2> QED BY <1>1, <1>4, <2>1 DEF RefuseContinuation
<1>5. CASE RefuseStart(h)
  <2>1. NoNewLive
    BY <1>5 DEF RefuseStart, SetContinuation, NoNewLive, CountsAsLive,
               TypeOK, RunRecord
  <2> QED BY <1>1, <1>5, <2>1 DEF RefuseStart
<1>6. CASE SupersedePredecessor(h)
  <2>1. NoNewLive
    BY <1>6 DEF SupersedePredecessor, Supersede, NoNewLive, CountsAsLive,
               TypeOK, RunRecord
  <2> QED BY <1>1, <1>6, <2>1 DEF SupersedePredecessor
<1> QED BY <1>2, <1>3, <1>4, <1>5, <1>6, AdmitSlots DEF HandlerStep

(* SlotInv is inductive, given the types and MintedInv.                    *)
LEMMA SlotNext == TypeOK /\ MintedInv /\ SlotInv /\ [Next]_vars => SlotInv'
<1> SUFFICES ASSUME TypeOK, MintedInv, SlotInv, [Next]_vars  PROVE SlotInv'
  OBVIOUS
<1>1. CASE Lookup
  <2>1. NoNewLive  BY <1>1, QuietSweep, QuietNoNewLive, MintedParts DEF Lookup
  <2>2. \A s \in known \ known' : ~CountsAsLive(runs'[s])
    BY <1>1 DEF Lookup, Sweep, IsDue, IsTerminal, CountsAsLive, TypeOK
  <2> QED BY <1>1, <2>1, <2>2, ShrinkSlots DEF Lookup
<1>2. ASSUME NEW r \in RunId, RunStep(r)  PROVE SlotInv'
  BY <1>2, QuietRun, QuietNoNewLive, MintedParts, ShrinkSlots
<1>3. CASE UNCHANGED vars
  BY <1>3 DEF vars, SlotInv, SlotBound, LiveRuns
<1> QED BY <1>1, <1>2, <1>3, HandlerSlots DEF Next

(* No run, no slot taken.                                                  *)
LEMMA SlotInit == Init => SlotInv
<1> SUFFICES ASSUME Init  PROVE SlotInv  OBVIOUS
<1>1. LiveRuns = {}  BY DEF Init, LiveRuns, CountsAsLive, NoRun
<1> QED BY <1>1, FS_EmptySet, RegistryAssumption
        DEF Init, SlotInv, SlotBound, CountsAsLive, NoRun

(* However many continuations race, and although a successor is admitted   *)
(* before its predecessor leaves needs_input, no more than MaxLive runs    *)
(* occupy a slot.                                                          *)
THEOREM SlotsCorrect == Spec => []SlotBound
<1>1. SlotInv => SlotBound  BY DEF SlotInv
<1> QED BY <1>1, SlotInit, SlotNext, TypeCorrect, MintedCorrect, PTL DEF Spec

-----------------------------------------------------------------------------
(* One continuation record, one successor *)

(* A quiet step that leaves the handlers' records alone keeps ChainInv.    *)
LEMMA QuietChain ==
    ASSUME TypeOK, MintedInv, ChainInv, QuietStep,
           \A h \in Handler, p \in RunId : Holds(h, p)' <=> Holds(h, p)
    PROVE  ChainInv'
<1>1. ASSUME NEW s \in RunId
      PROVE  /\ runs'[s].rec = runs[s].rec
             /\ runs'[s].resumedFrom = runs[s].resumedFrom
             /\ runs'[s].retiring = runs[s].retiring
             /\ runs'[s].state = "running" => runs[s].state = "running"
             /\ runs'[s].state = "needs_input" =>
                   runs[s].state \in {"running", "needs_input"}
             /\ Minted(s) => Minted(s)'
  BY DEF QuietStep, Quiet, Minted
<1>2. \A g, h \in Handler, p \in RunId : Holds(g, p)' /\ Holds(h, p)' => g = h
  BY DEF ChainInv
<1>3. \A h \in Handler, p \in RunId :
         Holds(h, p)' => ~runs'[p].rec /\ \A s \in RunId : runs'[s].resumedFrom # p
  BY <1>1 DEF ChainInv
<1>4. \A p, s \in RunId : runs'[s].resumedFrom = p => ~runs'[p].rec /\ Minted(p)'
  BY <1>1 DEF ChainInv
<1>5. \A s \in RunId : runs'[s].state = "running" => runs'[s].rec
  BY <1>1 DEF ChainInv
<1>6. OneSuccessor'  BY <1>1 DEF ChainInv, OneSuccessor
<1>7. RecordNotLost'
  <2>1. ASSUME NEW p \in RunId, runs'[p].state = "needs_input",
               ~runs'[p].rec, ~runs'[p].retiring
        PROVE  \E h \in Handler : Holds(h, p)'
    BY <1>1, <2>1 DEF ChainInv, RecordNotLost, Holds
  <2> QED BY <2>1 DEF RecordNotLost, Holds
<1> QED BY <1>2, <1>3, <1>4, <1>5, <1>6, <1>7 DEF ChainInv

(* What a method that only moves the record does to it. *)
LEMMA RecordMethods ==
    ASSUME NEW a \in RunRecord
    PROVE  /\ ~TakeContinuation(a).rec /\ SetContinuation(a).rec
           /\ \A b \in {TakeContinuation(a), SetContinuation(a), Retire(a)} :
                 b.resumedFrom = a.resumedFrom /\ b.state = a.state
           /\ TakeContinuation(a).retiring = a.retiring
           /\ SetContinuation(a).retiring = a.retiring
           /\ Retire(a).retiring /\ Retire(a).rec = a.rec
           /\ \A s : LET b == Supersede(a, s) IN
                 /\ b.resumedFrom = a.resumedFrom
                 /\ b.state = "running" => a.state = "running"
                 /\ b = a \/ (b.state = "superseded" /\ ~b.rec)
BY DEF TakeContinuation, SetContinuation, Retire, Supersede, RunRecord

(* TakeContinuation moves the record from the run to one handler.          *)
LEMMA TakeChain ==
    ASSUME TypeOK, MintedInv, ChainInv, NEW h \in Handler, NEW p \in RunId, Take(h, p)
    PROVE  ChainInv'
<1>1. /\ runs' = [runs EXCEPT ![p] = TakeContinuation(runs[p])]
      /\ runs[p].state = "needs_input" /\ runs[p].rec
  BY DEF Take, MayTakeContinuation
<1>2. \A s \in RunId : runs[s] \in RunRecord  BY DEF TypeOK
<1>3. \A s \in RunId : /\ runs'[s].resumedFrom = runs[s].resumedFrom
                       /\ runs'[s].state = runs[s].state
                       /\ runs'[s].retiring = runs[s].retiring
                       /\ runs'[s].rec <=> s # p /\ runs[s].rec
  <2> SUFFICES ASSUME NEW s \in RunId
               PROVE  /\ runs'[s].resumedFrom = runs[s].resumedFrom
                      /\ runs'[s].state = runs[s].state
                      /\ runs'[s].retiring = runs[s].retiring
                      /\ runs'[s].rec <=> s # p /\ runs[s].rec
    OBVIOUS
  <2>1. CASE s = p
    <3>1. runs'[s] = TakeContinuation(runs[s])  BY <1>1, <2>1 DEF TypeOK
    <3> QED BY <1>2, <2>1, <3>1, RecordMethods
  <2>2. CASE s # p
    <3>1. runs'[s] = runs[s]  BY <1>1, <2>2 DEF TypeOK
    <3> QED BY <2>2, <3>1
  <2> QED BY <2>1, <2>2
<1>4. \A g \in Handler, s \in RunId :
         Holds(g, s)' <=> Holds(g, s) \/ (g = h /\ s = p)
  BY DEF Take, Holds, TypeOK, HandlerRecord, MintedInv
<1>5. \A g \in Handler : ~Holds(g, p)  BY <1>1 DEF ChainInv
<1>6. \A s \in RunId : ~Holds(h, s)  BY DEF Take, Holds
<1>7. \A f, g \in Handler, s \in RunId : Holds(f, s)' /\ Holds(g, s)' => f = g
  BY <1>4, <1>5 DEF ChainInv
<1>8. \A g \in Handler, q \in RunId :
         Holds(g, q)' => ~runs'[q].rec /\ \A s \in RunId : runs'[s].resumedFrom # q
  BY <1>1, <1>3, <1>4 DEF ChainInv
<1>9. \A q, s \in RunId : runs'[s].resumedFrom = q => ~runs'[q].rec /\ Minted(q)'
  BY <1>3 DEF ChainInv, Minted
<1>10. \A s \in RunId : runs'[s].state = "running" => runs'[s].rec
  BY <1>1, <1>3 DEF ChainInv
<1>11. OneSuccessor'  BY <1>3 DEF ChainInv, OneSuccessor
<1>12. RecordNotLost'
  <2>1. ASSUME NEW q \in RunId, runs'[q].state = "needs_input",
               ~runs'[q].rec, ~runs'[q].retiring
        PROVE  \E g \in Handler : Holds(g, q)'
    <3>1. CASE q = p  BY <1>4, <3>1
    <3>2. CASE q # p
      BY <1>3, <1>4, <2>1, <3>2 DEF ChainInv, RecordNotLost, Holds
    <3> QED BY <3>1, <3>2
  <2> QED BY <2>1 DEF RecordNotLost, Holds
<1> QED BY <1>7, <1>8, <1>9, <1>10, <1>11, <1>12 DEF ChainInv

(* Handler h gives back the record it took from p, whatever refused it. *)
LEMMA RestoreChain ==
    ASSUME TypeOK, MintedInv, ChainInv, NEW h \in Handler, NEW p \in RunId,
           Holds(h, p), runs' = [runs EXCEPT ![p] = SetContinuation(runs[p])],
           handler' = [handler EXCEPT ![h] = IdleHandler]
    PROVE  ChainInv'
<1>1. \A s \in RunId : runs[s] \in RunRecord  BY DEF TypeOK
<1>2. \A s \in RunId : /\ runs'[s].resumedFrom = runs[s].resumedFrom
                       /\ runs'[s].state = runs[s].state
                       /\ runs'[s].retiring = runs[s].retiring
                       /\ runs'[s].rec <=> s = p \/ runs[s].rec
  <2> SUFFICES ASSUME NEW s \in RunId
               PROVE  /\ runs'[s].resumedFrom = runs[s].resumedFrom
                      /\ runs'[s].state = runs[s].state
                      /\ runs'[s].retiring = runs[s].retiring
                      /\ runs'[s].rec <=> s = p \/ runs[s].rec
    OBVIOUS
  <2>1. CASE s = p
    <3>1. runs'[s] = SetContinuation(runs[s])  BY <2>1 DEF TypeOK
    <3> QED BY <1>1, <2>1, <3>1, RecordMethods
  <2>2. CASE s # p
    <3>1. runs'[s] = runs[s]  BY <2>2 DEF TypeOK
    <3> QED BY <2>2, <3>1
  <2> QED BY <2>1, <2>2
<1>3. \A g \in Handler, s \in RunId : Holds(g, s)' <=> g # h /\ Holds(g, s)
  BY DEF Holds, TypeOK, HandlerRecord, IdleHandler
<1>4. \A g \in Handler : ~Holds(g, p)'  BY <1>3 DEF ChainInv
<1>5. \A s \in RunId : Holds(h, s) => s = p  BY DEF Holds
<1>6. \A f, g \in Handler, s \in RunId : Holds(f, s)' /\ Holds(g, s)' => f = g
  BY <1>3 DEF ChainInv
<1>7. \A g \in Handler, q \in RunId :
         Holds(g, q)' => ~runs'[q].rec /\ \A s \in RunId : runs'[s].resumedFrom # q
  BY <1>2, <1>3, <1>4 DEF ChainInv
<1>8. \A q, s \in RunId : runs'[s].resumedFrom = q => ~runs'[q].rec /\ Minted(q)'
  BY <1>2 DEF ChainInv, Minted
<1>9. \A s \in RunId : runs'[s].state = "running" => runs'[s].rec
  BY <1>2 DEF ChainInv
<1>10. OneSuccessor'  BY <1>2 DEF ChainInv, OneSuccessor
<1>11. RecordNotLost'
  <2>1. ASSUME NEW q \in RunId, runs'[q].state = "needs_input",
               ~runs'[q].rec, ~runs'[q].retiring
        PROVE  \E g \in Handler : Holds(g, q)'
    <3>1. q # p  BY <1>2, <2>1
    <3>2. PICK g \in Handler : Holds(g, q)
      BY <1>2, <2>1 DEF ChainInv, RecordNotLost, Holds
    <3> QED BY <1>3, <1>5, <3>1, <3>2
  <2> QED BY <2>1 DEF RecordNotLost, Holds
<1> QED BY <1>6, <1>7, <1>8, <1>9, <1>10, <1>11 DEF ChainInv

(* Start spends the record the handler holds on the successor.             *)
LEMMA AdmitChain ==
    ASSUME TypeOK, MintedInv, SlotInv, ChainInv, NEW h \in Handler, NEW r \in RunId,
           Admit(h, r)
    PROVE  ChainInv'
<1> DEFINE p == handler[h].pred
<1>1. /\ runs'[r].state = "running" /\ runs'[r].rec /\ runs'[r].resumedFrom = p
      /\ p # r /\ p \in RunId \cup {None}
  BY AdmitShape DEF TypeOK, HandlerRecord
<1>2. ASSUME NEW s \in RunId \ {r}
      PROVE  /\ runs'[s].rec = runs[s].rec
             /\ runs'[s].resumedFrom = runs[s].resumedFrom
             /\ runs'[s].state = runs[s].state
             /\ runs'[s].retiring <=> runs[s].retiring \/ (s = p /\ s \in known)
  <2>1. CASE s = p /\ s \in known
    <3>1. runs'[s] = Retire(runs[s])  BY <2>1, AdmitShape
    <3> QED BY <2>1, <3>1, RecordMethods DEF TypeOK
  <2>2. CASE ~(s = p /\ s \in known)
    <3>1. runs'[s] = runs[s]  BY <2>2, AdmitShape
    <3> QED BY <2>2, <3>1
  <2> QED BY <2>1, <2>2
<1>3. runs[r] = NoRun /\ ~Minted(r)  BY DEF Admit, MintedInv
<1>4. \A g \in Handler, s \in RunId : Holds(g, s)' <=> g # h /\ Holds(g, s)
  BY DEF Admit, Holds, TypeOK, HandlerRecord
<1>5. \A g \in Handler, s \in RunId : Holds(g, s) => s # r
  BY <1>3, NoneAssumption DEF Holds, MintedInv
<1>6. p # None => p \in RunId /\ Holds(h, p)
  BY <1>1 DEF Admit, Holds
<1>7. \A s \in RunId : runs[s].resumedFrom # r
  BY <1>3 DEF ChainInv
<1>8. \A f, g \in Handler, s \in RunId : Holds(f, s)' /\ Holds(g, s)' => f = g
  BY <1>4 DEF ChainInv
<1>9. ASSUME NEW g \in Handler, NEW q \in RunId, Holds(g, q)'
      PROVE  ~runs'[q].rec /\ \A s \in RunId : runs'[s].resumedFrom # q
  <2>1. g # h /\ Holds(g, q) /\ q # r  BY <1>4, <1>5, <1>9
  <2>2. q # p  BY <1>6, <2>1, NoneAssumption DEF ChainInv
  <2> QED BY <1>1, <1>2, <2>1, <2>2 DEF ChainInv
<1>10. ASSUME NEW q \in RunId, NEW s \in RunId, runs'[s].resumedFrom = q
       PROVE  ~runs'[q].rec /\ Minted(q)'
  <2>1. CASE s = r
    <3>1. q = p /\ q # r /\ Holds(h, q)
      BY <1>1, <1>6, <1>10, <2>1, NoneAssumption
    <3>2. ~runs[q].rec /\ Minted(q)
      BY <3>1, NoneAssumption DEF ChainInv, MintedInv
    <3> QED BY <1>2, <3>1, <3>2 DEF Minted
  <2>2. CASE s # r
    <3>1. runs[s].resumedFrom = q /\ q # r  BY <1>2, <1>7, <1>10, <2>2
    <3> QED BY <1>2, <3>1 DEF ChainInv, Minted
  <2> QED BY <2>1, <2>2
<1>11. \A s \in RunId : runs'[s].state = "running" => runs'[s].rec
  BY <1>1, <1>2 DEF ChainInv
<1>12. OneSuccessor'
  <2> SUFFICES ASSUME NEW s \in RunId, NEW t \in RunId, runs'[s].resumedFrom # None,
                      runs'[s].resumedFrom = runs'[t].resumedFrom
               PROVE  s = t
    BY DEF OneSuccessor
  <2>1. CASE s # r /\ t # r
    BY <1>2, <2>1 DEF ChainInv, OneSuccessor
  <2>2. p # None => \A u \in RunId : runs[u].resumedFrom # p
    BY <1>6 DEF ChainInv
  <2>3. CASE s = r /\ t # r  BY <1>1, <1>2, <2>2, <2>3
  <2>4. CASE s # r /\ t = r  BY <1>1, <1>2, <2>2, <2>4
  <2> QED BY <2>1, <2>3, <2>4
<1>13. RecordNotLost'
  <2>1. ASSUME NEW q \in RunId, runs'[q].state = "needs_input",
               ~runs'[q].rec, ~runs'[q].retiring
        PROVE  \E g \in Handler : Holds(g, q)'
    <3>1. /\ q # r /\ runs[q].state = "needs_input"
          /\ ~runs[q].rec /\ ~runs[q].retiring
      BY <1>1, <1>2, <2>1
    <3>2. q \in known  BY <3>1 DEF SlotInv, CountsAsLive
    <3>3. q # p  BY <1>2, <2>1, <3>1, <3>2
    <3>4. PICK g \in Handler : Holds(g, q)
      BY <3>1 DEF ChainInv, RecordNotLost, Holds
    <3>5. g # h  BY <3>3, <3>4 DEF Holds
    <3> QED BY <1>4, <3>4, <3>5
  <2> QED BY <2>1 DEF RecordNotLost, Holds
<1> QED BY <1>8, <1>9, <1>10, <1>11, <1>12, <1>13 DEF ChainInv

(* Superseding a run whose record is spent disturbs no chain.              *)
LEMMA SupersedeChain ==
    ASSUME TypeOK, MintedInv, ChainInv, NEW h \in Handler, SupersedePredecessor(h)
    PROVE  ChainInv'
<1> DEFINE p == handler[h].pred
<1>1. p \in RunId /\ Minted(p)
  BY DEF SupersedePredecessor, TypeOK, HandlerRecord, MintedInv
<1>2. ASSUME NEW s \in RunId
      PROVE  /\ runs'[s].resumedFrom = runs[s].resumedFrom
             /\ runs'[s].state = "running" => runs[s].state = "running"
             /\ \/ runs'[s] = runs[s]
                \/ runs'[s].state = "superseded" /\ ~runs'[s].rec
  <2>1. CASE s = p
    <3>1. runs'[s] = Supersede(runs[s], handler[h].succ)
      BY <2>1 DEF SupersedePredecessor, TypeOK
    <3> QED BY <3>1, RecordMethods DEF TypeOK
  <2>2. CASE s # p
    BY <2>2 DEF SupersedePredecessor, TypeOK
  <2> QED BY <2>1, <2>2
<1>3. \A g \in Handler, s \in RunId : Holds(g, s)' <=> Holds(g, s)
  BY DEF SupersedePredecessor, Holds, TypeOK, HandlerRecord, IdleHandler
<1>4. \A f, g \in Handler, s \in RunId : Holds(f, s)' /\ Holds(g, s)' => f = g
  BY <1>3 DEF ChainInv
<1>5. \A g \in Handler, q \in RunId :
         Holds(g, q)' => ~runs'[q].rec /\ \A s \in RunId : runs'[s].resumedFrom # q
  BY <1>2, <1>3 DEF ChainInv
<1>6. \A q, s \in RunId : runs'[s].resumedFrom = q => ~runs'[q].rec /\ Minted(q)'
  BY <1>2 DEF ChainInv, Minted
<1>7. \A s \in RunId : runs'[s].state = "running" => runs'[s].rec
  BY <1>2 DEF ChainInv
<1>8. OneSuccessor'  BY <1>2 DEF ChainInv, OneSuccessor
<1>9. RecordNotLost'
  <2>1. ASSUME NEW q \in RunId, runs'[q].state = "needs_input",
               ~runs'[q].rec, ~runs'[q].retiring
        PROVE  \E g \in Handler : Holds(g, q)'
    BY <1>2, <1>3, <2>1 DEF ChainInv, RecordNotLost, Holds
  <2> QED BY <2>1 DEF RecordNotLost, Holds
<1> QED BY <1>4, <1>5, <1>6, <1>7, <1>8, <1>9 DEF ChainInv

(* Every step of a handler keeps ChainInv.                                 *)
LEMMA HandlerChain ==
    ASSUME TypeOK, MintedInv, SlotInv, ChainInv, NEW h \in Handler, HandlerStep(h)
    PROVE  ChainInv'
<1>1. CASE BeginAsk(h) \/ BeginContinue(h) \/ Launch(h)
  <2>1. \A g \in Handler, p \in RunId : Holds(g, p)' <=> Holds(g, p)
    BY <1>1, NoneAssumption
    DEF BeginAsk, BeginContinue, Launch, Holds, MintedInv, TypeOK, HandlerRecord,
        IdleHandler
  <2> QED BY <1>1, <2>1, QuietHandler, QuietChain
<1>2. CASE RefuseContinuation(h)
  <2>1. handler[h].pred \in RunId /\ Holds(h, handler[h].pred)
    BY <1>2 DEF RefuseContinuation, MintedInv, Holds, TypeOK, HandlerRecord
  <2> QED BY <1>2, <2>1, RestoreChain DEF RefuseContinuation
<1>3. CASE RefuseStart(h)
  <2>1. CASE handler[h].pred = None
    <3>1. \A g \in Handler, p \in RunId : Holds(g, p)' <=> Holds(g, p)
      BY <1>3, <2>1, NoneAssumption
      DEF RefuseStart, Holds, TypeOK, HandlerRecord, IdleHandler
    <3>2. runs' = runs /\ super' = super  BY <1>3, <2>1 DEF RefuseStart
    <3>3. QuietStep  BY <3>2, QuietMethods DEF QuietStep, TypeOK, Minted
    <3> QED BY <3>1, <3>3, QuietChain
  <2>2. CASE handler[h].pred # None
    <3>1. handler[h].pred \in RunId /\ Holds(h, handler[h].pred)
      BY <1>3, <2>2 DEF RefuseStart, Holds, TypeOK, HandlerRecord
    <3> QED BY <1>3, <2>2, <3>1, RestoreChain DEF RefuseStart
  <2> QED BY <2>1, <2>2
<1> QED BY <1>1, <1>2, <1>3, TakeChain, AdmitChain, SupersedeChain DEF HandlerStep

(* ChainInv is inductive, given the types, MintedInv and SlotInv.          *)
LEMMA ChainNext ==
    TypeOK /\ MintedInv /\ SlotInv /\ ChainInv /\ [Next]_vars => ChainInv'
<1> SUFFICES ASSUME TypeOK, MintedInv, SlotInv, ChainInv, [Next]_vars
             PROVE  ChainInv'
  OBVIOUS
<1>1. ASSUME QuietStep, UNCHANGED handler  PROVE ChainInv'
  BY <1>1, QuietChain DEF Holds
<1>2. CASE Lookup  BY <1>1, <1>2, QuietSweep DEF Lookup
<1>3. ASSUME NEW r \in RunId, RunStep(r)  PROVE ChainInv'
  BY <1>1, <1>3, QuietRun
<1>4. CASE UNCHANGED vars
  BY <1>4 DEF vars, ChainInv, Holds, Minted, OneSuccessor, RecordNotLost
<1> QED BY <1>2, <1>3, <1>4, HandlerChain DEF Next

(* No run, no record.                                                      *)
LEMMA ChainInit == Init => ChainInv
BY NoneAssumption
DEF Init, ChainInv, Holds, OneSuccessor, RecordNotLost, NoRun, IdleHandler

(* The continuation record of a run is in one place at a time. *)
THEOREM ChainCorrect == Spec => []ChainInv
BY SlotInit, SlotNext, ChainInit, ChainNext, TypeCorrect, MintedCorrect, PTL DEF Spec

(* No run has two successors, however many answers race to continue it. *)
THEOREM SuccessorsCorrect == Spec => []OneSuccessor
<1>1. ChainInv => OneSuccessor  BY DEF ChainInv
<1> QED BY <1>1, ChainCorrect, PTL

(* No refused continuation loses the record of a resting run. *)
THEOREM RecordsCorrect == Spec => []RecordNotLost
<1>1. ChainInv => RecordNotLost  BY DEF ChainInv
<1> QED BY <1>1, ChainCorrect, PTL

-----------------------------------------------------------------------------
(* Chains are bounded *)

(* No run changes its place in its chain. *)
KeepsLinks ==
    \A s \in RunId : /\ runs'[s].links = runs[s].links
                     /\ runs'[s].resumedFrom = runs[s].resumedFrom

(* A quiet step changes no chain. *)
LEMMA QuietLinks == QuietStep => KeepsLinks
BY DEF QuietStep, Quiet, KeepsLinks

(* A step that changes no chain, and brings no handler with a predecessor  *)
(* past CheckDepth, keeps DepthInv.                                        *)
LEMMA KeepDepth ==
    ASSUME TypeOK, DepthInv, KeepsLinks,
           \A g \in Handler :
              (handler'[g].pc = "swept" /\ handler'[g].pred # None) =>
                  handler[g].pc = "swept" /\ handler'[g].pred = handler[g].pred
    PROVE  DepthInv'
<1>1. ChainBound'
  BY DEF DepthInv, ChainBound, KeepsLinks, TypeOK, RunRecord
<1>2. ASSUME NEW g \in Handler, handler'[g].pc = "swept", handler'[g].pred # None
      PROVE  runs'[handler'[g].pred].links + 1 <= MaxContinuations
  BY <1>2 DEF DepthInv, KeepsLinks, TypeOK, HandlerRecord
<1> QED BY <1>1, <1>2 DEF DepthInv

(* The methods that only move the record, or label, change no chain.       *)
LEMMA RecordLinks ==
    ASSUME NEW a \in RunRecord
    PROVE  \A b \in {TakeContinuation(a), SetContinuation(a), Retire(a)}
                        \cup {Supersede(a, s) : s \in RunId \cup {None}} :
              b.links = a.links /\ b.resumedFrom = a.resumedFrom
BY DEF TakeContinuation, SetContinuation, Retire, Supersede, RunRecord

(* Admit adds one link, which the handler has room for.                    *)
LEMMA AdmitDepth ==
    ASSUME TypeOK, MintedInv, ChainInv, DepthInv,
           NEW h \in Handler, NEW r \in RunId, Admit(h, r)
    PROVE  DepthInv'
<1> DEFINE p == handler[h].pred
           d == IF p = None THEN 0 ELSE runs[p].links + 1
<1>1. p \in RunId \cup {None} /\ p # r /\ ~Minted(r)
  BY AdmitShape DEF TypeOK, HandlerRecord, Admit
<1>2. runs'[r].links = d /\ runs'[r].resumedFrom = p
  <2>1. runs' = [s \in RunId |->
                   CASE s = r -> NewRun(p, d)
                     [] s = p /\ p \in known -> Retire(runs[s])
                     [] OTHER -> runs[s]]
    BY DEF Admit
  <2> HIDE DEF d
  <2>2. runs'[r] = NewRun(p, d)  BY <1>1, <2>1
  <2> QED BY <2>2 DEF NewRun, NoRun
<1>3. ASSUME NEW s \in RunId, s # r
      PROVE  runs'[s].links = runs[s].links /\ runs'[s].resumedFrom = runs[s].resumedFrom
  <2>1. runs'[s] \in {runs[s], Retire(runs[s])}  BY <1>3, AdmitShape
  <2> QED BY <2>1, RecordLinks DEF TypeOK
<1>4. p # None => d <= MaxContinuations
  BY DEF DepthInv, Admit
<1>5. ChainBound'
  <2>1. ASSUME NEW s \in RunId, runs'[s].resumedFrom # None
        PROVE  /\ runs'[s].links = runs'[runs'[s].resumedFrom].links + 1
               /\ runs'[s].links <= MaxContinuations
    <3>1. CASE s = r  BY <1>1, <1>2, <1>3, <1>4, <2>1, <3>1
    <3>2. CASE s # r
      <4>1. runs[s].resumedFrom \in RunId /\ runs'[s].resumedFrom = runs[s].resumedFrom
        BY <1>3, <2>1, <3>2 DEF TypeOK, RunRecord
      <4>2. Minted(runs[s].resumedFrom)  BY <4>1 DEF ChainInv
      <4>3. runs[s].resumedFrom # r  BY <1>1, <4>2
      <4> QED BY <1>3, <2>1, <3>2, <4>1, <4>3 DEF DepthInv, ChainBound
    <3> QED BY <3>1, <3>2
  <2> QED BY <2>1 DEF ChainBound
<1>6. ASSUME NEW g \in Handler, handler'[g].pc = "swept", handler'[g].pred # None
      PROVE  runs'[handler'[g].pred].links + 1 <= MaxContinuations
  <2>1. handler'[g] = handler[g]
    BY <1>6 DEF Admit, TypeOK, HandlerRecord
  <2>2. handler[g].pred \in RunId /\ Minted(handler[g].pred)
    BY <1>6, <2>1 DEF MintedInv, TypeOK, HandlerRecord
  <2>3. handler[g].pred # r  BY <1>1, <2>2
  <2> QED BY <1>3, <1>6, <2>1, <2>2, <2>3 DEF DepthInv
<1> QED BY <1>5, <1>6 DEF DepthInv

(* Every step of a handler keeps DepthInv. *)
LEMMA HandlerDepth ==
    ASSUME TypeOK, MintedInv, ChainInv, DepthInv, NEW h \in Handler, HandlerStep(h)
    PROVE  DepthInv'
<1>1. CASE BeginAsk(h)
  BY <1>1, QuietHandler, QuietLinks, KeepDepth
  DEF BeginAsk, MintedInv, TypeOK, HandlerRecord
<1>2. CASE BeginContinue(h)
  <2>1. KeepsLinks  BY <1>2, QuietHandler, QuietLinks
  <2>2. ChainBound'
    BY <2>1 DEF DepthInv, ChainBound, KeepsLinks, TypeOK, RunRecord
  <2>3. ASSUME NEW g \in Handler, handler'[g].pc = "swept", handler'[g].pred # None
        PROVE  runs'[handler'[g].pred].links + 1 <= MaxContinuations
    <3>1. handler'[g].pred = handler[g].pred /\ handler[g].pred \in RunId
      BY <1>2, <2>3 DEF BeginContinue, TypeOK, HandlerRecord
    <3>2. runs[handler[g].pred].links + 1 <= MaxContinuations
      BY <1>2, <2>3, <3>1 DEF BeginContinue, DepthInv, TypeOK, HandlerRecord
    <3> QED BY <2>1, <3>1, <3>2 DEF KeepsLinks
  <2> QED BY <2>2, <2>3 DEF DepthInv
<1>3. CASE Launch(h)
  BY <1>3, QuietHandler, QuietLinks, KeepDepth
  DEF Launch, TypeOK, HandlerRecord, IdleHandler
<1>4. ASSUME NEW p \in RunId, Take(h, p)  PROVE DepthInv'
  BY <1>4, RecordLinks, KeepDepth DEF Take, KeepsLinks, TypeOK, HandlerRecord
<1>5. CASE RefuseContinuation(h)
  BY <1>5, RecordLinks, KeepDepth
  DEF RefuseContinuation, KeepsLinks, TypeOK, HandlerRecord, IdleHandler
<1>6. CASE RefuseStart(h)
  <2>1. KeepsLinks
    <3>1. CASE handler[h].pred = None  BY <1>6, <3>1 DEF RefuseStart, KeepsLinks
    <3>2. CASE handler[h].pred # None
      BY <1>6, <3>2, RecordLinks DEF RefuseStart, KeepsLinks, TypeOK
    <3> QED BY <3>1, <3>2
  <2> QED BY <1>6, <2>1, KeepDepth DEF RefuseStart, TypeOK, HandlerRecord, IdleHandler
<1>7. CASE SupersedePredecessor(h)
  <2>1. KeepsLinks
    <3>1. handler[h].succ \in RunId \cup {None}  BY DEF TypeOK, HandlerRecord
    <3> QED BY <1>7, <3>1, RecordLinks DEF SupersedePredecessor, KeepsLinks, TypeOK
  <2> QED BY <1>7, <2>1, KeepDepth
          DEF SupersedePredecessor, TypeOK, HandlerRecord, IdleHandler
<1> QED BY <1>1, <1>2, <1>3, <1>4, <1>5, <1>6, <1>7, AdmitDepth DEF HandlerStep

(* DepthInv is inductive, given what is known of handlers and records.     *)
LEMMA DepthNext ==
    TypeOK /\ MintedInv /\ ChainInv /\ DepthInv /\ [Next]_vars => DepthInv'
<1> SUFFICES ASSUME TypeOK, MintedInv, ChainInv, DepthInv, [Next]_vars
             PROVE  DepthInv'
  OBVIOUS
<1>1. ASSUME QuietStep, UNCHANGED handler  PROVE DepthInv'
  BY <1>1, QuietLinks, KeepDepth
<1>2. CASE Lookup  BY <1>1, <1>2, QuietSweep DEF Lookup
<1>3. ASSUME NEW r \in RunId, RunStep(r)  PROVE DepthInv'
  BY <1>1, <1>3, QuietRun
<1>4. CASE UNCHANGED vars
  BY <1>4, KeepDepth DEF vars, KeepsLinks
<1> QED BY <1>2, <1>3, <1>4, HandlerDepth DEF Next

(* max_continuations bounds every chain, whatever continuations race.      *)
THEOREM DepthCorrect == Spec => []ChainBound
<1>1. Init => DepthInv
  BY DEF Init, DepthInv, ChainBound, NoRun, IdleHandler
<1>2. DepthInv => ChainBound  BY DEF DepthInv
<1> QED BY <1>1, <1>2, DepthNext, TypeCorrect, MintedCorrect, ChainCorrect, PTL DEF Spec

-----------------------------------------------------------------------------
(* What a step can do to a run *)

(* b is a itself, or what one method of *Run makes of a, a started run. *)
ByMethod(a, b) ==
    \/ b = a
    \/ /\ a.state # "unstarted"
       /\ \/ b \in {TakeContinuation(a), SetContinuation(a), Cancel(a),
                    CancelRested(a), Expire(a),
                    Resolve(a), NeedsInput(a), [a EXCEPT !.cancel = TRUE],
                    [a EXCEPT !.deadline = "passed"], [a EXCEPT !.aged = TRUE]}
          \/ \E o \in Outcome : b = Finish(a, o)
          \/ \E q \in Question : b = Ask(a, q)
          \/ \E s \in RunId : b = Supersede(a, s)

(* A step on one started run that applies one method to it.                *)
LEMMA OneByMethod ==
    ASSUME TypeOK, NEW r \in RunId, NEW b, ByMethod(runs[r], b),
           runs' = [runs EXCEPT ![r] = b]
    PROVE  \A s \in RunId : ByMethod(runs[s], runs'[s])
BY DEF TypeOK, ByMethod

(* A sweep expires runs and does nothing else to them.                     *)
LEMMA SweepByMethod ==
    ASSUME TypeOK, Sweep
    PROVE  \A s \in RunId : ByMethod(runs[s], runs'[s])
<1> SUFFICES ASSUME NEW s \in RunId  PROVE ByMethod(runs[s], runs'[s])
  OBVIOUS
<1>1. runs'[s] = runs[s] \/ (IsDue(runs[s]) /\ runs'[s] = Expire(runs[s]))
  BY DEF Sweep
<1> QED BY <1>1 DEF ByMethod, IsDue

(* Only Start's critical section does more to a run than call a method.    *)
LEMMA HandlerByMethod ==
    ASSUME TypeOK, MintedInv, NEW h \in Handler, HandlerStep(h),
           ~ \E r \in RunId : Admit(h, r)
    PROVE  \A s \in RunId : ByMethod(runs[s], runs'[s])
<1>1. \A s \in RunId : runs'[s] = runs[s] => ByMethod(runs[s], runs'[s])
  BY DEF ByMethod
<1>2. CASE BeginAsk(h)  BY <1>2, SweepByMethod DEF BeginAsk
<1>3. ASSUME NEW p \in RunId, Take(h, p)
      PROVE  \A s \in RunId : ByMethod(runs[s], runs'[s])
  <2>1. ByMethod(runs[p], TakeContinuation(runs[p]))
    BY <1>3 DEF Take, MayTakeContinuation, ByMethod
  <2> QED BY <1>3, <2>1, OneByMethod DEF Take
<1>4. CASE RefuseContinuation(h)
  <2>1. handler[h].pred \in RunId /\ Minted(handler[h].pred)
    BY <1>4 DEF RefuseContinuation, MintedInv, TypeOK, HandlerRecord
  <2>2. ByMethod(runs[handler[h].pred], SetContinuation(runs[handler[h].pred]))
    BY <2>1 DEF ByMethod, Minted
  <2> QED BY <1>4, <2>1, <2>2, OneByMethod DEF RefuseContinuation
<1>5. CASE BeginContinue(h)  BY <1>5, SweepByMethod DEF BeginContinue
<1>6. CASE RefuseStart(h)
  <2>1. CASE handler[h].pred = None  BY <1>1, <1>6, <2>1 DEF RefuseStart
  <2>2. CASE handler[h].pred # None
    <3>1. handler[h].pred \in RunId /\ Minted(handler[h].pred)
      BY <2>2 DEF MintedInv, TypeOK, HandlerRecord
    <3>2. ByMethod(runs[handler[h].pred], SetContinuation(runs[handler[h].pred]))
      BY <3>1 DEF ByMethod, Minted
    <3> QED BY <1>6, <2>2, <3>1, <3>2, OneByMethod DEF RefuseStart
  <2> QED BY <2>1, <2>2
<1>7. CASE Launch(h)
  <2> DEFINE r == handler[h].succ
  <2>1. r \in RunId /\ Minted(r)
    BY <1>7 DEF Launch, MintedInv, TypeOK, HandlerRecord
  <2>2. runs' = [runs EXCEPT ![r] = [runs[r] EXCEPT !.cancel = TRUE]]
    BY <1>7 DEF Launch
  <2>3. ByMethod(runs[r], [runs[r] EXCEPT !.cancel = TRUE])
    BY <2>1 DEF ByMethod, Minted
  <2> HIDE DEF r
  <2> QED BY <2>1, <2>2, <2>3, OneByMethod
<1>8. CASE SupersedePredecessor(h)
  <2> DEFINE p == handler[h].pred
             b == Supersede(runs[p], handler[h].succ)
  <2>1. p \in RunId /\ Minted(p) /\ handler[h].succ \in RunId
    BY <1>8 DEF SupersedePredecessor, MintedInv, TypeOK, HandlerRecord
  <2>2. ByMethod(runs[p], b)  BY <2>1 DEF ByMethod, Minted
  <2>3. runs' = [runs EXCEPT ![p] = b]  BY <1>8 DEF SupersedePredecessor
  <2> HIDE DEF p, b
  <2> QED BY <2>1, <2>2, <2>3, OneByMethod
<1> QED BY <1>2, <1>3, <1>4, <1>5, <1>6, <1>7, <1>8 DEF HandlerStep

(* The supervisor, the gate, the operator and the clock call methods.      *)
LEMMA RunByMethod ==
    ASSUME TypeOK, MintedInv, NEW r \in RunId, RunStep(r)
    PROVE  \A s \in RunId : ByMethod(runs[s], runs'[s])
<1>1. \A s \in RunId : runs'[s] = runs[s] => ByMethod(runs[s], runs'[s])
  BY DEF ByMethod
<1>2. super[r] # "none" => Minted(r)  BY DEF MintedInv
<1>3. runs[r].pending # None \/ runs[r].asked \/ runs[r].owes => Minted(r)
  BY DEF MintedInv, NoRun
<1>4. CASE Snapshot(r)
  <2>1. ByMethod(runs[r], Expire(runs[r]))  BY <1>4 DEF Snapshot, IsDue, ByMethod
  <2> QED BY <1>4, <2>1, OneByMethod DEF Snapshot
<1>5. CASE CancelRun(r)
  <2>1. ByMethod(runs[r], Cancel(runs[r]))  BY <1>5 DEF CancelRun, Minted, ByMethod
  <2> QED BY <1>5, <2>1, OneByMethod DEF CancelRun
<1>6. CASE SupervisorStep(r)
  <2>1. ASSUME NEW o \in Outcome, super[r] # "none",
               runs' = [runs EXCEPT ![r] = Finish(runs[r], o)]
        PROVE  \A s \in RunId : ByMethod(runs[s], runs'[s])
    <3>1. ByMethod(runs[r], Finish(runs[r], o))
      BY <2>1, <1>2 DEF ByMethod, Minted
    <3> QED BY <2>1, <3>1, OneByMethod
  <2>2. CASE SpawnFails(r)  BY <2>1, <2>2 DEF SpawnFails, Outcome
  <2>3. CASE Reaped(r)  BY <2>1, <2>3 DEF Reaped, Outcome
  <2>4. CASE ~SpawnFails(r) /\ ~Reaped(r)
    <3>1. runs' = runs
      BY <1>6, <2>4 DEF SupervisorStep, Spawn, SendFirstMessage, SendFails,
             ChildExits, TimesOut, SeesCancel, Kill
    <3> QED BY <1>1, <3>1
  <2> QED BY <2>2, <2>3, <2>4
<1>7. CASE GateStep(r)
  <2>1. ASSUME NEW q \in Question, GateAsk(r, q)
        PROVE  \A s \in RunId : ByMethod(runs[s], runs'[s])
    <3>1. ByMethod(runs[r], Ask(runs[r], q))
      BY <2>1, <1>2 DEF GateAsk, ByMethod, Minted
    <3> QED BY <2>1, <3>1, OneByMethod DEF GateAsk
  <2>2. CASE GateResolve(r)
    <3>1. ByMethod(runs[r], Resolve(runs[r]))
      BY <2>2, <1>3 DEF GateResolve, MayResolve, ByMethod, Minted
    <3> QED BY <2>2, <3>1, OneByMethod DEF GateResolve
  <2>3. CASE GateNeedsInput(r)
    <3>1. ByMethod(runs[r], NeedsInput(runs[r]))
      BY <2>3, <1>3 DEF GateNeedsInput, ByMethod, Minted
    <3> QED BY <2>3, <3>1, OneByMethod DEF GateNeedsInput
  <2>4. CASE GateCancel(r)
    <3>1. ByMethod(runs[r], CancelRested(runs[r]))
      BY <2>4, <1>3 DEF GateCancel, ByMethod, Minted
    <3> QED BY <2>4, <3>1, OneByMethod DEF GateCancel
  <2> QED BY <1>7, <2>1, <2>2, <2>3, <2>4 DEF GateStep
<1>8. CASE DeadlinePasses(r)
  <2>1. runs' = [runs EXCEPT ![r] = [runs[r] EXCEPT !.deadline = "passed"]]
    BY <1>8 DEF DeadlinePasses
  <2>2. ByMethod(runs[r], [runs[r] EXCEPT !.deadline = "passed"])
    BY <1>8 DEF DeadlinePasses, ByMethod
  <2> QED BY <2>1, <2>2, OneByMethod
<1>9. CASE RetentionPasses(r)
  <2>1. runs' = [runs EXCEPT ![r] = [runs[r] EXCEPT !.aged = TRUE]]
    BY <1>9 DEF RetentionPasses
  <2>2. ByMethod(runs[r], [runs[r] EXCEPT !.aged = TRUE])
    BY <1>9 DEF RetentionPasses, IsTerminal, ByMethod
  <2> QED BY <2>1, <2>2, OneByMethod
<1> QED BY <1>4, <1>5, <1>6, <1>7, <1>8, <1>9 DEF RunStep

(* Every step is Start's critical section, or calls at most one method of  *)
(* each run.                                                               *)
LEMMA NextByMethod ==
    ASSUME TypeOK, MintedInv, [Next]_vars
    PROVE  \/ \E h \in Handler, r \in RunId : Admit(h, r)
           \/ \A s \in RunId : ByMethod(runs[s], runs'[s])
<1>1. CASE Lookup  BY <1>1, SweepByMethod DEF Lookup
<1>2. CASE UNCHANGED vars  BY <1>2 DEF vars, ByMethod
<1> QED BY <1>1, <1>2, HandlerByMethod, RunByMethod DEF Next

-----------------------------------------------------------------------------
(* The first settled state wins *)

(* What a method may do to the state of a run. *)
Moves(a, b) == b.state # a.state => <<a.state, b.state>> \in Transitions

(* No method takes a transition that is not in the table.                  *)
LEMMA MethodMoves ==
    ASSUME NEW a \in RunRecord, NEW b, ByMethod(a, b)
    PROVE  Moves(a, b)
<1> USE DEF Moves
<1>1. a.state \in States  BY DEF RunRecord
<1>2. CASE b = a  BY <1>2
<1>3. CASE b \in {TakeContinuation(a), SetContinuation(a), Cancel(a),
                  CancelRested(a), Resolve(a),
                  [a EXCEPT !.cancel = TRUE], [a EXCEPT !.deadline = "passed"],
                  [a EXCEPT !.aged = TRUE]}
  BY <1>3 DEF TakeContinuation, SetContinuation, Cancel, CancelRested, Resolve, RunRecord
<1>4. CASE b = Expire(a)
  <2>1. CASE IsDue(a)
    <3>1. a.state = "needs_input" /\ b.state = "failed"
      BY <1>4, <2>1 DEF Expire, IsDue, RunRecord
    <3> QED BY <3>1 DEF Transitions
  <2>2. CASE ~IsDue(a)  BY <1>4, <2>2 DEF Expire
  <2> QED BY <2>1, <2>2
<1>5. CASE a.state # "unstarted" /\ b = NeedsInput(a)
  <2>1. CASE Settled(a.state)  BY <1>5, <2>1 DEF NeedsInput
  <2>2. CASE ~Settled(a.state)
    <3>1. a.state = "running"
      BY <1>1, <1>5, <2>2 DEF Settled, IsTerminal, States
    <3>2. b.state = "needs_input"  BY <1>5, <2>2 DEF NeedsInput, RunRecord
    <3> QED BY <3>1, <3>2 DEF Transitions
  <2> QED BY <2>1, <2>2
<1>6. ASSUME a.state # "unstarted", NEW o \in Outcome, b = Finish(a, o)
      PROVE  Moves(a, b)
  <2>1. CASE Settled(a.state)  BY <1>6, <2>1 DEF Finish
  <2>2. CASE ~Settled(a.state)
    <3>1. a.state = "running"
      BY <1>1, <1>6, <2>2 DEF Settled, IsTerminal, States
    <3>2. b.state = o  BY <1>6, <2>2 DEF Finish, RunRecord
    <3> QED BY <3>1, <3>2 DEF Transitions
  <2> QED BY <2>1, <2>2
<1>7. ASSUME NEW q, b = Ask(a, q)  PROVE Moves(a, b)
  BY <1>7 DEF Ask, RunRecord
<1>8. ASSUME NEW s, b = Supersede(a, s)  PROVE Moves(a, b)
  <2>1. CASE a.state # "needs_input"  BY <1>8, <2>1 DEF Supersede
  <2>2. CASE a.state = "needs_input"
    <3>1. b.state = "superseded"  BY <1>8, <2>2 DEF Supersede, RunRecord
    <3> QED BY <2>2, <3>1 DEF Transitions
  <2> QED BY <2>1, <2>2
<1> QED BY <1>2, <1>3, <1>4, <1>5, <1>6, <1>7, <1>8 DEF ByMethod

(* Neither does Start's critical section.                                  *)
LEMMA NextMoves ==
    ASSUME TypeOK, MintedInv, [Next]_vars
    PROVE  \A r \in RunId : Moves(runs[r], runs'[r])
<1>1. ASSUME NEW h \in Handler, NEW r \in RunId, Admit(h, r), NEW s \in RunId
      PROVE  Moves(runs[s], runs'[s])
  <2>1. CASE s = r
    <3>1. runs[s].state = "unstarted" /\ runs'[s].state = "running"
      BY <1>1, <2>1, AdmitShape DEF Admit, Minted
    <3> QED BY <3>1 DEF Moves, Transitions
  <2>2. CASE s # r
    <3>1. runs'[s] = runs[s] \/ runs'[s] = Retire(runs[s])
      BY <1>1, <2>2, AdmitShape
    <3> QED BY <3>1 DEF Moves, Retire, TypeOK, RunRecord
  <2> QED BY <2>1, <2>2
<1>2. ASSUME \A s \in RunId : ByMethod(runs[s], runs'[s])
      PROVE  \A s \in RunId : Moves(runs[s], runs'[s])
  BY <1>2, MethodMoves DEF TypeOK
<1> QED BY <1>1, <1>2, NextByMethod

(* A terminal state is for ever, and a run that rests in needs_input       *)
(* becomes failed or superseded and nothing else, whoever races whom:      *)
(* finish, NeedsInput, expiry and Supersede all look before they write.    *)
THEOREM FirstSettledCorrect == Spec => FirstSettledStateWins
<1> DEFINE FirstSettled ==
               \A r \in RunId : runs'[r].state # runs[r].state =>
                   <<runs[r].state, runs'[r].state>> \in Transitions
<1>1. TypeOK /\ MintedInv /\ [Next]_vars => FirstSettled
  BY NextMoves DEF Moves
<1> QED BY <1>1, TypeCorrect, MintedCorrect, PTL DEF Spec, FirstSettledStateWins

-----------------------------------------------------------------------------
(* The registry is a pool of slots *)

(* The runs that occupied a slot once and will not again: past in SlotPool. *)
PastRuns == {r \in RunId : Minted(r) /\ ~CountsAsLive(runs[r])}

(* SlotPool counts as the registry does: its Cardinality is the same one.  *)
LEMMA PoolCardinality == \A S : Pool!Cardinality(S) = Cardinality(S)
BY DEF Pool!Cardinality, Cardinality

(* A method mints nothing and gives nobody a slot.                         *)
LEMMA MethodSlots ==
    ASSUME NEW a \in RunRecord, NEW b, ByMethod(a, b)
    PROVE  /\ b.state = "unstarted" <=> a.state = "unstarted"
           /\ CountsAsLive(b) => CountsAsLive(a)
<1>1. a.state = "unstarted" => b = a  BY DEF ByMethod
<1>2. b.retiring = a.retiring
  <2>1. ASSUME NEW c \in {a, TakeContinuation(a), SetContinuation(a), Cancel(a),
                          CancelRested(a),
                          Resolve(a), [a EXCEPT !.cancel = TRUE],
                          [a EXCEPT !.deadline = "passed"], [a EXCEPT !.aged = TRUE]}
        PROVE  c.retiring = a.retiring
    BY DEF TakeContinuation, SetContinuation, Cancel, CancelRested, Resolve, RunRecord
  <2>2. Expire(a).retiring = a.retiring  BY DEF Expire, RunRecord
  <2>3. NeedsInput(a).retiring = a.retiring  BY DEF NeedsInput, RunRecord
  <2>4. \A o : Finish(a, o).retiring = a.retiring  BY DEF Finish, RunRecord
  <2>5. \A q : Ask(a, q).retiring = a.retiring  BY DEF Ask, RunRecord
  <2>6. \A s : Supersede(a, s).retiring = a.retiring  BY DEF Supersede, RunRecord
  <2>7. \/ b \in {a, TakeContinuation(a), SetContinuation(a), Cancel(a),
                  CancelRested(a), Resolve(a),
                  [a EXCEPT !.cancel = TRUE], [a EXCEPT !.deadline = "passed"],
                  [a EXCEPT !.aged = TRUE]}
        \/ b = Expire(a)
        \/ b = NeedsInput(a)
        \/ \E o \in Outcome : b = Finish(a, o)
        \/ \E q \in Question : b = Ask(a, q)
        \/ \E s \in RunId : b = Supersede(a, s)
    BY DEF ByMethod
  <2>8. b \in {a, TakeContinuation(a), SetContinuation(a), Cancel(a),
               CancelRested(a), Resolve(a),
               [a EXCEPT !.cancel = TRUE], [a EXCEPT !.deadline = "passed"],
               [a EXCEPT !.aged = TRUE]}
           => b.retiring = a.retiring
    BY <2>1
  <2> QED BY <2>2, <2>3, <2>4, <2>5, <2>6, <2>7, <2>8
<1>3. b.state # a.state =>
         \/ a.state = "unstarted" /\ b.state = "running"
         \/ a.state \in {"running", "needs_input"} /\ b.state # "unstarted"
  <2>1. b.state # a.state => <<a.state, b.state>> \in Transitions
    BY MethodMoves DEF Moves
  <2>2. \A x, y : <<x, y>> \in Transitions =>
           \/ x = "unstarted" /\ y = "running"
           \/ x \in {"running", "needs_input"} /\ y # "unstarted"
    BY DEF Transitions, Outcome
  <2> QED BY <2>1, <2>2
<1> QED BY <1>1, <1>2, <1>3 DEF CountsAsLive

(* Calling methods releases the slots of some runs, or changes nothing.    *)
LEMMA MethodsRelease ==
    ASSUME TypeOK, \A s \in RunId : ByMethod(runs[s], runs'[s])
    PROVE  [Pool!Next]_(Pool!vars)
<1> DEFINE S == LiveRuns \ LiveRuns'
<1>1. \A s \in RunId : (Minted(s)' <=> Minted(s))
                       /\ (CountsAsLive(runs'[s]) => CountsAsLive(runs[s]))
  BY MethodSlots DEF TypeOK, Minted
<1>2. LiveRuns' = LiveRuns \ S  BY <1>1 DEF LiveRuns
<1>3. PastRuns' = PastRuns \cup S
  <2>1. \A s \in LiveRuns : Minted(s)
    BY DEF LiveRuns, CountsAsLive, Minted
  <2> QED BY <1>1, <2>1 DEF PastRuns, LiveRuns
<1>4. CASE S = {}
  BY <1>2, <1>3, <1>4 DEF Pool!vars, PastRuns
<1>5. CASE S # {}
  <2>1. Pool!Release(S)  BY <1>2, <1>3, <1>5 DEF Pool!Release, PastRuns
  <2>2. S \in SUBSET LiveRuns  OBVIOUS
  <2> QED BY <2>1, <2>2 DEF Pool!Next
<1> QED BY <1>4, <1>5

(* Start's critical section takes a free slot, or the one of the run that  *)
(* is continued: it left just that run out of the count.                   *)
LEMMA AdmitTakesASlot ==
    ASSUME TypeOK, MintedInv, SlotInv, NEW h \in Handler, NEW r \in RunId, Admit(h, r)
    PROVE  Pool!Next
<1> DEFINE p == handler[h].pred
<1>1. /\ p # r /\ runs'[r].state = "running" /\ ~runs'[r].retiring
      /\ \A s \in RunId \ {r} :
            IF s = p /\ s \in known
            THEN runs'[s] = Retire(runs[s]) ELSE runs'[s] = runs[s]
  BY AdmitShape
<1>2. p \in RunId \cup {None} /\ (p # None => Minted(p))
  BY DEF TypeOK, HandlerRecord, MintedInv
<1>3. ~Minted(r) /\ Cardinality({s \in known \ {p} : CountsAsLive(runs[s])}) < MaxLive
  BY DEF Admit, LiveCountExcluding
<1>4. \A s \in RunId : Retire(runs[s]).state = runs[s].state /\ Retire(runs[s]).retiring
  BY DEF Retire, TypeOK, RunRecord
<1>5. r \notin LiveRuns /\ r \notin PastRuns
  BY <1>3 DEF LiveRuns, PastRuns, CountsAsLive, Minted
<1>6. Pool!Fresh(r)  BY <1>5 DEF Pool!Fresh, PastRuns
<1>7. CASE p \in LiveRuns
  <2>1. p \in known  BY <1>7 DEF LiveRuns, SlotInv
  <2>2. LiveRuns' = (LiveRuns \ {p}) \cup {r}
    BY <1>1, <1>4, <2>1 DEF LiveRuns, CountsAsLive
  <2>3. PastRuns' = PastRuns \cup {p}
    BY <1>1, <1>2, <1>3, <1>4, <1>7, <2>1 DEF PastRuns, LiveRuns, CountsAsLive, Minted
  <2>4. Pool!HandOver(p, r)
    BY <1>6, <1>7, <2>2, <2>3 DEF Pool!HandOver, PastRuns
  <2> QED BY <1>7, <2>4 DEF Pool!Next
<1>8. CASE p \notin LiveRuns
  <2>1. LiveRuns = {s \in known \ {p} : CountsAsLive(runs[s])}
    BY <1>8 DEF LiveRuns, SlotInv, TypeOK
  <2>2. LiveRuns' = LiveRuns \cup {r}
    BY <1>1, <1>4, <1>8 DEF LiveRuns, CountsAsLive
  <2>3. PastRuns' = PastRuns
    BY <1>1, <1>2, <1>3, <1>4, <1>8 DEF PastRuns, LiveRuns, CountsAsLive, Minted
  <2>4. Cardinality(LiveRuns) < MaxLive
    <3> HIDE DEF p
    <3> QED BY <1>3, <2>1
  <2>5. Pool!Acquire(r)
    BY <1>6, <2>2, <2>3, <2>4, PoolCardinality DEF Pool!Acquire, PastRuns
  <2> QED BY <2>5 DEF Pool!Next
<1> QED BY <1>7, <1>8

(* The registry implements SlotPool: seen as the set of runs that occupy a *)
(* slot, its sweeps, races, refusals and retired predecessors are no more  *)
(* than acquiring a free slot, handing one over and giving some back.      *)
THEOREM RegistryIsSlotPool == Spec => IsSlotPool
<1>1. Init => Pool!Init
  BY DEF Init, Pool!Init, LiveRuns, CountsAsLive, Minted, NoRun
<1>2. TypeOK /\ MintedInv /\ SlotInv /\ [Next]_vars => [Pool!Next]_(Pool!vars)
  BY NextByMethod, MethodsRelease, AdmitTakesASlot
<1> QED BY <1>1, <1>2, TypeCorrect, MintedCorrect, SlotInit, SlotNext, PTL
        DEF Spec, IsSlotPool, Pool!Spec

-----------------------------------------------------------------------------
(* No waiter is stranded *)

(* S are the runs a step settles or answers: it takes their questions out  *)
(* and sends the verdicts.  Every other run keeps its question, and runs   *)
(* on if it has one.                                                       *)
Answers(S) ==
    /\ verdict' = Sent(S)
    /\ \A s \in S : runs'[s].pending = None
    /\ \A s \in RunId \ S :
          /\ runs'[s].pending = runs[s].pending
          /\ runs[s].state = "running" => runs'[s].state = "running"

(* Such a step strands nobody.                                             *)
LEMMA AnswersWaiter ==
    ASSUME TypeOK, WaiterInv, NEW S \in SUBSET RunId, Answers(S)
    PROVE  WaiterInv'
<1>1. \A q \in Question :
         verdict'[q] = IF \E r \in S : runs[r].pending = q THEN "sent" ELSE verdict[q]
  BY DEF Answers, Sent
<1>2. \A r \in RunId : runs[r].pending \in Question \cup {None}
  BY DEF TypeOK, RunRecord
<1>3. ASSUME NEW r \in RunId, runs'[r].pending # None
      PROVE  /\ r \notin S /\ runs'[r].pending = runs[r].pending
             /\ runs'[r].state = "running" /\ verdict'[runs'[r].pending] = "open"
  <2>1. r \notin S /\ runs'[r].pending = runs[r].pending /\ runs'[r].state = "running"
    BY <1>3 DEF Answers, WaiterInv
  <2>2. ~ \E s \in S : runs[s].pending = runs[r].pending
    BY <1>3, <2>1 DEF WaiterInv
  <2> QED BY <1>1, <1>2, <1>3, <2>1, <2>2 DEF WaiterInv
<1>4. ASSUME NEW q \in Question, verdict'[q] = "open"
      PROVE  \E r \in RunId : runs'[r].pending = q /\ runs'[r].state = "running"
  <2>1. verdict[q] = "open" /\ ~ \E r \in S : runs[r].pending = q
    BY <1>1, <1>4
  <2>2. PICK r \in RunId : runs[r].pending = q /\ runs[r].state = "running"
    BY <2>1 DEF WaiterInv, NoStrandedWaiter
  <2> QED BY <2>1, <2>2 DEF Answers
<1> QED BY <1>3, <1>4 DEF WaiterInv, NoStrandedWaiter

(* The special case of a step that answers nothing.                        *)
LEMMA SilentWaiter ==
    ASSUME TypeOK, WaiterInv, verdict' = verdict,
           \A s \in RunId : /\ runs'[s].pending = runs[s].pending
                            /\ runs[s].state = "running" => runs'[s].state = "running"
    PROVE  WaiterInv'
<1>1. Sent({}) = verdict  BY DEF Sent, TypeOK
<1>2. Answers({})  BY <1>1 DEF Answers
<1> QED BY <1>2, AnswersWaiter

(* The methods that neither ask, answer nor settle.                        *)
LEMMA SilentMethods ==
    ASSUME NEW a \in RunRecord,
           NEW b \in {a, TakeContinuation(a), SetContinuation(a), Retire(a), Cancel(a),
                      CancelRested(a),
                      [a EXCEPT !.cancel = TRUE], [a EXCEPT !.deadline = "passed"],
                      [a EXCEPT !.aged = TRUE]}
                     \cup {Supersede(a, s) : s \in RunId}
    PROVE  /\ b.pending = a.pending
           /\ a.state = "running" => b.state = "running"
BY DEF TakeContinuation, SetContinuation, Retire, Cancel, CancelRested, Supersede, RunRecord

(* Those that settle: the question goes with the run's state.              *)
LEMMA SettlingMethods ==
    ASSUME NEW a \in RunRecord, ~Settled(a.state)
    PROVE  /\ \A o \in Outcome : Finish(a, o).pending = None
           /\ NeedsInput(a).pending = None
BY DEF Finish, NeedsInput, RunRecord

(* A sweep finds no question to answer: a resting run has none.            *)
LEMMA SweepWaiter ==
    ASSUME TypeOK, WaiterInv, Sweep
    PROVE  WaiterInv'
<1> DEFINE due == {r \in known : IsDue(runs[r])}
<1>1. due \in SUBSET RunId  BY DEF TypeOK
<1>2. verdict' = Sent(due)  BY DEF Sweep
<1>3. ASSUME NEW s \in due  PROVE runs'[s].pending = None
  BY DEF Sweep, Expire, TypeOK, RunRecord
<1>4. \A s \in RunId \ due : runs'[s] = runs[s]  BY DEF Sweep
<1>5. Answers(due)  BY <1>2, <1>3, <1>4 DEF Answers
<1> HIDE DEF due
<1> QED BY <1>1, <1>5, AnswersWaiter

(* A handler answers nothing but what it sweeps.                           *)
LEMMA HandlerWaiter ==
    ASSUME TypeOK, MintedInv, WaiterInv, NEW h \in Handler, HandlerStep(h)
    PROVE  WaiterInv'
<1>1. \A r \in RunId : runs[r] \in RunRecord  BY DEF TypeOK
<1>2. ASSUME NEW p \in RunId,
             NEW b \in {TakeContinuation(runs[p]), SetContinuation(runs[p]),
                        [runs[p] EXCEPT !.cancel = TRUE]}
                       \cup {Supersede(runs[p], s) : s \in RunId},
             runs' = [runs EXCEPT ![p] = b], verdict' = verdict
      PROVE  WaiterInv'
  <2>1. /\ b.pending = runs[p].pending
        /\ runs[p].state = "running" => b.state = "running"
    BY <1>1, <1>2, SilentMethods
  <2> QED BY <1>2, <2>1, SilentWaiter DEF TypeOK
<1>3. CASE BeginAsk(h)  BY <1>3, SweepWaiter DEF BeginAsk
<1>4. ASSUME NEW p \in RunId, Take(h, p)  PROVE WaiterInv'
  BY <1>2, <1>4 DEF Take
<1>5. CASE RefuseContinuation(h)
  <2>1. handler[h].pred \in RunId
    BY <1>5 DEF RefuseContinuation, MintedInv, TypeOK, HandlerRecord
  <2> QED BY <1>2, <1>5, <2>1 DEF RefuseContinuation
<1>6. CASE BeginContinue(h)  BY <1>6, SweepWaiter DEF BeginContinue
<1>7. ASSUME NEW r \in RunId, Admit(h, r)  PROVE WaiterInv'
  <2>1. runs[r].pending = None /\ runs[r].state = "unstarted"
    BY <1>7 DEF Admit, MintedInv, Minted, NoRun
  <2>2. runs'[r].pending = None  BY <1>7, AdmitShape
  <2>3. ASSUME NEW s \in RunId \ {r}
        PROVE  /\ runs'[s].pending = runs[s].pending
               /\ runs[s].state = "running" => runs'[s].state = "running"
    <3>1. runs'[s] = runs[s] \/ runs'[s] = Retire(runs[s])  BY <1>7, AdmitShape
    <3> QED BY <1>1, <3>1, SilentMethods
  <2> QED BY <1>7, <2>1, <2>2, <2>3, SilentWaiter DEF Admit
<1>8. CASE RefuseStart(h)
  <2>1. CASE handler[h].pred = None  BY <1>8, <2>1, SilentWaiter DEF RefuseStart
  <2>2. CASE handler[h].pred # None
    <3>1. handler[h].pred \in RunId  BY <2>2 DEF TypeOK, HandlerRecord
    <3> QED BY <1>2, <1>8, <2>2, <3>1 DEF RefuseStart
  <2> QED BY <2>1, <2>2
<1>9. CASE Launch(h)
  <2>1. handler[h].succ \in RunId
    BY <1>9 DEF Launch, MintedInv, TypeOK, HandlerRecord
  <2>2. runs' = [runs EXCEPT ![handler[h].succ] =
                    [runs[handler[h].succ] EXCEPT !.cancel = TRUE]]
    BY <1>9 DEF Launch
  <2> QED BY <1>2, <1>9, <2>1, <2>2 DEF Launch
<1>10. CASE SupersedePredecessor(h)
  <2>1. handler[h].pred \in RunId /\ handler[h].succ \in RunId
    BY <1>10 DEF SupersedePredecessor, MintedInv, TypeOK, HandlerRecord
  <2> QED BY <1>2, <1>10, <2>1 DEF SupersedePredecessor
<1> QED BY <1>3, <1>4, <1>5, <1>6, <1>7, <1>8, <1>9, <1>10 DEF HandlerStep

(* A step on one run answers that run's question or none; a new question   *)
(* gets a channel of its own.                                              *)
LEMMA RunWaiter ==
    ASSUME TypeOK, MintedInv, WaiterInv, NEW r \in RunId, RunStep(r)
    PROVE  WaiterInv'
<1>1. \A s \in RunId : runs[s] \in RunRecord  BY DEF TypeOK
<1>2. ASSUME NEW b, b.pending = None, runs' = [runs EXCEPT ![r] = b],
             verdict' = Sent({r})
      PROVE  WaiterInv'
  <2>1. Answers({r})  BY <1>2 DEF Answers, TypeOK
  <2> QED BY <2>1, AnswersWaiter
<1>3. ASSUME NEW b \in {runs[r], Cancel(runs[r]), CancelRested(runs[r]),
                        [runs[r] EXCEPT !.deadline = "passed"],
                        [runs[r] EXCEPT !.aged = TRUE]},
             runs' = [runs EXCEPT ![r] = b], verdict' = verdict
      PROVE  WaiterInv'
  <2>1. /\ b.pending = runs[r].pending
        /\ runs[r].state = "running" => b.state = "running"
    BY <1>1, <1>3, SilentMethods
  <2> QED BY <1>3, <2>1, SilentWaiter DEF TypeOK
<1>4. ASSUME NEW b, Settled(runs[r].state) => b = runs[r],
             ~Settled(runs[r].state) => b.pending = None,
             runs' = [runs EXCEPT ![r] = b], Settles(r)
      PROVE  WaiterInv'
  <2>1. CASE Settled(runs[r].state)  BY <1>3, <1>4, <2>1 DEF Settles
  <2>2. CASE ~Settled(runs[r].state)  BY <1>2, <1>4, <2>2 DEF Settles
  <2> QED BY <2>1, <2>2
<1>5. ASSUME NEW o \in Outcome, runs' = [runs EXCEPT ![r] = Finish(runs[r], o)],
             Settles(r)
      PROVE  WaiterInv'
  BY <1>1, <1>4, <1>5, SettlingMethods DEF Finish
<1>6. CASE Snapshot(r)
  <2>1. Expire(runs[r]).pending = None
    BY <1>1, <1>6 DEF Snapshot, Expire, RunRecord
  <2> QED BY <1>2, <1>6, <2>1 DEF Snapshot
<1>7. CASE CancelRun(r)  BY <1>3, <1>7 DEF CancelRun
<1>8. CASE SupervisorStep(r)
  <2>1. CASE SpawnFails(r)  BY <1>5, <2>1 DEF SpawnFails, Outcome
  <2>2. CASE Reaped(r)  BY <1>5, <2>2 DEF Reaped, Outcome
  <2>3. CASE ~SpawnFails(r) /\ ~Reaped(r)
    <3>1. runs' = runs /\ verdict' = verdict
      BY <1>8, <2>3 DEF SupervisorStep, Spawn, SendFirstMessage, SendFails,
             ChildExits, TimesOut, SeesCancel, Kill
    <3> QED BY <3>1, SilentWaiter
  <2> QED BY <2>1, <2>2, <2>3
<1>9. CASE GateStep(r)
  <2>1. ASSUME NEW q \in Question, GateAsk(r, q)  PROVE WaiterInv'
    <3>1. /\ verdict[q] = "unasked" /\ runs[r].pending = None
          /\ verdict' = [verdict EXCEPT ![q] = "open"]
          /\ runs' = [runs EXCEPT ![r] = Ask(runs[r], q)]
      BY <2>1 DEF GateAsk, MayAsk
    <3>2. runs[r].state = "running"
      <4>1. Minted(r)  BY <2>1 DEF GateAsk, MintedInv
      <4> QED BY <1>1, <2>1, <4>1
              DEF GateAsk, MayAsk, Settled, IsTerminal, Minted, RunRecord, States
    <3>3. Ask(runs[r], q).pending = q /\ Ask(runs[r], q).state = "running"
      BY <1>1, <3>2 DEF Ask, RunRecord
    <3>4. runs'[r].pending = q /\ runs'[r].state = "running" /\ verdict'[q] = "open"
      BY <3>1, <3>3 DEF TypeOK
    <3>5. \A s \in RunId \ {r} : runs'[s] = runs[s]  BY <3>1 DEF TypeOK
    <3>6. \A s \in RunId : runs[s].pending # q
      BY <3>1, NoneAssumption DEF WaiterInv
    <3>7. \A x \in Question \ {q} : verdict'[x] = verdict[x]
      BY <3>1 DEF TypeOK
    <3>8. \A s \in RunId : runs[s].pending \in Question \cup {None}
      BY DEF TypeOK, RunRecord
    <3>9. ASSUME NEW x \in Question, verdict'[x] = "open"
          PROVE  \E s \in RunId : runs'[s].pending = x /\ runs'[s].state = "running"
      <4>1. CASE x = q  BY <3>4, <4>1
      <4>2. CASE x # q
        <5>1. PICK s \in RunId : runs[s].pending = x /\ runs[s].state = "running"
          BY <3>7, <3>9, <4>2 DEF WaiterInv, NoStrandedWaiter
        <5>2. s # r  BY <3>1, <5>1, NoneAssumption
        <5> QED BY <3>5, <5>1, <5>2
      <4> QED BY <4>1, <4>2
    <3>10. \A s \in RunId : runs'[s].pending # None =>
              runs'[s].state = "running" /\ verdict'[runs'[s].pending] = "open"
      BY <3>4, <3>5, <3>6, <3>7, <3>8 DEF WaiterInv
    <3>11. \A s, t \in RunId :
              (runs'[s].pending # None /\ runs'[s].pending = runs'[t].pending) => s = t
      BY <3>4, <3>5, <3>6 DEF WaiterInv
    <3> QED BY <3>9, <3>10, <3>11 DEF WaiterInv, NoStrandedWaiter
  <2>2. (\E q \in Question : GateAsk(r, q)) => WaiterInv'  BY <2>1
  <2>3. CASE GateResolve(r)
    <3>1. Resolve(runs[r]).pending = None  BY <1>1 DEF Resolve, RunRecord
    <3> QED BY <1>2, <2>3, <3>1 DEF GateResolve
  <2>4. CASE GateNeedsInput(r)
    BY <1>1, <1>4, <2>4, SettlingMethods DEF GateNeedsInput, NeedsInput
  <2>5. CASE GateCancel(r)  BY <1>3, <2>5 DEF GateCancel
  <2> QED BY <1>9, <2>2, <2>3, <2>4, <2>5 DEF GateStep
<1>10. CASE DeadlinePasses(r)
  <2>1. runs' = [runs EXCEPT ![r] = [runs[r] EXCEPT !.deadline = "passed"]]
    BY <1>10 DEF DeadlinePasses
  <2> QED BY <1>3, <1>10, <2>1 DEF DeadlinePasses
<1>11. CASE RetentionPasses(r)
  <2>1. runs' = [runs EXCEPT ![r] = [runs[r] EXCEPT !.aged = TRUE]]
    BY <1>11 DEF RetentionPasses
  <2> QED BY <1>3, <1>11, <2>1 DEF RetentionPasses
<1> QED BY <1>6, <1>7, <1>8, <1>9, <1>10, <1>11 DEF RunStep

(* WaiterInv is inductive, given the types and MintedInv.                  *)
LEMMA WaiterNext == TypeOK /\ MintedInv /\ WaiterInv /\ [Next]_vars => WaiterInv'
<1> SUFFICES ASSUME TypeOK, MintedInv, WaiterInv, [Next]_vars  PROVE WaiterInv'
  OBVIOUS
<1>1. CASE Lookup  BY <1>1, SweepWaiter DEF Lookup
<1>2. CASE UNCHANGED vars  BY <1>2, SilentWaiter DEF vars
<1> QED BY <1>1, <1>2, HandlerWaiter, RunWaiter DEF Next

(* No goroutine waits on a channel that nobody can answer: its question is *)
(* the pending one of a running run, and settling that run answers it.     *)
THEOREM WaitersCorrect == Spec => []NoStrandedWaiter
<1>1. Init => WaiterInv
  BY DEF Init, WaiterInv, NoStrandedWaiter, NoRun
<1>2. WaiterInv => NoStrandedWaiter  BY DEF WaiterInv
<1> QED BY <1>1, <1>2, WaiterNext, TypeCorrect, MintedCorrect, PTL DEF Spec

-----------------------------------------------------------------------------
(* A supervisor is launched once *)

(* A supervisor moves on only if it exists, and only its own run's entry   *)
(* and group change.                                                       *)
LEMMA SupervisorMoves ==
    ASSUME TypeOK, NEW r \in RunId, RunStep(r)
    PROVE  /\ \A s \in RunId \ {r} : super'[s] = super[s] /\ (s \in group' <=> s \in group)
           /\ super'[r] = super[r] \/ (super[r] # "none" /\ super[r] # "over"
                                       /\ super'[r] # "none")
           /\ handler' = handler
<1>1. CASE SupervisorStep(r)
  <2> USE DEF TypeOK
  <2>1. CASE SpawnFails(r)  BY <2>1 DEF SpawnFails
  <2>2. CASE Spawn(r)  BY <2>2 DEF Spawn
  <2>3. CASE SendFirstMessage(r)  BY <2>3 DEF SendFirstMessage
  <2>4. ASSUME NEW o \in Outcome, super[r] \in {"sending", "watching"}, Kill(r, o)
        PROVE  /\ \A s \in RunId \ {r} :
                     super'[s] = super[s] /\ (s \in group' <=> s \in group)
               /\ super'[r] # "none" /\ super[r] # "none" /\ super[r] # "over"
               /\ handler' = handler
    BY <2>4 DEF Kill, Outcome
  <2>5. CASE SendFails(r) \/ ChildExits(r) \/ TimesOut(r) \/ SeesCancel(r)
    BY <2>4, <2>5 DEF SendFails, ChildExits, TimesOut, SeesCancel, Outcome
  <2>6. CASE Reaped(r)  BY <2>6 DEF Reaped, Outcome
  <2> QED BY <1>1, <2>1, <2>2, <2>3, <2>5, <2>6 DEF SupervisorStep
<1>2. CASE ~SupervisorStep(r)
  <2>1. super' = super /\ group' = group /\ handler' = handler
    BY <1>2 DEF RunStep, Snapshot, CancelRun, GateStep, GateAsk, GateResolve,
           GateNeedsInput, GateCancel, DeadlinePasses, RetentionPasses
  <2> QED BY <2>1
<1> QED BY <1>1, <1>2

(* A handler moves no supervisor, except that Launch creates its run's.    *)
LEMMA HandlerMoves ==
    ASSUME TypeOK, NEW h \in Handler, HandlerStep(h)
    PROVE  /\ group' = group
           /\ super' = super
              \/ (/\ handler[h].pc = "admitted"
                  /\ super' = [super EXCEPT ![handler[h].succ] = "spawning"])
           /\ \A g \in Handler \ {h} : handler'[g] = handler[g]
           /\ handler'[h].pc = "admitted" =>
                 \E r \in RunId : Admit(h, r) /\ handler'[h].succ = r
<1> USE DEF TypeOK, HandlerRecord
<1>1. CASE BeginAsk(h)  BY <1>1 DEF BeginAsk
<1>2. CASE \E p \in RunId : Take(h, p)  BY <1>2 DEF Take
<1>3. CASE RefuseContinuation(h)  BY <1>3 DEF RefuseContinuation, IdleHandler
<1>4. CASE BeginContinue(h)  BY <1>4 DEF BeginContinue
<1>5. CASE \E r \in RunId : Admit(h, r)  BY <1>5 DEF Admit
<1>6. CASE RefuseStart(h)  BY <1>6 DEF RefuseStart, IdleHandler
<1>7. CASE Launch(h)  BY <1>7 DEF Launch, IdleHandler
<1>8. CASE SupersedePredecessor(h)
  BY <1>8 DEF SupersedePredecessor, IdleHandler
<1> QED BY <1>1, <1>2, <1>3, <1>4, <1>5, <1>6, <1>7, <1>8 DEF HandlerStep

(* LaunchInv is inductive, given the types and MintedInv.                  *)
LEMMA LaunchNext == TypeOK /\ MintedInv /\ LaunchInv /\ [Next]_vars => LaunchInv'
<1> SUFFICES ASSUME TypeOK, MintedInv, LaunchInv, [Next]_vars  PROVE LaunchInv'
  OBVIOUS
<1>1. \A g \in Handler : handler[g].pc = "admitted" =>
         handler[g].succ \in RunId /\ Minted(handler[g].succ)
  BY DEF MintedInv, TypeOK, HandlerRecord
<1>2. ASSUME UNCHANGED <<super, handler>>  PROVE LaunchInv'
  BY <1>2 DEF LaunchInv
<1>3. CASE Lookup  BY <1>2, <1>3 DEF Lookup
<1>4. CASE UNCHANGED vars  BY <1>2, <1>4 DEF vars
<1>5. ASSUME NEW r \in RunId, RunStep(r)  PROVE LaunchInv'
  BY <1>1, <1>5, SupervisorMoves DEF LaunchInv
<1>6. ASSUME NEW h \in Handler, HandlerStep(h)  PROVE LaunchInv'
  <2>1. \A g \in Handler \ {h} : handler'[g] = handler[g]
    BY <1>6, HandlerMoves
  <2>2. CASE handler[h].pc = "admitted"
    <3>1. handler'[h].pc # "admitted"
      BY <1>6, <2>2, HandlerMoves DEF Admit
    <3>2. \A s \in RunId \ {handler[h].succ} : super'[s] = super[s]
      BY <1>6, HandlerMoves DEF TypeOK
    <3>3. ASSUME NEW g \in Handler, handler'[g].pc = "admitted"
          PROVE  g # h /\ handler'[g] = handler[g] /\ super'[handler[g].succ] = "none"
      <4>1. g # h /\ handler'[g] = handler[g] /\ handler[g].pc = "admitted"
        BY <2>1, <3>1, <3>3
      <4>2. handler[g].succ # handler[h].succ  BY <2>2, <4>1 DEF LaunchInv
      <4> QED BY <1>1, <3>2, <4>1, <4>2 DEF LaunchInv
    <3> QED BY <3>3 DEF LaunchInv
  <2>3. CASE handler[h].pc # "admitted"
    <3>1. super' = super  BY <1>6, <2>3, HandlerMoves
    <3>2. CASE handler'[h].pc # "admitted"
      <4>1. \A g \in Handler : handler'[g].pc = "admitted" => handler'[g] = handler[g]
        BY <2>1, <3>2
      <4> QED BY <3>1, <4>1 DEF LaunchInv
    <3>3. CASE handler'[h].pc = "admitted"
      <4>1. PICK r \in RunId : Admit(h, r) /\ handler'[h].succ = r
        BY <1>6, <3>3, HandlerMoves
      <4>2. ~Minted(r) /\ super[r] = "none"  BY <4>1 DEF Admit, MintedInv
      <4>3. ASSUME NEW g \in Handler \ {h}, handler'[g].pc = "admitted"
            PROVE  handler'[g] = handler[g] /\ handler'[g].succ # r
        BY <1>1, <2>1, <4>2, <4>3
      <4> QED BY <3>1, <4>1, <4>2, <4>3 DEF LaunchInv
    <3> QED BY <3>2, <3>3
  <2> QED BY <2>2, <2>3
<1> QED BY <1>3, <1>4, <1>5, <1>6 DEF Next

-----------------------------------------------------------------------------
(* Only a run that rested leaves a child behind *)

(* A run that has become terminal by supersession or expiry shows it. *)
Traced(a) == IsTerminal(a.state) => a.resumedBy # None \/ a.deadline = "passed"

(* The methods other than finish: whatever they make terminal is traced,   *)
(* and they wipe no trace.                                                 *)
LEMMA TracedMethods ==
    ASSUME NEW a \in RunRecord, Traced(a),
           NEW b \in {a, TakeContinuation(a), SetContinuation(a), Retire(a), Cancel(a),
                      CancelRested(a),
                      Expire(a), Resolve(a), NeedsInput(a), [a EXCEPT !.cancel = TRUE],
                      [a EXCEPT !.deadline = "passed"], [a EXCEPT !.aged = TRUE]}
                     \cup {Supersede(a, s) : s \in RunId}
                     \cup {Ask(a, q) : q \in Question}
    PROVE  Traced(b)
<1> USE DEF Traced
<1>1. CASE b \in {a, TakeContinuation(a), SetContinuation(a), Retire(a), Cancel(a),
                  CancelRested(a),
                  Resolve(a), [a EXCEPT !.cancel = TRUE],
                  [a EXCEPT !.deadline = "passed"], [a EXCEPT !.aged = TRUE]}
  BY <1>1 DEF TakeContinuation, SetContinuation, Retire, Cancel, CancelRested, Resolve, RunRecord
<1>2. CASE b = Expire(a)  BY <1>2 DEF Expire, IsDue, RunRecord
<1>3. CASE b = NeedsInput(a)
  BY <1>3 DEF NeedsInput, Settled, IsTerminal, RunRecord
<1>4. ASSUME NEW s \in RunId, b = Supersede(a, s)  PROVE Traced(b)
  BY <1>4, NoneAssumption DEF Supersede, RunRecord
<1>5. ASSUME NEW q \in Question, b = Ask(a, q)  PROVE Traced(b)
  BY <1>5 DEF Ask, RunRecord
<1> QED BY <1>1, <1>2, <1>3, <1>4, <1>5

(* A step in which no supervisor finishes a run keeps ChildInv if it keeps *)
(* the supervisors that are over, and puts only a started child in a group.*)
LEMMA TracedChild ==
    ASSUME TypeOK, ChildInv,
           \A s \in RunId : Traced(runs[s]) => Traced(runs'[s]),
           \A s \in RunId : super[s] = "over" => super'[s] = "over",
           \A s \in group' : super'[s] \in {"sending", "watching"}
    PROVE  ChildInv'
<1>1. \A s \in RunId : super[s] = "over" \/ Traced(runs[s])
  BY DEF ChildInv, Traced
<1>2. \A s \in RunId : super'[s] = "over" \/ Traced(runs'[s])  BY <1>1
<1> QED BY <1>2 DEF ChildInv, Traced

(* A sweep traces what it ends.                                            *)
LEMMA SweepTraced ==
    ASSUME TypeOK, Sweep
    PROVE  \A s \in RunId : Traced(runs[s]) => Traced(runs'[s])
<1> SUFFICES ASSUME NEW s \in RunId, Traced(runs[s])  PROVE Traced(runs'[s])
  OBVIOUS
<1>1. runs'[s] = runs[s] \/ runs'[s] = Expire(runs[s])  BY DEF Sweep
<1> QED BY <1>1, TracedMethods DEF TypeOK

(* So does every handler.                                                  *)
LEMMA HandlerTraced ==
    ASSUME TypeOK, MintedInv, NEW h \in Handler, HandlerStep(h)
    PROVE  \A s \in RunId : Traced(runs[s]) => Traced(runs'[s])
<1> SUFFICES ASSUME NEW s \in RunId, Traced(runs[s])  PROVE Traced(runs'[s])
  OBVIOUS
<1>1. runs[s] \in RunRecord  BY DEF TypeOK
<1>2. CASE BeginAsk(h)  BY <1>2, SweepTraced DEF BeginAsk
<1>3. ASSUME NEW p \in RunId, Take(h, p)  PROVE Traced(runs'[s])
  <2>1. runs'[s] = runs[s] \/ runs'[s] = TakeContinuation(runs[s])
    BY <1>3 DEF Take, TypeOK
  <2> QED BY <1>1, <2>1, TracedMethods
<1>4. CASE RefuseContinuation(h)
  <2>1. runs'[s] = runs[s] \/ runs'[s] = SetContinuation(runs[s])
    BY <1>4 DEF RefuseContinuation, TypeOK
  <2> QED BY <1>1, <2>1, TracedMethods
<1>5. CASE BeginContinue(h)  BY <1>5, SweepTraced DEF BeginContinue
<1>6. ASSUME NEW r \in RunId, Admit(h, r)  PROVE Traced(runs'[s])
  <2>1. CASE s = r  BY <1>6, <2>1, AdmitShape DEF Traced, IsTerminal
  <2>2. CASE s # r
    <3>1. runs'[s] = runs[s] \/ runs'[s] = Retire(runs[s])
      BY <1>6, <2>2, AdmitShape
    <3> QED BY <1>1, <3>1, TracedMethods
  <2> QED BY <2>1, <2>2
<1>7. CASE RefuseStart(h)
  <2>1. runs'[s] = runs[s] \/ runs'[s] = SetContinuation(runs[s])
    BY <1>7 DEF RefuseStart, TypeOK
  <2> QED BY <1>1, <2>1, TracedMethods
<1>8. CASE Launch(h)
  <2>1. runs'[s] = runs[s] \/ runs'[s] = [runs[s] EXCEPT !.cancel = TRUE]
    BY <1>8 DEF Launch, TypeOK
  <2> QED BY <1>1, <2>1, TracedMethods
<1>9. CASE SupersedePredecessor(h)
  <2>1. handler[h].succ \in RunId
    BY <1>9 DEF SupersedePredecessor, MintedInv, TypeOK, HandlerRecord
  <2>2. runs'[s] = runs[s] \/ runs'[s] = Supersede(runs[s], handler[h].succ)
    BY <1>9 DEF SupersedePredecessor, TypeOK
  <2> QED BY <1>1, <2>1, <2>2, TracedMethods
<1> QED BY <1>2, <1>3, <1>4, <1>5, <1>6, <1>7, <1>8, <1>9 DEF HandlerStep

(* And every step on a run that is not a supervisor's.                     *)
LEMMA OtherTraced ==
    ASSUME TypeOK, NEW r \in RunId, RunStep(r), ~SupervisorStep(r)
    PROVE  \A s \in RunId : Traced(runs[s]) => Traced(runs'[s])
<1>1. runs[r] \in RunRecord  BY DEF TypeOK
<1>2. ASSUME NEW b \in {Cancel(runs[r]), CancelRested(runs[r]), Expire(runs[r]),
                        Resolve(runs[r]),
                        NeedsInput(runs[r]), [runs[r] EXCEPT !.deadline = "passed"],
                        [runs[r] EXCEPT !.aged = TRUE]}
                       \cup {Ask(runs[r], q) : q \in Question},
             runs' = [runs EXCEPT ![r] = b]
      PROVE  \A s \in RunId : Traced(runs[s]) => Traced(runs'[s])
  <2>1. Traced(runs[r]) => Traced(b)  BY <1>1, TracedMethods
  <2> QED BY <1>2, <2>1 DEF TypeOK
<1>3. CASE Snapshot(r)  BY <1>2, <1>3 DEF Snapshot
<1>4. CASE CancelRun(r)  BY <1>2, <1>4 DEF CancelRun
<1>5. CASE \E q \in Question : GateAsk(r, q)  BY <1>2, <1>5 DEF GateAsk
<1>6. CASE GateResolve(r)  BY <1>2, <1>6 DEF GateResolve
<1>7. CASE GateNeedsInput(r)  BY <1>2, <1>7 DEF GateNeedsInput
<1>8. CASE DeadlinePasses(r)
  <2>1. runs' = [runs EXCEPT ![r] = [runs[r] EXCEPT !.deadline = "passed"]]
    BY <1>8 DEF DeadlinePasses
  <2> QED BY <1>2, <2>1
<1>9. CASE RetentionPasses(r)
  <2>1. runs' = [runs EXCEPT ![r] = [runs[r] EXCEPT !.aged = TRUE]]
    BY <1>9 DEF RetentionPasses
  <2> QED BY <1>2, <2>1
<1>10. CASE GateCancel(r)  BY <1>2, <1>10 DEF GateCancel
<1> QED BY <1>3, <1>4, <1>5, <1>6, <1>7, <1>8, <1>9, <1>10 DEF RunStep, GateStep

(* A supervisor kills the group before it finishes the run.                *)
LEMMA SupervisorChild ==
    ASSUME TypeOK, ChildInv, NEW r \in RunId, SupervisorStep(r)
    PROVE  ChildInv'
<1> USE DEF TypeOK
<1>1. \A s \in RunId : runs'[s] = runs[s] => (Traced(runs[s]) => Traced(runs'[s]))
  OBVIOUS
<1>2. ASSUME super[r] \in {"spawning"} \cup Outcome,
             super' = [super EXCEPT ![r] = "over"], group' = group,
             \A s \in RunId \ {r} : runs'[s] = runs[s]
      PROVE  ChildInv'
  <2>1. r \notin group  BY <1>2 DEF ChildInv, Outcome
  <2> QED BY <1>2, <2>1 DEF ChildInv
<1>3. CASE SpawnFails(r)  BY <1>2, <1>3 DEF SpawnFails
<1>4. CASE Spawn(r)
  <2>1. \A s \in group' : super'[s] \in {"sending", "watching"}
    BY <1>4 DEF Spawn, ChildInv
  <2> QED BY <1>1, <1>4, <2>1, TracedChild DEF Spawn
<1>5. CASE SendFirstMessage(r)
  <2>1. \A s \in group' : super'[s] \in {"sending", "watching"}
    BY <1>5 DEF SendFirstMessage, ChildInv
  <2> QED BY <1>1, <1>5, <2>1, TracedChild DEF SendFirstMessage
<1>6. ASSUME NEW o, super[r] \in {"sending", "watching"}, Kill(r, o)
      PROVE  ChildInv'
  <2>1. \A s \in group' : super'[s] \in {"sending", "watching"}
    BY <1>6 DEF Kill, ChildInv
  <2> QED BY <1>1, <1>6, <2>1, TracedChild DEF Kill
<1>7. CASE SendFails(r)  BY <1>6, <1>7 DEF SendFails
<1>8. CASE ChildExits(r)  BY <1>6, <1>8 DEF ChildExits
<1>9. CASE TimesOut(r)  BY <1>6, <1>9 DEF TimesOut
<1>10. CASE SeesCancel(r)  BY <1>6, <1>10 DEF SeesCancel
<1>11. CASE Reaped(r)  BY <1>2, <1>11 DEF Reaped
<1> QED BY <1>3, <1>4, <1>5, <1>7, <1>8, <1>9, <1>10, <1>11 DEF SupervisorStep

(* ChildInv is inductive, given what handlers and supervisors own.         *)
LEMMA ChildNext ==
    TypeOK /\ MintedInv /\ LaunchInv /\ ChildInv /\ [Next]_vars => ChildInv'
<1> SUFFICES ASSUME TypeOK, MintedInv, LaunchInv, ChildInv, [Next]_vars
             PROVE  ChildInv'
  OBVIOUS
<1>1. CASE Lookup  BY <1>1, SweepTraced, TracedChild DEF Lookup, ChildInv
<1>2. CASE UNCHANGED vars  BY <1>2 DEF vars, ChildInv
<1>3. ASSUME NEW h \in Handler, HandlerStep(h)  PROVE ChildInv'
  <2>1. handler[h].pc = "admitted" =>
           handler[h].succ \in RunId /\ super[handler[h].succ] = "none"
    BY DEF MintedInv, LaunchInv, TypeOK, HandlerRecord
  <2>2. \A s \in RunId : super'[s] = super[s] \/ super[s] = "none"
    BY <1>3, <2>1, HandlerMoves DEF TypeOK
  <2>3. group' = group  BY <1>3, HandlerMoves
  <2>4. \A s \in group' : super'[s] \in {"sending", "watching"}
    BY <2>2, <2>3 DEF ChildInv, TypeOK
  <2> QED BY <1>3, <2>2, <2>4, HandlerTraced, TracedChild
<1>4. ASSUME NEW r \in RunId, RunStep(r), ~SupervisorStep(r)  PROVE ChildInv'
  <2>1. super' = super /\ group' = group
    BY <1>4 DEF RunStep, Snapshot, CancelRun, GateStep, GateAsk, GateResolve,
           GateNeedsInput, GateCancel, DeadlinePasses, RetentionPasses
  <2> QED BY <1>4, <2>1, OtherTraced, TracedChild DEF ChildInv
<1>5. ASSUME NEW r \in RunId, SupervisorStep(r)  PROVE ChildInv'
  BY <1>5, SupervisorChild
<1> QED BY <1>1, <1>2, <1>3, <1>4, <1>5 DEF Next

(* A terminal run whose process group is still alive is one that rested in *)
(* needs_input and was superseded or expired: everything else that ends a  *)
(* run kills the group first.                                              *)
THEOREM ChildrenCorrect == Spec => []OnlyRestLeavesAChild
<1>1. Init => LaunchInv /\ ChildInv
  BY DEF Init, LaunchInv, ChildInv, NoRun, IdleHandler, IsTerminal
<1>2. TypeOK /\ ChildInv => OnlyRestLeavesAChild
  BY DEF ChildInv, OnlyRestLeavesAChild, TypeOK
<1> QED BY <1>1, <1>2, LaunchNext, ChildNext, TypeCorrect, MintedCorrect, PTL
        DEF Spec

-----------------------------------------------------------------------------
(* A run that has settled while its child lives is told to stop *)

(* The run's context is cancelled, or about to be. *)
Stops(a) == a.stopped \/ a.owes

(* No method withdraws a cancellation or its handle. *)
KeepsStop(a, b) ==
    /\ a.cancel => b.cancel
    /\ Stops(a) => Stops(b)
    /\ b.asked => a.asked
    /\ Settled(b.state) => Settled(a.state) \/ Stops(b)

(* No method but finish and NeedsInput settles a run, and NeedsInput       *)
(* cancels its context if it can.                                          *)
LEMMA StopMethods ==
    ASSUME NEW a \in RunRecord
    PROVE  /\ KeepsStop(a, a)
           /\ KeepsStop(a, Cancel(a))
           /\ KeepsStop(a, Retire(a))
           /\ KeepsStop(a, CancelRested(a))
           /\ KeepsStop(a, Expire(a))
           /\ KeepsStop(a, Resolve(a))
           /\ a.cancel => KeepsStop(a, NeedsInput(a))
           /\ KeepsStop(a, TakeContinuation(a))
           /\ KeepsStop(a, SetContinuation(a))
           /\ \A s : KeepsStop(a, Supersede(a, s))
           /\ KeepsStop(a, [a EXCEPT !.deadline = "passed"])
           /\ KeepsStop(a, [a EXCEPT !.aged = TRUE])
           /\ KeepsStop(a, [a EXCEPT !.cancel = TRUE])
<1> USE DEF KeepsStop, Stops, Settled, IsTerminal
<1>1. KeepsStop(a, a)  OBVIOUS
<1>2. KeepsStop(a, Cancel(a))  BY DEF Cancel, RunRecord
<1>3. KeepsStop(a, Retire(a))  BY DEF Retire, RunRecord
<1>4. KeepsStop(a, CancelRested(a))  BY DEF CancelRested, RunRecord
<1>5. KeepsStop(a, Expire(a))
  <2>1. CASE IsDue(a)  BY <2>1 DEF Expire, IsDue, RunRecord
  <2>2. CASE ~IsDue(a)  BY <2>2 DEF Expire
  <2> QED BY <2>1, <2>2
<1>6. KeepsStop(a, Resolve(a))  BY DEF Resolve, RunRecord
<1>7. ASSUME a.cancel  PROVE KeepsStop(a, NeedsInput(a))
  <2>1. CASE Settled(a.state)  BY <2>1 DEF NeedsInput
  <2>2. CASE ~Settled(a.state)  BY <1>7, <2>2 DEF NeedsInput, RunRecord
  <2> QED BY <2>1, <2>2
<1>8. KeepsStop(a, TakeContinuation(a))  BY DEF TakeContinuation, RunRecord
<1>9. KeepsStop(a, SetContinuation(a))  BY DEF SetContinuation, RunRecord
<1>10. \A s : KeepsStop(a, Supersede(a, s))  BY DEF Supersede, RunRecord
<1>11. KeepsStop(a, [a EXCEPT !.deadline = "passed"])  BY DEF RunRecord
<1>12. KeepsStop(a, [a EXCEPT !.aged = TRUE])  BY DEF RunRecord
<1>13. KeepsStop(a, [a EXCEPT !.cancel = TRUE])  BY DEF RunRecord
<1> QED BY <1>1, <1>2, <1>3, <1>4, <1>5, <1>6, <1>7, <1>8, <1>9, <1>10, <1>11,
           <1>12, <1>13

(* A step that keeps StopInv for every run's record keeps it.              *)
LEMMA KeepStop ==
    ASSUME StopInv, super' = super,
           \A s \in RunId : KeepsStop(runs[s], runs'[s])
    PROVE  StopInv'
BY DEF StopInv, KeepsStop, Stops

(* The same for a step on one run, whose supervisor, if it moves, exists   *)
(* or is created, and is not over.                                         *)
LEMMA KeepStopOne ==
    ASSUME TypeOK, StopInv, NEW r \in RunId, NEW b, KeepsStop(runs[r], b),
           runs' = [runs EXCEPT ![r] = b],
           NEW c, super' = [super EXCEPT ![r] = c],
           c = super[r] \/ (super[r] # "over" /\ (super[r] # "none" \/ b.cancel))
    PROVE  StopInv'
<1>1. ASSUME NEW s \in RunId
      PROVE  /\ KeepsStop(runs[s], runs'[s])
             /\ super'[s] # "none" => super[s] # "none" \/ runs'[s].cancel
             /\ super[s] = "over" => super'[s] = "over"
  <2>1. CASE s = r  BY <2>1 DEF TypeOK
  <2>2. CASE s # r  BY <2>2, StopMethods DEF TypeOK
  <2> QED BY <2>1, <2>2
<1> QED BY <1>1 DEF StopInv, KeepsStop, Stops

(* A sweep keeps StopInv.                                                  *)
LEMMA StopSweep ==
    ASSUME TypeOK, StopInv, Sweep, super' = super
    PROVE  StopInv'
<1>1. ASSUME NEW s \in RunId  PROVE KeepsStop(runs[s], runs'[s])
  <2>1. runs'[s] = runs[s] \/ runs'[s] = Expire(runs[s])  BY DEF Sweep
  <2> QED BY <2>1, StopMethods DEF TypeOK
<1> QED BY <1>1, KeepStop

(* A handler's step keeps it: Launch sets r.cancel before it launches.     *)
LEMMA StopHandler ==
    ASSUME TypeOK, MintedInv, LaunchInv, StopInv, NEW h \in Handler, HandlerStep(h)
    PROVE  StopInv'
<1>1. \A r \in RunId : runs[r] \in RunRecord  BY DEF TypeOK
<1>2. \A r \in RunId : /\ KeepsStop(runs[r], SetContinuation(runs[r]))
                       /\ KeepsStop(runs[r], Supersede(runs[r], handler[h].succ))
  BY <1>1, StopMethods
<1>3. ASSUME NEW p \in RunId, NEW b, KeepsStop(runs[p], b),
             runs' = [runs EXCEPT ![p] = b], super' = super
      PROVE  StopInv'
  <2>1. super' = [super EXCEPT ![p] = super[p]]  BY <1>3 DEF TypeOK
  <2> QED BY <1>3, <2>1, KeepStopOne
<1>4. CASE BeginAsk(h)  BY <1>4, StopSweep DEF BeginAsk
<1>5. ASSUME NEW p \in RunId, Take(h, p)  PROVE StopInv'
  BY <1>1, <1>3, <1>5, StopMethods DEF Take
<1>6. CASE RefuseContinuation(h)
  <2>1. handler[h].pred \in RunId
    BY <1>6 DEF RefuseContinuation, MintedInv, TypeOK, HandlerRecord
  <2> QED BY <1>2, <1>3, <1>6, <2>1 DEF RefuseContinuation
<1>7. CASE BeginContinue(h)  BY <1>7, StopSweep DEF BeginContinue
<1>8. ASSUME NEW r \in RunId, Admit(h, r)  PROVE StopInv'
  <2>1. super' = super /\ super[r] = "none"  BY <1>8 DEF Admit, MintedInv
  <2>2. ASSUME NEW s \in RunId \ {r}  PROVE KeepsStop(runs[s], runs'[s])
    <3>1. runs'[s] = runs[s] \/ runs'[s] = Retire(runs[s])  BY <1>8, AdmitShape
    <3> QED BY <1>1, <3>1, StopMethods
  <2>3. ~runs'[r].asked /\ ~Settled(runs'[r].state)
    BY <1>8, AdmitShape DEF Settled, IsTerminal
  <2> QED BY <2>1, <2>2, <2>3 DEF StopInv, KeepsStop, Stops
<1>9. CASE RefuseStart(h)
  <2>1. CASE handler[h].pred = None
    <3>1. runs' = runs /\ super' = super  BY <1>9, <2>1 DEF RefuseStart
    <3> QED BY <1>1, <3>1, KeepStop, StopMethods
  <2>2. CASE handler[h].pred # None
    <3>1. handler[h].pred \in RunId  BY <2>2 DEF TypeOK, HandlerRecord
    <3> QED BY <1>2, <1>3, <1>9, <2>2, <3>1 DEF RefuseStart
  <2> QED BY <2>1, <2>2
<1>10. CASE Launch(h)
  <2> DEFINE r == handler[h].succ
             b == [runs[r] EXCEPT !.cancel = TRUE]
  <2>1. r \in RunId  BY <1>10 DEF Launch, MintedInv, TypeOK, HandlerRecord
  <2>2. KeepsStop(runs[r], b) /\ b.cancel
    BY <1>1, <2>1, StopMethods DEF RunRecord
  <2>3. runs' = [runs EXCEPT ![r] = b] /\ super' = [super EXCEPT ![r] = "spawning"]
    BY <1>10 DEF Launch
  <2>4. super[r] = "none"  BY <1>10 DEF Launch, LaunchInv
  <2> HIDE DEF r, b
  <2> QED BY <2>1, <2>2, <2>3, <2>4, KeepStopOne
<1>11. CASE SupersedePredecessor(h)
  <2>1. handler[h].pred \in RunId
    BY <1>11 DEF SupersedePredecessor, MintedInv, TypeOK, HandlerRecord
  <2> QED BY <1>2, <1>3, <1>11, <2>1 DEF SupersedePredecessor
<1> QED BY <1>4, <1>5, <1>6, <1>7, <1>8, <1>9, <1>10, <1>11 DEF HandlerStep

(* A step on one run keeps it.                                             *)
LEMMA StopRun ==
    ASSUME TypeOK, MintedInv, StopInv, NEW r \in RunId, RunStep(r)
    PROVE  StopInv'
<1>1. runs[r] \in RunRecord  BY DEF TypeOK
<1>2. ASSUME NEW b, KeepsStop(runs[r], b), runs' = [runs EXCEPT ![r] = b],
             super' = super
      PROVE  StopInv'
  <2>1. super' = [super EXCEPT ![r] = super[r]]  BY <1>2 DEF TypeOK
  <2> QED BY <1>2, <2>1, KeepStopOne
<1>3. ASSUME NEW o, super[r] \notin {"none", "over"}, runs' = runs,
             super' = [super EXCEPT ![r] = o]
      PROVE  StopInv'
  <2>1. runs' = [runs EXCEPT ![r] = runs[r]]  BY <1>3 DEF TypeOK
  <2> QED BY <1>1, <1>3, <2>1, StopMethods, KeepStopOne
<1>4. ASSUME NEW o \in Outcome, super[r] # "none",
             runs' = [runs EXCEPT ![r] = Finish(runs[r], o)],
             super' = [super EXCEPT ![r] = "over"]
      PROVE  StopInv'
  <2>1. Finish(runs[r], o).cancel = runs[r].cancel  BY <1>1 DEF Finish, RunRecord
  <2>2. runs'[r].cancel = runs[r].cancel /\ super'[r] = "over"
    BY <1>4, <2>1 DEF TypeOK
  <2>3. \A s \in RunId : s # r => runs'[s] = runs[s] /\ super'[s] = super[s]
    BY <1>4 DEF TypeOK
  <2> QED BY <1>4, <2>2, <2>3 DEF StopInv
<1>5. CASE Snapshot(r)  BY <1>1, <1>2, <1>5, StopMethods DEF Snapshot
<1>6. CASE CancelRun(r)  BY <1>1, <1>2, <1>6, StopMethods DEF CancelRun
<1>7. CASE SupervisorStep(r)
  <2>1. CASE SpawnFails(r)  BY <1>4, <2>1 DEF SpawnFails, Outcome
  <2>2. CASE Spawn(r)  BY <1>3, <2>2 DEF Spawn
  <2>3. CASE SendFirstMessage(r)  BY <1>3, <2>3 DEF SendFirstMessage
  <2>4. CASE SendFails(r)  BY <1>3, <2>4 DEF SendFails, Kill
  <2>5. CASE ChildExits(r)  BY <1>3, <2>5 DEF ChildExits, Kill
  <2>6. CASE TimesOut(r)  BY <1>3, <2>6 DEF TimesOut, Kill
  <2>7. CASE SeesCancel(r)  BY <1>3, <2>7 DEF SeesCancel, Kill
  <2>8. CASE Reaped(r)  BY <1>4, <2>8 DEF Reaped, Outcome
  <2> QED BY <1>7, <2>1, <2>2, <2>3, <2>4, <2>5, <2>6, <2>7, <2>8
          DEF SupervisorStep
<1>8. CASE GateStep(r)
  <2>1. ASSUME NEW q \in Question, GateAsk(r, q)  PROVE StopInv'
    <3>1. /\ super[r] # "none" /\ super' = super
          /\ runs' = [runs EXCEPT ![r] = Ask(runs[r], q)]
      BY <2>1 DEF GateAsk
    <3>2. runs[r].cancel  BY <3>1 DEF StopInv
    <3>3. LET b == Ask(runs[r], q)
          IN /\ b.cancel /\ b.state = runs[r].state
             /\ b.stopped = runs[r].stopped /\ b.owes = runs[r].owes
      BY <1>1, <3>2 DEF Ask, RunRecord
    <3> QED BY <3>1, <3>3 DEF StopInv, TypeOK
  <2>2. (\E q \in Question : GateAsk(r, q)) => StopInv'  BY <2>1
  <2>3. CASE GateResolve(r)  BY <1>1, <1>2, <2>3, StopMethods DEF GateResolve
  <2>4. CASE GateNeedsInput(r)
    <3>1. runs[r].cancel  BY <2>4 DEF GateNeedsInput, StopInv
    <3> QED BY <1>1, <1>2, <2>4, <3>1, StopMethods DEF GateNeedsInput
  <2>5. CASE GateCancel(r)  BY <1>1, <1>2, <2>5, StopMethods DEF GateCancel
  <2> QED BY <1>8, <2>2, <2>3, <2>4, <2>5 DEF GateStep
<1>9. CASE DeadlinePasses(r)
  <2>1. runs' = [runs EXCEPT ![r] = [runs[r] EXCEPT !.deadline = "passed"]]
    BY <1>9 DEF DeadlinePasses
  <2> QED BY <1>1, <1>2, <1>9, <2>1, StopMethods DEF DeadlinePasses
<1>10. CASE RetentionPasses(r)
  <2>1. runs' = [runs EXCEPT ![r] = [runs[r] EXCEPT !.aged = TRUE]]
    BY <1>10 DEF RetentionPasses
  <2> QED BY <1>1, <1>2, <1>10, <2>1, StopMethods DEF RetentionPasses
<1> QED BY <1>5, <1>6, <1>7, <1>8, <1>9, <1>10 DEF RunStep

(* StopInv is inductive, given the types and what handlers own.            *)
LEMMA StopNext ==
    TypeOK /\ MintedInv /\ LaunchInv /\ StopInv /\ [Next]_vars => StopInv'
<1> SUFFICES ASSUME TypeOK, MintedInv, LaunchInv, StopInv, [Next]_vars  PROVE StopInv'
  OBVIOUS
<1>1. CASE Lookup  BY <1>1, StopSweep DEF Lookup
<1>2. CASE UNCHANGED vars  BY <1>2 DEF vars, StopInv
<1> QED BY <1>1, <1>2, StopHandler, StopRun DEF Next

(* A run that has settled while its child may live has been told to stop,  *)
(* or the goroutine that put it to rest is about to: Start sets r.cancel   *)
(* before anything exists that could settle the run, and whoever else      *)
(* settles one has killed the child first.                                 *)
THEOREM RestsCorrect == Spec => []SettledIsStopped
<1>1. Init => LaunchInv /\ ChildInv /\ StopInv
  BY DEF Init, LaunchInv, ChildInv, StopInv, NoRun, IdleHandler, Settled, IsTerminal
<1>2. TypeOK /\ ChildInv /\ StopInv => SettledIsStopped
  BY DEF ChildInv, StopInv, SettledIsStopped, TypeOK
<1> QED BY <1>1, <1>2, LaunchNext, ChildNext, StopNext, TypeCorrect, MintedCorrect, PTL
        DEF Spec

=============================================================================
