---------------------------- MODULE Policy_proofs ----------------------------
(***************************************************************************)
(* Theorems about Policy, for any number of calls, any configuration and   *)
(* any limits.                                                             *)
(***************************************************************************)
EXTENDS Policy, FiniteSetTheorems, TLAPS

(* What Authorise makes of a request: the attempt it records, and the call *)
(* record.                                                                 *)
Asked(req) == ~StructurallyRefused(req)
RecordedAt(req) == IF Asked(req) /\ Allowed /\ config.perMin > 0 THEN now ELSE None
Grant(req, pred) ==
    [pc |-> "granted", pred |-> pred, at |-> RecordedAt(req), agent |-> req.agent,
     mode |-> ResolvedMode(req, config.agents[req.agent]), model |-> req.model,
     cwd |-> ResolvedCWD(req), gated |-> FALSE]
Outcome(req, pred) ==
    IF Asked(req) /\ ~Allowed THEN [Idle EXCEPT !.pc = "limited"]
    ELSE IF ~Asked(req) \/ LaterRefused(req)
         THEN [Idle EXCEPT !.pc = "refused", !.at = RecordedAt(req)]
    ELSE Grant(req, pred)

(* Authorise gives the call that outcome and changes no other.             *)
LEMMA AuthoriseOutcome ==
    ASSUME NEW c \in Call, NEW req, NEW pred, Authorise(c, req, pred)
    PROVE  /\ call' = [call EXCEPT ![c] = Outcome(req, pred)]
           /\ UNCHANGED <<config, now, off>>
BY DEF Authorise, Outcome, Grant, RecordedAt, Asked

-----------------------------------------------------------------------------
(* The configuration *)

(* Loading keeps what the loader has checked: it leaves the ceilings alone *)
(* and only drops adapters.                                                *)
LEMMA LoadedCorrect ==
    ASSUME NEW f \in Config, Accepted(f)
    PROVE  /\ Load(f) \in Config
           /\ \A id \in AgentId : Load(f).agents[id] # None =>
                 AdapterAccepted(Load(f), Load(f).agents[id])
<1> DEFINE kept == [id \in AgentId |-> IF IsHost(f, id) THEN None ELSE f.agents[id]]
           perMin == IF f.perMin = 0 THEN 20 ELSE f.perMin
<1>1. kept \in [AgentId -> Adapter \cup {None}]  BY DEF Config
<1>2. perMin \in Nat  BY DEF Config
<1>3. Load(f) = [f EXCEPT !.perMin = perMin, !.agents = kept]  BY DEF Load
<1> HIDE DEF kept, perMin
<1>4. /\ Load(f) \in Config /\ Load(f).agents = kept
      /\ Load(f).allowWrite = f.allowWrite /\ Load(f).allowUnconfined = f.allowUnconfined
  BY <1>1, <1>2, <1>3 DEF Config
<1>5. ASSUME NEW id \in AgentId, kept[id] # None  PROVE AdapterAccepted(f, kept[id])
  BY <1>5 DEF kept, Accepted
<1>6. ASSUME NEW a, AdapterAccepted(f, a)  PROVE AdapterAccepted(Load(f), a)
  BY <1>4, <1>6 DEF AdapterAccepted, UnderCeilings
<1> QED BY <1>4, <1>5, <1>6

(* What an accepted adapter may be asked for.                              *)
LEMMA AcceptedAdapter ==
    ASSUME ConfigInv, NEW id \in AgentId, config.agents[id] # None
    PROVE  LET a == config.agents[id] IN
           /\ a.mode = "write" => config.allowWrite
           /\ a.worktree = "off" => config.allowWrite /\ config.allowUnconfined
           /\ a.interactive => a.mode = "read_only"
BY DEF ConfigInv, AdapterAccepted, UnderCeilings, CanAsk

-----------------------------------------------------------------------------
(* Type correctness *)

(* A granted request has been narrowed to the configuration.               *)
LEMMA GrantWithin ==
    ASSUME TypeOK, NEW req \in Request, ~StructurallyRefused(req), ~LaterRefused(req)
    PROVE  LET a == config.agents[req.agent] IN
           /\ req.agent \in AgentId /\ a # None /\ a \in Adapter
           /\ ResolvedMode(req, a) \in Mode
           /\ ResolvedMode(req, a) = "write" => a.mode = "write"
           /\ req.model \in a.models \cup {None}
           /\ ResolvedCWD(req) \in Inside
<1> DEFINE a == config.agents[req.agent]
<1>1. req.agent \in AgentId  BY DEF Request
<1>2. a # None  BY DEF StructurallyRefused
<1>3. a \in Adapter  BY <1>1, <1>2 DEF TypeOK, Config
<1>4. ~ModeRefused(req, a) /\ req.model \in a.models \cup {None}
      /\ ResolvedCWD(req) \in Inside
  BY DEF LaterRefused
<1>5. req.sandbox \in Mode \cup {None, "unknown"} /\ a.mode \in Mode
  BY <1>3 DEF Request, Adapter
<1> HIDE DEF a
<1>6. ResolvedMode(req, a) \in Mode
  BY <1>4, <1>5 DEF ResolvedMode, ModeRefused
<1>7. ResolvedMode(req, a) = "write" => a.mode = "write"
  BY <1>4 DEF ResolvedMode, ModeRefused
<1> QED BY <1>1, <1>2, <1>3, <1>4, <1>6, <1>7 DEF a

(* The outcome has its type.                                               *)
LEMMA OutcomeType ==
    ASSUME TypeOK, NEW req \in Request, NEW pred \in Call \cup {None}
    PROVE  Outcome(req, pred) \in CallRecord
<1> USE PolicyAssumption, LoaderAssumption
<1>1. RecordedAt(req) \in Nat \cup {None}  BY DEF RecordedAt, TypeOK
<1>2. [Idle EXCEPT !.pc = "limited"] \in CallRecord  BY DEF Idle, CallRecord, Step
<1>3. [Idle EXCEPT !.pc = "refused", !.at = RecordedAt(req)] \in CallRecord
  BY <1>1 DEF Idle, CallRecord, Step
<1>4. ASSUME Asked(req), ~LaterRefused(req)  PROVE Grant(req, pred) \in CallRecord
  <2>1. /\ ResolvedMode(req, config.agents[req.agent]) \in Mode
        /\ ResolvedCWD(req) \in Inside
    BY <1>4, GrantWithin DEF Asked
  <2> QED BY <1>1, <2>1 DEF Grant, CallRecord, Step, Request
<1> QED BY <1>2, <1>3, <1>4 DEF Outcome

(* So Authorise keeps every type.                                          *)
LEMMA AuthoriseType ==
    ASSUME TypeOK, NEW c \in Call, NEW req \in Request, NEW pred \in Call \cup {None},
           Authorise(c, req, pred)
    PROVE  TypeOK'
<1>1. call' \in [Call -> CallRecord]
  BY AuthoriseOutcome, OutcomeType DEF TypeOK
<1>2. times' \in SUBSET Call  BY DEF Authorise, TypeOK, Kept
<1> QED BY <1>1, <1>2, AuthoriseOutcome DEF TypeOK

(* A continuation's request is one a caller could make.                    *)
LEMMA RequestType ==
    ASSUME AgentInv, NEW p \in Call, HoldsRecord(p), NEW fits \in BOOLEAN,
           NEW cwd \in Dir \cup {"unusable"}
    PROVE  ContinuationRequest(p, fits, cwd) \in Request
<1>1. call[p].agent \in AgentId /\ call[p].mode \in Mode
  BY DEF AgentInv, HoldsRecord, Decided
<1> QED BY <1>1 DEF ContinuationRequest, Request

(* A refusal after Authorise keeps only the attempt.                       *)
LEMMA RefusedType ==
    ASSUME TypeOK, NEW c \in Call
    PROVE  [Idle EXCEPT !.pc = "refused", !.at = call[c].at] \in CallRecord
BY PolicyAssumption, LoaderAssumption DEF TypeOK, CallRecord, Idle, Step

(* Call d keeps its decision.                                              *)
SameDecision(d) ==
    /\ call'[d].agent = call[d].agent /\ call'[d].mode = call[d].mode
    /\ call'[d].model = call[d].model /\ call'[d].cwd = call[d].cwd
    /\ call'[d].pred = call[d].pred

(* Build gives the call a gate under the configuration, or refuses it.     *)
LEMMA BuildOutcome ==
    ASSUME TypeOK, NEW c \in Call, Build(c)
    PROVE  /\ call' \in [Call -> CallRecord]
           /\ \A d \in Call \ {c} : call'[d] = call[d]
           /\ call'[c].at = call[c].at
           /\ \/ call'[c].pc = "refused"
              \/ /\ call'[c].pc = "built" /\ SameDecision(c)
                 /\ Buildable(c)
                 /\ call'[c].gated => Interacts(c)
<1> DEFINE g == Interacts(c)
           refused == [Idle EXCEPT !.pc = "refused", !.at = call[c].at]
<1>1. \/ Buildable(c) /\ call' = [call EXCEPT ![c].pc = "built", ![c].gated = g]
      \/ call' = [call EXCEPT ![c] = refused]
  BY DEF Build
<1>2. g \in BOOLEAN  BY DEF Interacts
<1>3. CASE Buildable(c) /\ call' = [call EXCEPT ![c].pc = "built", ![c].gated = g]
  <2>1. /\ call' \in [Call -> CallRecord]
        /\ \A d \in Call \ {c} : call'[d] = call[d]
        /\ call'[c].at = call[c].at /\ call'[c].pc = "built"
        /\ SameDecision(c) /\ call'[c].gated = g
    <3> HIDE DEF g
    <3>1. call[c] \in CallRecord /\ call'[c] = [call[c] EXCEPT !.pc = "built", !.gated = g]
      BY <1>3 DEF TypeOK
    <3>2. call'[c] \in CallRecord  BY <1>2, <3>1 DEF CallRecord, Step
    <3>3. call'[c].at = call[c].at /\ call'[c].pc = "built" /\ call'[c].gated = g
      BY <3>1 DEF CallRecord
    <3>4. SameDecision(c)  BY <3>1 DEF CallRecord, SameDecision
    <3> QED BY <1>3, <3>2, <3>3, <3>4 DEF TypeOK
  <2> QED BY <1>3, <2>1
<1>4. CASE call' = [call EXCEPT ![c] = refused]
  <2>1. refused.at = call[c].at /\ refused.pc = "refused"  BY DEF Idle
  <2>2. refused \in CallRecord  BY RefusedType
  <2> HIDE DEF refused
  <2> QED BY <1>4, <2>1, <2>2 DEF TypeOK
<1> HIDE DEF g, refused
<1> QED BY <1>1, <1>3, <1>4

(* Start runs the call and may supersede the run it continues, or refuses. *)
LEMMA StartOutcome ==
    ASSUME TypeOK, NEW c \in Call, Start(c)
    PROVE  /\ call' \in [Call -> CallRecord]
           /\ \A d \in Call :
                /\ call'[d].at = call[d].at
                /\ \/ d = c /\ call'[d].pc = "refused"
                   \/ /\ SameDecision(d) /\ call'[d].gated = call[d].gated
                      /\ \/ call'[d].pc = call[d].pc
                         \/ d = c /\ call'[d].pc = "running"
                         \/ call[d].pc = "resting" /\ call'[d].pc = "superseded"
<1> DEFINE p == call[c].pred
           started == [call EXCEPT ![c].pc = "running"]
           refused == [Idle EXCEPT !.pc = "refused", !.at = call[c].at]
<1>1. p \in Call \cup {None} /\ call[c].pc = "built"  BY DEF TypeOK, CallRecord, Start
<1>2. \/ call' = started
      \/ p \in Call /\ call[p].pc = "resting" /\ call' = [started EXCEPT ![p].pc = "superseded"]
      \/ call' = [call EXCEPT ![c] = refused]
  BY <1>1 DEF Start
<1>3. CASE call' = started
  BY <1>3 DEF TypeOK, CallRecord, Step, SameDecision
<1>4. CASE p \in Call /\ call[p].pc = "resting" /\ call' = [started EXCEPT ![p].pc = "superseded"]
  <2>1. p # c  BY <1>1, <1>4
  <2> HIDE DEF p
  <2>2. started \in [Call -> CallRecord] /\ started[c] = [call[c] EXCEPT !.pc = "running"]
    BY DEF TypeOK, CallRecord, Step
  <2>3. \A d \in Call \ {c} : started[d] = call[d]  BY DEF TypeOK
  <2> HIDE DEF started
  <2>4. /\ call' \in [Call -> CallRecord]
        /\ call'[p] = [call[p] EXCEPT !.pc = "superseded"]
        /\ call'[c] = [call[c] EXCEPT !.pc = "running"]
        /\ \A d \in Call \ {c, p} : call'[d] = call[d]
    BY <1>4, <2>1, <2>2, <2>3 DEF CallRecord, Step
  <2> QED BY <1>4, <2>4 DEF TypeOK, CallRecord, SameDecision
<1>5. CASE call' = [call EXCEPT ![c] = refused]
  <2>1. refused.at = call[c].at /\ refused.pc = "refused"  BY DEF Idle
  <2>2. refused \in CallRecord  BY RefusedType
  <2> HIDE DEF refused
  <2> QED BY <1>5, <2>1, <2>2 DEF TypeOK, SameDecision
<1> HIDE DEF started, p, refused
<1> QED BY <1>2, <1>3, <1>4, <1>5

(* Every step keeps every type.                                            *)
LEMMA NextType ==
    ASSUME TypeOK, AgentInv, [Next]_vars
    PROVE  TypeOK'
<1>1. CASE Tick  BY <1>1 DEF Tick, TypeOK
<1>2. ASSUME NEW f \in Feature, Disable(f) \/ Enable(f)  PROVE TypeOK'
  BY <1>2 DEF Disable, Enable, TypeOK
<1>3. ASSUME NEW c \in Call, Ask(c)  PROVE TypeOK'
  BY <1>3, AuthoriseType DEF Ask
<1>4. ASSUME NEW c \in Call, Continue(c)  PROVE TypeOK'
  <2>1. PICK p \in Call, fits \in BOOLEAN, cwd \in Dir \cup {"unusable"} :
           HoldsRecord(p) /\ Authorise(c, ContinuationRequest(p, fits, cwd), p)
    BY <1>4 DEF Continue
  <2> QED BY <2>1, RequestType, AuthoriseType
<1>5. ASSUME NEW c \in Call, Build(c)  PROVE TypeOK'
  BY <1>5, BuildOutcome DEF Build, TypeOK
<1>6. ASSUME NEW c \in Call, Start(c)  PROVE TypeOK'
  BY <1>6, StartOutcome DEF Start, TypeOK
<1>7. ASSUME NEW c \in Call, Rest(c) \/ End(c)  PROVE TypeOK'
  BY <1>7 DEF Rest, End, TypeOK, CallRecord, Step
<1>8. CASE UNCHANGED vars  BY <1>8 DEF vars, TypeOK
<1> QED BY <1>1, <1>2, <1>3, <1>4, <1>5, <1>6, <1>7, <1>8 DEF Next

-----------------------------------------------------------------------------
(* The limiter *)

(* What the limiter holds after an attempt.                                *)
LEMMA TimesAfter ==
    ASSUME LimiterInv, TypeOK, NEW c \in Call, call[c].pc = "idle", NEW req, NEW pred,
           Authorise(c, req, pred)
    PROVE  /\ IsFiniteSet(times')
           /\ \A d \in times' : IF d = c THEN RecordedAt(req) # None ELSE d \in times
           /\ config.perMin > 0 => Cardinality(times') <= config.perMin
           /\ Kept \subseteq times' \/ config.perMin = 0
           /\ RecordedAt(req) # None => c \in times'
<1> USE PolicyAssumption, LoaderAssumption
<1>1. c \notin times /\ Kept \subseteq times /\ IsFiniteSet(times)
  BY DEF LimiterInv, Kept
<1>2. IsFiniteSet(Kept) /\ Cardinality(Kept) <= Cardinality(times)
  BY <1>1, FS_Subset
<1>3. IsFiniteSet(Kept \cup {c}) /\ Cardinality(Kept \cup {c}) = Cardinality(Kept) + 1
  BY <1>1, <1>2, FS_AddElement
<1>4. config.perMin \in Nat /\ Cardinality(Kept) \in Nat /\ Cardinality(times) \in Nat
  BY <1>1, <1>2, FS_CardinalityType DEF TypeOK, Config
<1>5. now # None  BY DEF TypeOK
<1>6. CASE StructurallyRefused(req) \/ config.perMin = 0
  <2>1. times' = times  BY <1>6 DEF Authorise
  <2>2. RecordedAt(req) = None  BY <1>6, <1>4 DEF RecordedAt, Asked
  <2> QED BY <1>1, <2>1, <2>2 DEF LimiterInv
<1>7. CASE ~StructurallyRefused(req) /\ config.perMin # 0 /\ Allowed
  <2>1. times' = Kept \cup {c}  BY <1>7 DEF Authorise
  <2>2. RecordedAt(req) = now  BY <1>7, <1>4 DEF RecordedAt, Asked
  <2>3. Cardinality(Kept) < config.perMin  BY <1>7 DEF Allowed
  <2> QED BY <1>1, <1>3, <1>4, <1>5, <2>1, <2>2, <2>3
<1>8. CASE ~StructurallyRefused(req) /\ config.perMin # 0 /\ ~Allowed
  <2>1. times' = Kept  BY <1>8 DEF Authorise
  <2>2. RecordedAt(req) = None  BY <1>8 DEF RecordedAt
  <2> QED BY <1>1, <1>2, <1>4, <2>1, <2>2 DEF LimiterInv
<1> QED BY <1>6, <1>7, <1>8

(* A step that records no attempt, leaves the configuration alone and does *)
(* not turn the clock back keeps the limiter's invariant.                  *)
LEMMA LimiterFrame ==
    ASSUME LimiterInv, TypeOK, TypeOK', UNCHANGED <<config, times>>,
           now' = now \/ now' = now + 1,
           \A d \in Call : call'[d].at = call[d].at,
           \A d \in Call : call'[d].pc = "idle" => call[d].pc = "idle"
    PROVE  LimiterInv'
<1> USE PolicyAssumption, LoaderAssumption
<1>1. \A d \in Call : call[d].at \in Nat \cup {None}  BY DEF TypeOK, CallRecord
<1>2. Recent' \subseteq Recent  BY <1>1 DEF Recent, TypeOK
<1>3. \A d \in Call : call[d].at # None => call[d].at <= now'
  BY <1>1 DEF LimiterInv, TypeOK
<1> QED BY <1>2, <1>3 DEF LimiterInv, TypeOK

(* An attempt keeps it.                                                    *)
LEMMA LimiterAuthorise ==
    ASSUME LimiterInv, TypeOK, TypeOK', NEW c \in Call, call[c].pc = "idle",
           NEW req, NEW pred, Authorise(c, req, pred)
    PROVE  LimiterInv'
<1> USE PolicyAssumption, LoaderAssumption
<1>1. call' = [call EXCEPT ![c] = Outcome(req, pred)] /\ UNCHANGED <<config, now>>
  BY AuthoriseOutcome
<1>2. Outcome(req, pred).at = RecordedAt(req) /\ Outcome(req, pred).pc # "idle"
  BY DEF Outcome, Grant, Idle, RecordedAt
<1>3. /\ call'[c].at = RecordedAt(req) /\ call'[c].pc # "idle"
      /\ \A d \in Call \ {c} : call'[d] = call[d]
  BY <1>1, <1>2 DEF TypeOK
<1>4. RecordedAt(req) \in {None, now}  BY DEF RecordedAt
<1>5. \A d \in times' : call'[d].at # None
  BY <1>3, TimesAfter DEF LimiterInv, TypeOK
<1>6. \A d \in Call : call'[d].at # None => call'[d].at <= now'
  BY <1>1, <1>3, <1>4 DEF LimiterInv, TypeOK
<1>7. \A d \in Call : call'[d].pc = "idle" => call'[d].at = None
  BY <1>3 DEF LimiterInv
<1>8. Recent' \subseteq times'
  <2> SUFFICES ASSUME NEW d \in Recent'  PROVE d \in times'
    OBVIOUS
  <2>1. CASE d = c  BY <1>3, <2>1, TimesAfter DEF Recent
  <2>2. CASE d # c
    <3>1. d \in Recent  BY <1>1, <1>3, <2>2 DEF Recent
    <3>2. d \in Kept  BY <3>1 DEF Recent, Kept, LimiterInv
    <3>3. CASE config.perMin = 0
      BY <3>1, <3>3, TimesAfter DEF Authorise, LimiterInv
    <3> QED BY <3>2, <3>3, TimesAfter
  <2> QED BY <2>1, <2>2
<1> QED BY <1>1, <1>5, <1>6, <1>7, <1>8, TimesAfter DEF LimiterInv

(* Every step keeps it.                                                    *)
LEMMA LimiterNext ==
    ASSUME LimiterInv, TypeOK, TypeOK', [Next]_vars
    PROVE  LimiterInv'
<1>1. CASE Tick  BY <1>1, LimiterFrame DEF Tick, TypeOK
<1>2. ASSUME NEW f \in Feature, Disable(f) \/ Enable(f)  PROVE LimiterInv'
  BY <1>2, LimiterFrame DEF Disable, Enable
<1>3. ASSUME NEW c \in Call, Ask(c)  PROVE LimiterInv'
  BY <1>3, LimiterAuthorise DEF Ask
<1>4. ASSUME NEW c \in Call, Continue(c)  PROVE LimiterInv'
  BY <1>4, LimiterAuthorise DEF Continue
<1>5. ASSUME NEW c \in Call, Build(c)  PROVE LimiterInv'
  <2>1. \A d \in Call : call'[d].at = call[d].at /\ (call'[d].pc = "idle" => call[d].pc = "idle")
    BY <1>5, BuildOutcome DEF Build
  <2> QED BY <1>5, <2>1, LimiterFrame DEF Build
<1>6. ASSUME NEW c \in Call, Start(c)  PROVE LimiterInv'
  <2>1. \A d \in Call : call'[d].at = call[d].at /\ (call'[d].pc = "idle" => call[d].pc = "idle")
    BY <1>6, StartOutcome
  <2> QED BY <1>6, <2>1, LimiterFrame DEF Start
<1>7. ASSUME NEW c \in Call, Rest(c) \/ End(c)  PROVE LimiterInv'
  <2>1. \A d \in Call : call'[d].at = call[d].at /\ (call'[d].pc = "idle" => call[d].pc = "idle")
    BY <1>7 DEF Rest, End, TypeOK, CallRecord
  <2> QED BY <1>7, <2>1, LimiterFrame DEF Rest, End
<1>8. CASE UNCHANGED vars  BY <1>8, LimiterFrame DEF vars
<1> QED BY <1>1, <1>2, <1>3, <1>4, <1>5, <1>6, <1>7, <1>8 DEF Next

-----------------------------------------------------------------------------
(* Decisions *)

(* Call d keeps its decision; it may have been built.                      *)
Keeps(d) ==
    /\ Decided(d) /\ SameDecision(d)
    /\ \/ /\ call'[d].gated = call[d].gated
          /\ call[d].pc = "granted" => call'[d].pc = "granted"
       \/ Buildable(d) /\ (call'[d].gated => Interacts(d))

Past == {"resting", "superseded", "ended"}

(* Call d has just been granted what req asks for; as a continuation of    *)
(* pred, it asks for that run's agent and mode.                            *)
Granted(d, req, pred) ==
    /\ call'[d] = Grant(req, pred)
    /\ ~StructurallyRefused(req) /\ ~LaterRefused(req)
    /\ pred # None =>
          /\ pred # d /\ call[pred].pc \in Past
          /\ req.agent = call[pred].agent /\ req.sandbox = call[pred].mode

(* What a step does to a call that is decided after it, and to one that    *)
(* has come to rest before it.                                             *)
DecisionStep(d) ==
    /\ Decided(d)' => \/ Keeps(d)
                      \/ \E req \in Request, pred \in Call \cup {None} : Granted(d, req, pred)
    /\ call[d].pc \in Past => call'[d].pc \in Past

(* Authorise decides its own call and no other.                            *)
LEMMA AuthoriseDecides ==
    ASSUME TypeOK, NEW c \in Call, call[c].pc = "idle", NEW req \in Request,
           NEW pred \in Call \cup {None}, Authorise(c, req, pred),
           pred # None => /\ call[pred].pc \in Past
                          /\ req.agent = call[pred].agent /\ req.sandbox = call[pred].mode
    PROVE  \A d \in Call : DecisionStep(d)
<1>1. call' = [call EXCEPT ![c] = Outcome(req, pred)]  BY AuthoriseOutcome
<1>2. \A d \in Call \ {c} : call'[d] = call[d]  BY <1>1 DEF TypeOK
<1>3. \A d \in Call \ {c} : DecisionStep(d)  BY <1>2 DEF DecisionStep, Keeps, Decided, SameDecision
<1>4. call'[c] = Outcome(req, pred)  BY <1>1 DEF TypeOK
<1>5. call[c].pc \notin Past /\ pred # c  BY PolicyAssumption, LoaderAssumption DEF Past
<1>6. ASSUME Decided(c)'  PROVE Granted(c, req, pred)
  <2>1. call'[c].pc \notin {"limited", "refused"}  BY <1>6 DEF Decided
  <2>2. ~StructurallyRefused(req) /\ ~LaterRefused(req) /\ call'[c] = Grant(req, pred)
    BY <1>4, <2>1 DEF Outcome, Asked, Idle
  <2> QED BY <1>5, <2>2 DEF Granted
<1> QED BY <1>3, <1>5, <1>6 DEF DecisionStep

(* So does every step.                                                     *)
LEMMA StepDecides ==
    ASSUME TypeOK, AgentInv, [Next]_vars
    PROVE  config' = config /\ \A d \in Call : DecisionStep(d)
<1>1. CASE Tick \/ UNCHANGED vars \/ \E f \in Feature : Disable(f) \/ Enable(f)
  BY <1>1 DEF Tick, Disable, Enable, vars, DecisionStep, Keeps, Decided, SameDecision
<1>2. ASSUME NEW c \in Call, Ask(c)  PROVE config' = config /\ \A d \in Call : DecisionStep(d)
  BY <1>2, AuthoriseDecides DEF Ask, Authorise
<1>3. ASSUME NEW c \in Call, Continue(c)
      PROVE  config' = config /\ \A d \in Call : DecisionStep(d)
  <2>1. PICK p \in Call, fits \in BOOLEAN, cwd \in Dir \cup {"unusable"} :
           HoldsRecord(p) /\ Authorise(c, ContinuationRequest(p, fits, cwd), p)
    BY <1>3 DEF Continue
  <2>2. ContinuationRequest(p, fits, cwd) \in Request  BY <2>1, RequestType
  <2>3. call[p].pc \in Past  BY <2>1 DEF HoldsRecord, Past
  <2> DEFINE req == ContinuationRequest(p, fits, cwd)
  <2>4. req.agent = call[p].agent /\ req.sandbox = call[p].mode
    BY DEF ContinuationRequest
  <2> HIDE DEF req
  <2>5. \A d \in Call : DecisionStep(d)
    BY <1>3, <2>1, <2>2, <2>3, <2>4, AuthoriseDecides DEF Continue, req
  <2> QED BY <2>1, <2>5 DEF Authorise
<1>4. ASSUME NEW c \in Call, Build(c)  PROVE config' = config /\ \A d \in Call : DecisionStep(d)
  <2>1. call[c].pc \notin Past /\ Decided(c)  BY <1>4 DEF Build, Past, Decided
  <2>2. \A d \in Call \ {c} : call'[d] = call[d]  BY <1>4, BuildOutcome
  <2>3. \/ Keeps(c)
        \/ call'[c].pc = "refused"
    BY <1>4, <2>1, BuildOutcome DEF Keeps
  <2>4. \A d \in Call : DecisionStep(d)
    BY <2>1, <2>2, <2>3 DEF DecisionStep, Keeps, Decided, SameDecision
  <2> QED BY <1>4, <2>4 DEF Build
<1>5. ASSUME NEW c \in Call, Start(c)  PROVE config' = config /\ \A d \in Call : DecisionStep(d)
  <2>1. call[c].pc = "built"  BY <1>5 DEF Start
  <2>2. SUFFICES ASSUME NEW d \in Call  PROVE DecisionStep(d)
    BY <1>5 DEF Start
  <2>3. CASE d = c /\ call'[d].pc = "refused"
    BY <2>1, <2>3 DEF DecisionStep, Decided, Past
  <2>4. CASE /\ SameDecision(d) /\ call'[d].gated = call[d].gated
             /\ \/ call'[d].pc = call[d].pc
                \/ d = c /\ call'[d].pc = "running"
                \/ call[d].pc = "resting" /\ call'[d].pc = "superseded"
    BY <2>1, <2>4 DEF DecisionStep, Decided, Past, Keeps
  <2> QED BY <1>5, <2>3, <2>4, StartOutcome
<1>6. ASSUME NEW c \in Call, Rest(c) \/ End(c)
      PROVE  config' = config /\ \A d \in Call : DecisionStep(d)
  <2>1. \A d \in Call : \/ Keeps(d) /\ call'[d].pc \in Past
                        \/ call'[d] = call[d]
    BY <1>6 DEF Rest, End, TypeOK, CallRecord, Keeps, SameDecision, Past, Decided
  <2>2. \A d \in Call : DecisionStep(d)
    BY <2>1 DEF DecisionStep, Keeps, Decided, SameDecision
  <2> QED BY <1>6, <2>2 DEF Rest, End
<1> QED BY <1>1, <1>2, <1>3, <1>4, <1>5, <1>6 DEF Next

(* A granted request stays under the configuration.                        *)
LEMMA GrantedFacts ==
    ASSUME TypeOK, TypeOK', config' = config, NEW d \in Call, NEW req \in Request,
           NEW pred \in Call \cup {None}, Granted(d, req, pred), AgentInv, ConfigInv,
           \A e \in Call : DecisionStep(e)
    PROVE  /\ call'[d].agent \in AgentId /\ config'.agents[call'[d].agent] # None
           /\ call'[d].mode \in Mode
           /\ WithinConfig(d)' /\ LikePredecessor(d)'
           /\ call'[d].pred # None => call'[call'[d].pred].pc \in Past
<1> DEFINE a == config.agents[req.agent]
<1>1. /\ req.agent \in AgentId /\ a # None /\ ResolvedMode(req, a) \in Mode
      /\ ResolvedMode(req, a) = "write" => a.mode = "write"
      /\ req.model \in a.models \cup {None} /\ ResolvedCWD(req) \in Inside
  BY GrantWithin DEF Granted
<1>2. /\ call'[d].agent = req.agent /\ call'[d].mode = ResolvedMode(req, a)
      /\ call'[d].model = req.model /\ call'[d].cwd = ResolvedCWD(req)
      /\ call'[d].gated = FALSE /\ call'[d].pred = pred
  BY DEF Granted, Grant
<1>3. WithinConfig(d)'
  <2>1. /\ a.mode = "write" => config.allowWrite
        /\ a.worktree = "off" => config.allowWrite /\ config.allowUnconfined
    BY <1>1, AcceptedAdapter
  <2> HIDE DEF a
  <2>2. a = config'.agents[call'[d].agent]  BY <1>2 DEF a
  <2>3. call'[d].pc = "granted"  BY DEF Granted, Grant
  <2> QED BY <1>1, <1>2, <2>1, <2>2, <2>3 DEF WithinConfig
<1>4. ASSUME pred # None
      PROVE  /\ call'[d].agent = call'[pred].agent /\ call'[d].mode = call'[pred].mode
             /\ call'[pred].pc \in Past
  <2>1. pred \in Call /\ pred # d /\ call[pred].pc \in Past
        /\ req.agent = call[pred].agent /\ req.sandbox = call[pred].mode
    BY <1>4 DEF Granted
  <2>2. call'[pred].pc \in Past  BY <2>1 DEF DecisionStep
  <2>3. Keeps(pred)
    <3>1. ASSUME NEW r \in Request, NEW q \in Call \cup {None}, Granted(pred, r, q)
          PROVE  FALSE
      BY <2>2, <3>1 DEF Granted, Grant, Past
    <3> QED BY <2>1, <2>2, <3>1 DEF DecisionStep, Decided, Past
  <2>4. call[pred].mode \in Mode  BY <2>1, <2>3 DEF AgentInv, Keeps
  <2>5. ResolvedMode(req, a) = call[pred].mode
    BY <2>1, <2>4, LoaderAssumption DEF ResolvedMode
  <2> QED BY <1>2, <2>1, <2>2, <2>3, <2>5 DEF Keeps, SameDecision
<1> QED BY <1>1, <1>2, <1>3, <1>4 DEF LikePredecessor

(* Every step keeps decisions within the configuration and chains alike.   *)
LEMMA NarrowNext ==
    ASSUME TypeOK, TypeOK', ConfigInv, AgentInv, ChainInv, NarrowsOnly, [Next]_vars
    PROVE  ConfigInv' /\ AgentInv' /\ ChainInv' /\ NarrowsOnly'
<1>1. config' = config /\ \A d \in Call : DecisionStep(d)  BY StepDecides
<1>2. SUFFICES ASSUME NEW d \in Call, Decided(d)'
               PROVE  /\ call'[d].agent \in AgentId
                      /\ config'.agents[call'[d].agent] # None
                      /\ call'[d].mode \in Mode
                      /\ WithinConfig(d)' /\ LikePredecessor(d)'
                      /\ call'[d].pred # None => call'[call'[d].pred].pc \in Past
  BY <1>1 DEF ConfigInv, AgentInv, ChainInv, NarrowsOnly, Past
<1>3. CASE Keeps(d)
  <2>1. /\ call[d].agent \in AgentId /\ config.agents[call[d].agent] # None
        /\ call[d].mode \in Mode /\ WithinConfig(d) /\ LikePredecessor(d)
    BY <1>3 DEF AgentInv, NarrowsOnly, Keeps
  <2>2. WithinConfig(d)'
    <3> DEFINE a == config.agents[call[d].agent]
    <3>1. /\ a = config'.agents[call'[d].agent] /\ call'[d].mode = call[d].mode
          /\ call'[d].model = call[d].model /\ call'[d].cwd = call[d].cwd
      BY <1>1, <1>3 DEF Keeps, SameDecision
    <3>2. a.interactive => a.mode = "read_only"  BY <2>1, AcceptedAdapter
    <3>3. CASE /\ call'[d].gated = call[d].gated
               /\ call[d].pc = "granted" => call'[d].pc = "granted"
      BY <1>1, <2>1, <3>1, <3>3 DEF WithinConfig
    <3>4. CASE Buildable(d) /\ (call'[d].gated => Interacts(d))
      <4>1. a.enforced => Flags(a.sandbox, call[d].mode) # <<>>  BY <3>4 DEF Buildable
      <4>2. call'[d].gated => a.interactive /\ Interactive \in config.ceiling
        BY <3>4 DEF Interacts, FeatureEnabled
      <4>3. a.interactive => call[d].mode = "read_only"
        BY <2>1, <3>2 DEF WithinConfig, Mode
      <4> QED BY <1>1, <2>1, <3>1, <4>1, <4>2, <4>3 DEF WithinConfig
    <3> QED BY <1>3, <3>3, <3>4 DEF Keeps
  <2>3. ASSUME call[d].pred # None
        PROVE  call'[call[d].pred].pc \in Past /\ Keeps(call[d].pred)
    <3> DEFINE p == call[d].pred
    <3>1. p \in Call /\ call[p].pc \in Past
      BY <1>3, <2>3 DEF ChainInv, Keeps, TypeOK, CallRecord, Past
    <3> HIDE DEF p
    <3>2. call'[p].pc \in Past  BY <1>1, <3>1 DEF DecisionStep
    <3>3. ASSUME NEW r \in Request, NEW q \in Call \cup {None}, Granted(p, r, q)
          PROVE  FALSE
      BY <3>2, <3>3 DEF Granted, Grant, Past
    <3>4. Keeps(p)  BY <1>1, <3>1, <3>2, <3>3 DEF DecisionStep, Decided, Past
    <3> QED BY <3>2, <3>4 DEF p
  <2>4. LikePredecessor(d)'
    BY <1>3, <2>1, <2>3 DEF LikePredecessor, Keeps, SameDecision
  <2> QED BY <1>1, <1>3, <2>1, <2>2, <2>3, <2>4 DEF Keeps, SameDecision
<1>4. ASSUME NEW req \in Request, NEW pred \in Call \cup {None}, Granted(d, req, pred)
      PROVE  /\ call'[d].agent \in AgentId
             /\ config'.agents[call'[d].agent] # None
             /\ call'[d].mode \in Mode
             /\ WithinConfig(d)' /\ LikePredecessor(d)'
             /\ call'[d].pred # None => call'[call'[d].pred].pc \in Past
  BY <1>1, <1>4, GrantedFacts
<1> QED BY <1>1, <1>2, <1>3, <1>4 DEF DecisionStep

-----------------------------------------------------------------------------
(* Theorems *)

IInv == TypeOK /\ ConfigInv /\ AgentInv /\ ChainInv /\ NarrowsOnly /\ LimiterInv

(* The invariants are inductive together.                                  *)
LEMMA Invariance == Spec => []IInv
<1>1. Init => IInv
  <2> SUFFICES ASSUME Init  PROVE IInv
    OBVIOUS
  <2>0. PICK f \in File : Accepted(f) /\ config = Load(f)  BY DEF Init
  <2>1. TypeOK
    BY <2>0, LoadedCorrect, PolicyAssumption, LoaderAssumption
       DEF Init, TypeOK, CallRecord, Idle, Step
  <2>4. ConfigInv  BY <2>0, LoadedCorrect, PolicyAssumption DEF ConfigInv
  <2>2. AgentInv /\ ChainInv /\ NarrowsOnly
    BY DEF Init, AgentInv, ChainInv, NarrowsOnly, Decided, Idle
  <2>3. LimiterInv
    <3>1. IsFiniteSet({}) /\ Cardinality({}) = 0  BY FS_EmptySet
    <3>2. config.perMin > 0 => Cardinality(times) <= config.perMin
      BY <3>1, <2>1 DEF Init, TypeOK, Config
    <3> QED BY <3>1, <3>2 DEF Init, LimiterInv, Recent, Idle
  <2> QED BY <2>1, <2>2, <2>3, <2>4 DEF IInv
<1>2. IInv /\ [Next]_vars => IInv'
  BY NextType, NarrowNext, LimiterNext DEF IInv
<1> QED BY <1>1, <1>2, PTL DEF Spec

(* Every variable of Policy keeps its type, for all constants.             *)
THEOREM PolicyTypeCorrect == Spec => []TypeOK
<1>1. IInv => TypeOK  BY DEF IInv
<1> QED BY <1>1, Invariance, PTL

(* rateLimiter.allow: in every minute, wherever it begins, no more than    *)
(* rate_per_minute attempts pass.                                          *)
THEOREM RateCorrect == Spec => []RateBound
<1>1. IInv => RateBound
  <2> SUFFICES ASSUME IInv, config.perMin > 0
               PROVE  Cardinality(Recent) <= config.perMin
    BY DEF RateBound
  <2>1. IsFiniteSet(times) /\ Recent \subseteq times /\ Cardinality(times) <= config.perMin
    BY DEF IInv, LimiterInv
  <2>2. IsFiniteSet(Recent) /\ Cardinality(Recent) <= Cardinality(times)
    BY <2>1, FS_Subset
  <2>3. Cardinality(Recent) \in Nat /\ Cardinality(times) \in Nat /\ config.perMin \in Nat
    BY <2>1, <2>2, FS_CardinalityType DEF IInv, TypeOK, Config
  <2> QED BY <2>1, <2>2, <2>3
<1> QED BY <1>1, Invariance, PTL

(* The limiter refuses nobody while less than a minute's worth has passed. *)
THEOREM LimiterFair == Spec => RefusedOnlyWhenFull
<1> DEFINE OnlyWhenFull ==
             \A c \in Call :
                 (call[c].pc = "idle" /\ call'[c].pc = "limited") =>
                     config.perMin > 0 /\ Cardinality(Recent) >= config.perMin
<1>1. IInv /\ [Next]_vars => OnlyWhenFull
  <2> SUFFICES ASSUME IInv, [Next]_vars, NEW c \in Call,
                      call[c].pc = "idle", call'[c].pc = "limited"
               PROVE  config.perMin > 0 /\ Cardinality(Recent) >= config.perMin
    OBVIOUS
  <2>1. ~Allowed
    <3>1. ASSUME NEW d \in Call, NEW req, NEW pred, Authorise(d, req, pred)  PROVE ~Allowed
      <4>1. call'[c] = IF c = d THEN Outcome(req, pred) ELSE call[c]
        BY <3>1, AuthoriseOutcome DEF IInv, TypeOK
      <4>2. Outcome(req, pred).pc = "limited"  BY <4>1
      <4> QED BY <4>2 DEF Outcome, Grant, Idle
    <3>2. ASSUME NEW d \in Call, Ask(d) \/ Continue(d)  PROVE ~Allowed
      BY <3>1, <3>2 DEF Ask, Continue
    <3>3. ASSUME NEW d \in Call, Build(d)  PROVE FALSE
      BY <3>3, BuildOutcome DEF IInv
    <3>4. ASSUME NEW d \in Call, Start(d)  PROVE FALSE
      BY <3>4, StartOutcome DEF IInv
    <3>5. ASSUME NEW d \in Call, Rest(d) \/ End(d)  PROVE FALSE
      BY <3>5 DEF Rest, End, IInv, TypeOK, CallRecord
    <3>6. CASE Tick \/ UNCHANGED vars \/ \E f \in Feature : Disable(f) \/ Enable(f)
      BY <3>6 DEF Tick, vars, Disable, Enable
    <3> QED BY <3>2, <3>3, <3>4, <3>5, <3>6 DEF Next
  <2>2. config.perMin \in Nat /\ config.perMin # 0 /\ ~(Cardinality(Kept) < config.perMin)
    BY <2>1 DEF Allowed, IInv, TypeOK, Config
  <2>3. Kept = Recent
    BY DEF Kept, Recent, IInv, LimiterInv, TypeOK
  <2>4. Cardinality(Recent) \in Nat
    BY FS_Subset, FS_CardinalityType DEF IInv, LimiterInv
  <2> QED BY <2>2, <2>3, <2>4
<1>2. Spec => [][OnlyWhenFull]_vars
  BY <1>1, Invariance, PTL DEF Spec
<1> QED BY <1>2 DEF RefusedOnlyWhenFull

(* No call, no continuation and no switch gets a run beyond the            *)
(* configuration, and a continuation keeps its predecessor's mode.         *)
THEOREM NarrowingCorrect == Spec => []NarrowsOnly
<1>1. IInv => NarrowsOnly  BY DEF IInv
<1> QED BY <1>1, Invariance, PTL

=============================================================================
