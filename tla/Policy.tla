------------------------------- MODULE Policy -------------------------------
(***************************************************************************)
(* Admission at one server: what the policy engine decides about ask_*     *)
(* calls and continuations, its rate limiter, the operator's switches, and *)
(* what the caller does with the decision up to Start.                     *)
(*                                                                         *)
(* Time passes in ticks.  The path guard is external: a request's cwd is   *)
(* the directory the guard makes of it.  Of the features only those in     *)
(* Feature are told apart; building a spec asks for Interactive alone.     *)
(* What RunRegistry says about the continuation record and about slots is  *)
(* reduced to who holds the record and to a Start that may refuse.         *)
(***************************************************************************)
EXTENDS Loader, FiniteSets

CONSTANTS
    Call,         \* calls that may lead to a run, and the runs they lead to
    Dir,          \* canonical directories
    Inside,       \* those under one of allowed_roots
    FirstRoot,
    Interactive,  \* the feature that buildSpec consults
    File,         \* the configuration files considered
    Minute,       \* ticks in a minute
    MaxTime       \* bound: the clock

ASSUME PolicyAssumption ==
    /\ FirstRoot \in Inside /\ Inside \subseteq Dir
    /\ Interactive \in Feature
    /\ None \notin Call \cup Dir
    /\ File \subseteq Config
    /\ Minute \in Nat \ {0}
    /\ MaxTime \in Nat

VARIABLES
    config,  \* the loaded configuration, as far as admission reads it
    now,     \* the clock
    times,   \* rateLimiter.times: the calls whose attempts it still holds
    off,     \* Toggles.off
    call     \* each call: how far it is, and what was decided

vars == <<config, now, times, off, call>>

-----------------------------------------------------------------------------
(* Types *)

(* None stands for a field that is left out.  cwd: what Canonicalise makes *)
(* of the path; "unusable" is its error.                                   *)
Request == [agent : AgentId, fits : BOOLEAN,
            sandbox : Mode \cup {None, "unknown"}, model : Model \cup {None},
            cwd : Dir \cup {None, "unusable"}]

(* "limited": refused by the rate limiter; "refused": by anything else. *)
Step == {"idle", "limited", "refused", "granted", "built", "running", "resting",
         "superseded", "ended"}

(* pred: the run a continuation carries on.  at: when the limiter recorded *)
(* the attempt.  gated: buildSpec has started a gate for it.               *)
CallRecord == [pc : Step, pred : Call \cup {None}, at : Nat \cup {None},
               agent : AgentId \cup {None}, mode : Mode \cup {None},
               model : Model \cup {None}, cwd : Dir \cup {None}, gated : BOOLEAN]

Idle == [pc |-> "idle", pred |-> None, at |-> None, agent |-> None, mode |-> None,
         model |-> None, cwd |-> None, gated |-> FALSE]

TypeOK ==
    /\ config \in Config
    /\ now \in Nat
    /\ times \in SUBSET Call
    /\ off \in SUBSET Feature
    /\ call \in [Call -> CallRecord]

Init ==
    /\ config \in {Load(f) : f \in {g \in File : Accepted(g) /\ ParsersBound(Load(g))}}
    /\ now = 0
    /\ times = {}
    /\ off = {}
    /\ call = [c \in Call |-> Idle]

-----------------------------------------------------------------------------
(* The engine *)

(* rateLimiter.allow: the attempts of the last minute, and whether one     *)
(* more passes.                                                            *)
Bug_KeepOldest == {c \in times : call[c].at >= now - Minute}

Kept == {c \in times : call[c].at > now - Minute}

Bug_OneMore == config.perMin = 0 \/ Cardinality(Kept) <= config.perMin

Allowed == config.perMin = 0 \/ Cardinality(Kept) < config.perMin

FeatureEnabled(f) == f \in config.ceiling /\ f \notin off

(* The checks before the limiter is asked. *)
StructurallyRefused(req) ==
    config.exhausted \/ req.agent = Host \/ config.agents[req.agent] = None

(* resolveMode may only narrow. *)
ModeRefused(req, a) ==
    req.sandbox = "unknown" \/ (req.sandbox = "write" /\ a.mode # "write")

ResolvedMode(req, a) == IF req.sandbox = None THEN a.mode ELSE req.sandbox

ResolvedCWD(req) == IF req.cwd = None THEN FirstRoot ELSE req.cwd

(* The checks after it. *)
LaterRefused(req) ==
    LET a == config.agents[req.agent] IN
    \/ ~req.fits
    \/ ModeRefused(req, a)
    \/ req.model \notin a.models \cup {None}
    \/ ResolvedCWD(req) \notin Inside

(* Every attempt that gets as far as the limiter and passes is recorded,   *)
(* whatever the later checks say; without a limit nothing is.              *)
Authorise(c, req, pred) ==
    LET a == config.agents[req.agent]
        asked == ~StructurallyRefused(req)
        recorded == asked /\ Allowed /\ config.perMin > 0
        at == IF recorded THEN now ELSE None
    IN  /\ call' = [call EXCEPT ![c] =
              IF asked /\ ~Allowed THEN [Idle EXCEPT !.pc = "limited"]
              ELSE IF ~asked \/ LaterRefused(req)
                   THEN [Idle EXCEPT !.pc = "refused", !.at = at]
              ELSE [pc |-> "granted", pred |-> pred, at |-> at, agent |-> req.agent,
                    mode |-> ResolvedMode(req, a), model |-> req.model,
                    cwd |-> ResolvedCWD(req), gated |-> FALSE]]
        /\ times' = IF ~asked \/ config.perMin = 0 THEN times
                    ELSE IF Allowed THEN Kept \cup {c} ELSE Kept
        /\ UNCHANGED <<config, now, off>>

-----------------------------------------------------------------------------
(* The callers *)

(* registerTools: no tools at all at the depth limit, and one ask_* tool   *)
(* per adapter.                                                            *)
Offered == IF config.exhausted THEN {} ELSE {a \in AgentId : config.agents[a] # None}

Ask(c) ==
    /\ call[c].pc = "idle"
    /\ \E req \in Request :
          /\ req.agent \in Offered
          /\ Authorise(c, req, None)

(* The record of a resting run, unless another continuation has taken it. *)
HoldsRecord(p) ==
    /\ call[p].pc = "resting"
    /\ \A c \in Call : ~(call[c].pred = p /\ call[c].pc \in {"granted", "built"})

(* continueRun authorises the seed with the agent, the directory and the   *)
(* mode of the record; the record has no model.  By now the path guard may *)
(* make something else of the directory.                                   *)
ContinuationRequest(p, fits, cwd) ==
    [agent |-> call[p].agent, fits |-> fits, sandbox |-> call[p].mode,
     model |-> None, cwd |-> cwd]

Continue(c) ==
    /\ call[c].pc = "idle"
    /\ \E p \in Call, fits \in BOOLEAN, cwd \in Dir \cup {"unusable"} :
          /\ HoldsRecord(p)
          /\ Authorise(c, ContinuationRequest(p, fits, cwd), p)

(* interactiveEnabled, and flags for the mode: the adapter, the            *)
(* configuration and the switch all say so at this moment.                 *)
Interacts(c) ==
    LET a == config.agents[call[c].agent] IN
    /\ a.interactive /\ FeatureEnabled(Interactive)
    /\ Flags(a.gate, call[c].mode) # <<>>

(* SandboxFlags refuses a mode for which enforcement is claimed and no     *)
(* flag is declared; BuildArgs what loads and cannot be expanded.          *)
Bug_AnySandbox(c) ==
    LET a == config.agents[call[c].agent] IN
    /\ Interacts(c) => Builds(Flags(a.gate, call[c].mode))
    /\ Builds(a.invoke.args)

Buildable(c) ==
    LET a == config.agents[call[c].agent] IN
    /\ a.enforced => Flags(a.sandbox, call[c].mode) # <<>>
    /\ Interacts(c) => Builds(Flags(a.gate, call[c].mode))
    /\ Builds(a.invoke.args)

(* buildSpec; any of its steps may fail.                                   *)
Build(c) ==
    /\ call[c].pc = "granted"
    /\ \/ /\ Buildable(c)
          /\ call' = [call EXCEPT ![c].pc = "built", ![c].gated = Interacts(c)]
       \/ call' = [call EXCEPT ![c] = [Idle EXCEPT !.pc = "refused", !.at = call[c].at]]
    /\ UNCHANGED <<config, now, times, off>>

(* Start admits the run or refuses it; a continuation's predecessor is     *)
(* superseded unless it has ended by itself.                               *)
Start(c) ==
    LET p == call[c].pred
        started == [call EXCEPT ![c].pc = "running"]
    IN  /\ call[c].pc = "built"
        /\ \/ call' = IF p = None THEN started
                      ELSE IF call[p].pc = "resting"
                           THEN [started EXCEPT ![p].pc = "superseded"]
                           ELSE started
           \/ call' = [call EXCEPT ![c] = [Idle EXCEPT !.pc = "refused", !.at = call[c].at]]
        /\ UNCHANGED <<config, now, times, off>>

-----------------------------------------------------------------------------
(* Everything else *)

(* A run comes to rest on a question, which takes a gate; a running or a   *)
(* resting one ends.                                                       *)
Rest(c) ==
    /\ call[c].pc = "running" /\ call[c].gated
    /\ call' = [call EXCEPT ![c].pc = "resting"]
    /\ UNCHANGED <<config, now, times, off>>

End(c) ==
    /\ call[c].pc \in {"running", "resting"}
    /\ call' = [call EXCEPT ![c].pc = "ended"]
    /\ UNCHANGED <<config, now, times, off>>

(* SetFeature, for an operator: a switch is lifted only under the ceiling. *)
Disable(f) ==
    /\ off' = off \cup {f}
    /\ UNCHANGED <<config, now, times, call>>

Enable(f) ==
    /\ f \in config.ceiling
    /\ off' = off \ {f}
    /\ UNCHANGED <<config, now, times, call>>

Tick ==
    /\ now < MaxTime
    /\ now' = now + 1
    /\ UNCHANGED <<config, times, off, call>>

Next ==
    \/ Tick
    \/ \E f \in Feature : Disable(f) \/ Enable(f)
    \/ \E c \in Call : Ask(c) \/ Continue(c) \/ Build(c) \/ Start(c) \/ Rest(c) \/ End(c)

Spec == Init /\ [][Next]_vars

-----------------------------------------------------------------------------
(* Properties *)

(* Calls whose attempts the limiter has recorded in the last minute. *)
Recent == {c \in Call : call[c].at # None /\ call[c].at > now - Minute}

(* rate_per_minute bounds the attempts of every minute, wherever it begins, *)
(* although the limiter forgets old attempts only when it is asked.         *)
RateBound == config.perMin > 0 => Cardinality(Recent) <= config.perMin

(* A caller is turned away by the limiter only while a full minute's worth *)
(* of attempts has passed: refused attempts do not count, so that a caller *)
(* that keeps trying does not lock itself out.                             *)
RefusedOnlyWhenFull ==
    [][\A c \in Call :
          (call[c].pc = "idle" /\ call'[c].pc = "limited") =>
              config.perMin > 0 /\ Cardinality(Recent) >= config.perMin]_vars

Decided(c) == call[c].pc \notin {"idle", "limited", "refused"}

WithinConfig(c) ==
    LET a == config.agents[call[c].agent] IN
    /\ call[c].mode = "write" => a.mode = "write" /\ config.allowWrite
    /\ a.worktree = "off" => config.allowWrite /\ config.allowUnconfined
    /\ call[c].model \in a.models \cup {None}
    /\ call[c].cwd \in Inside
    /\ call[c].pc # "granted" => (a.enforced => Flags(a.sandbox, call[c].mode) # <<>>)
    /\ call[c].gated => Interactive \in config.ceiling /\ call[c].mode = "read_only"

LikePredecessor(c) ==
    LET p == call[c].pred IN
    p # None => call[c].agent = call[p].agent /\ call[c].mode = call[p].mode

(* Whatever the file holds, a caller asks for and the operator switches, a *)
(* call stays under the configuration: it writes only under the ceilings   *)
(* for writing, it is labelled sandboxed only if its mode has flags, and   *)
(* only a read-only one meets the gate, which denies every write.  A run   *)
(* that a caller had narrowed to read-only stays so in every continuation, *)
(* which is authorised anew.                                               *)
NarrowsOnly == \A c \in Call : Decided(c) => WithinConfig(c) /\ LikePredecessor(c)

-----------------------------------------------------------------------------
(* The inductive invariants behind these *)

(* The limiter holds every recent attempt, and no more than it may. *)
LimiterInv ==
    /\ IsFiniteSet(times)
    /\ \A c \in times : call[c].at # None
    /\ \A c \in Call : call[c].at # None => call[c].at <= now
    /\ \A c \in Call : call[c].pc = "idle" => call[c].at = None
    /\ Recent \subseteq times
    /\ config.perMin > 0 => Cardinality(times) <= config.perMin

(* A call's predecessor has come to rest and will not change any more. *)
ChainInv ==
    \A c \in Call :
        (Decided(c) /\ call[c].pred # None) =>
            call[call[c].pred].pc \in {"resting", "superseded", "ended"}

(* What the loader asked of every adapter still holds. *)
ConfigInv ==
    \A id \in AgentId : config.agents[id] # None => AdapterAccepted(config, config.agents[id])

(* A decided call has a configured agent and a mode. *)
AgentInv ==
    \A c \in Call :
        Decided(c) => /\ call[c].agent \in AgentId
                      /\ config.agents[call[c].agent] # None
                      /\ call[c].mode \in Mode

=============================================================================
