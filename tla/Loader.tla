------------------------------- MODULE Loader -------------------------------
(***************************************************************************)
(* What a server makes of its configuration file: the rules a file has to  *)
(* satisfy, and what is left of it when it is loaded.                      *)
(*                                                                         *)
(* Of the schema only the types are here.  A command is what it resolves   *)
(* to on PATH.  A flag list that a block leaves out is None.               *)
(***************************************************************************)
EXTENDS Argv

CONSTANTS
    AgentId,  \* agents, the host's own among them
    Host,
    Parsed,   \* agents this build has a parser for
    Model,    \* models a caller may name
    Feature,
    None

Mode == {"read_only", "write"}

Block == [Mode -> Seq(Element) \cup {None}]

Flags(block, mode) == IF block[mode] = None THEN <<>> ELSE block[mode]

Declares(block) == \E m \in Mode : block[m] # None

Invocation == [args : Seq(Element), prompt : {"stdin", "stdin_stream_json", "argv"},
               closes : {None, "result", "never"}]

Steer == [mode : {"command", "stdin"}, args : Seq(Element), record : BOOLEAN]

Adapter ==
    [tier : {"basic", "full"}, mode : Mode, worktree : {"required", "off"},
     enforced : BOOLEAN, models : SUBSET Model, command : STRING,
     stream : BOOLEAN, resume : BOOLEAN, steer : {"no", "true", "queued"},
     interactive : BOOLEAN, structured : BOOLEAN,
     sandbox : Block, resumeSandbox : Block, gate : Block,
     invoke : Invocation, resumeInvoke : Invocation \cup {None},
     steering : Steer \cup {None}]

(* exhausted: max_depth is not over the server's depth.  perMin: 0 in a    *)
(* file that leaves it out.                                                *)
Config ==
    [exhausted : BOOLEAN, perMin : Nat, queue : BOOLEAN, queueDepth : Nat,
     allowWrite : BOOLEAN, allowUnconfined : BOOLEAN, credentials : BOOLEAN,
     ceiling : SUBSET Feature, agents : [AgentId -> Adapter \cup {None}]]

ASSUME LoaderAssumption ==
    /\ Host \in AgentId
    /\ None \notin AgentId \cup Model \cup Mode \cup Nat

-----------------------------------------------------------------------------
(* The rules *)

BasicClaimsNothing(a) ==
    a.tier = "basic" =>
        ~a.stream /\ ~a.resume /\ a.steer = "no" /\ ~a.interactive /\ ~a.structured

(* A resumed session must not drop the sandbox. *)
ResumeSandboxed(a) ==
    a.resume =>
        /\ a.resumeInvoke # None
        /\ Declares(a.sandbox) /\ ~Declares(a.resumeSandbox) =>
              /\ ~Uses(a.resumeInvoke.args, "resume_sandbox_flags")
              /\ Uses(a.resumeInvoke.args, "sandbox_flags")

SteerChannel(a) ==
    IF a.steer = "no" THEN a.steering = None
    ELSE /\ a.steering # None
         /\ a.steering.mode = "command" => a.steering.args # <<>>
         /\ a.steering.mode = "stdin" => a.steering.record

QuestionTool == "AskUserQuestion"

(* mentionsQuestionTool, anywhere in what the child may be given. *)
MentionsQuestionTool(a) ==
    \E args \in {Flags(a.sandbox, a.mode), Flags(a.resumeSandbox, a.mode),
                 Flags(a.gate, a.mode), a.invoke.args,
                 IF a.resumeInvoke = None THEN <<>> ELSE a.resumeInvoke.args} :
        \E i \in DOMAIN args : args[i].flag = QuestionTool

Bug_AnyMode(a) ==
    a.interactive =>
        /\ a.stream
        /\ Flags(a.gate, a.mode) # <<>>
        /\ a.resumeInvoke # None => Uses(a.resumeInvoke.args, "gate_flags")
        /\ MentionsQuestionTool(a)

(* A question has a way to be seen, to be sent and to be raised, and no    *)
(* write is ever put to the gate, which would deny it.                     *)
CanAsk(a) ==
    a.interactive =>
        /\ a.stream
        /\ Flags(a.gate, a.mode) # <<>>
        /\ a.resumeInvoke # None => Uses(a.resumeInvoke.args, "gate_flags")
        /\ a.mode = "read_only"
        /\ MentionsQuestionTool(a)

(* A sandbox that is not there must be declared; only for the adapter's    *)
(* own mode, which a call may narrow.                                      *)
SandboxDeclared(a) == a.enforced => Flags(a.sandbox, a.mode) # <<>>

Bug_OneCeiling(c, a) ==
    /\ a.mode = "write" => c.allowWrite
    /\ a.worktree = "off" => c.allowWrite

UnderCeilings(c, a) ==
    /\ a.mode = "write" => c.allowWrite
    /\ a.worktree = "off" => c.allowWrite /\ c.allowUnconfined

InvocationLoads(inv) ==
    /\ inv.prompt = "stdin_stream_json" => inv.closes # None
    /\ Loads(inv.args)

TemplatesLoad(a) ==
    /\ InvocationLoads(a.invoke)
    /\ a.resumeInvoke # None => InvocationLoads(a.resumeInvoke)
    /\ a.steering # None => Loads(a.steering.args)
    /\ \A m \in Mode : Loads(Flags(a.sandbox, m)) /\ Loads(Flags(a.resumeSandbox, m))
                       /\ Loads(Flags(a.gate, m))

AdapterAccepted(c, a) ==
    /\ BasicClaimsNothing(a)
    /\ ResumeSandboxed(a)
    /\ SteerChannel(a)
    /\ CanAsk(a)
    /\ SandboxDeclared(a)
    /\ UnderCeilings(c, a)
    /\ TemplatesLoad(a)
    /\ a.command \notin {"missing", "script"}

(* validateSemantics; the host's own adapter is still among them. *)
Accepted(file) ==
    /\ ~file.credentials
    /\ \A id \in AgentId : file.agents[id] # None => AdapterAccepted(file, file.agents[id])
    /\ file.queue => file.queueDepth >= 1

-----------------------------------------------------------------------------
(* Loading *)

(* dropHostAdapter: by its name, and whatever runs the same executable.    *)
IsHost(file, id) ==
    \/ id = Host
    \/ /\ file.agents[Host] # None /\ file.agents[id] # None
       /\ file.agents[id].command = file.agents[Host].command

Load(file) ==
    [file EXCEPT !.perMin = IF file.perMin = 0 THEN 20 ELSE file.perMin,
                 !.agents = [id \in AgentId |-> IF IsHost(file, id) THEN None
                                                ELSE file.agents[id]]]

(* runServe starts with no adapter it cannot parse. *)
ParsersBound(c) ==
    \A id \in AgentId : (c.agents[id] # None /\ c.agents[id].tier = "full") => id \in Parsed

=============================================================================
