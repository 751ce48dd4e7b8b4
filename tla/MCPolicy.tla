------------------------------ MODULE MCPolicy ------------------------------
(***************************************************************************)
(* One adapter beside the host's, in the shapes that the loader and the    *)
(* builder tell apart, and the files it comes in.                          *)
(***************************************************************************)
EXTENDS Policy, TLC

CONSTANTS host, coder, interactive

Lists2(ro, wr) == [read_only |-> ro, write |-> wr]
Nothing == Lists2(None, None)
Sandboxed == Lists2(<<Literal("--ro")>>, <<Literal("--rw")>>)

Reader ==
    [tier |-> "full", mode |-> "read_only", worktree |-> "required", enforced |-> TRUE,
     models |-> {}, command |-> "coder", stream |-> TRUE, resume |-> FALSE,
     steer |-> "no", interactive |-> FALSE, structured |-> FALSE,
     sandbox |-> Sandboxed, resumeSandbox |-> Nothing, gate |-> Nothing,
     invoke |-> [args |-> <<Whole("sandbox_flags"), Whole("gate_flags"), Whole("prompt")>>,
                 prompt |-> "argv", closes |-> None],
     resumeInvoke |-> None, steering |-> None]
Asker == [Reader EXCEPT !.interactive = TRUE,
                        !.gate = Lists2(<<Literal(QuestionTool), Whole("gate_config")>>, None)]
Writer == [Reader EXCEPT !.mode = "write"]

(* What may run. *)
Usable ==
    {Reader, Asker, Writer,
     [Writer EXCEPT !.worktree = "off"],
     [Writer EXCEPT !.sandbox = Lists2(None, <<Literal("--rw")>>)],
     [Writer EXCEPT !.enforced = FALSE, !.sandbox = Nothing]}

(* What loads and never runs, and what does not load. *)
Unusable ==
    {[Reader EXCEPT !.invoke.args = <<Mixed("prompt")>>],
     [Reader EXCEPT !.sandbox = Nothing],
     [Reader EXCEPT !.command = "script"],
     [Reader EXCEPT !.tier = "basic"],
     [Reader EXCEPT !.invoke.prompt = "stdin_stream_json"],
     [Reader EXCEPT !.invoke.args = <<Literal("--yolo")>>],
     [Reader EXCEPT !.steer = "queued"],
     [Reader EXCEPT !.resume = TRUE, !.resumeInvoke = Reader.invoke,
                    !.resumeInvoke.args = <<Whole("prompt")>>],
     [Asker EXCEPT !.stream = FALSE],
     [Asker EXCEPT !.gate = Lists2(<<Whole("gate_config")>>, None)],
     [Asker EXCEPT !.mode = "write",
                   !.gate = Lists2(None, <<Literal(QuestionTool), Whole("gate_config")>>)]}

FileOf(a) ==
    [exhausted |-> FALSE, perMin |-> 1, queue |-> FALSE, queueDepth |-> 0,
     allowWrite |-> TRUE, allowUnconfined |-> TRUE, credentials |-> FALSE,
     ceiling |-> {interactive}, agents |-> [id \in AgentId |-> IF id = host THEN None ELSE a]]

MCFile ==
    {[FileOf(a) EXCEPT !.perMin = n, !.ceiling = f] :
        a \in Usable, n \in 0..2, f \in SUBSET Feature}
    \cup {FileOf(a) : a \in Unusable}
    \cup {[FileOf(a) EXCEPT !.allowUnconfined = FALSE] : a \in Usable}
    \cup {[FileOf(a) EXCEPT !.allowWrite = FALSE] : a \in Usable}
    \cup {[FileOf(Reader) EXCEPT !.exhausted = TRUE],
          [FileOf(Reader) EXCEPT !.agents[host] = Reader],
          [FileOf(Reader) EXCEPT !.credentials = TRUE],
          [FileOf(Reader) EXCEPT !.queue = TRUE]}

Symmetry == Permutations(Call)

=============================================================================
