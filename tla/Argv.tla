-------------------------------- MODULE Argv --------------------------------
(***************************************************************************)
(* The command line an agent is started with, and what the audit log       *)
(* records of it.  An element of a template is a literal, a placeholder by *)
(* itself, a placeholder bound to a flag, or a placeholder inside a larger *)
(* string, which loads and is refused when it is built.                    *)
(***************************************************************************)
EXTENDS Integers, Sequences, SequencesExt

Single == {"prompt", "cwd", "gate_config", "vendor_session_id", "message", "model",
           "max_turns"}
Lists == {"sandbox_flags", "resume_sandbox_flags", "gate_flags"}
OmittedWhenEmpty == {"model", "max_turns", "vendor_session_id", "message"}

Element == [kind : {"literal", "whole", "binding", "mixed"}, flag : STRING, of : STRING]

Literal(s) == [kind |-> "literal", flag |-> s, of |-> ""]
Whole(ph) == [kind |-> "whole", flag |-> "", of |-> ph]
Binding(flag, ph) == [kind |-> "binding", flag |-> flag, of |-> ph]
Mixed(ph) == [kind |-> "mixed", flag |-> "", of |-> ph]

(* What a bypass flag begins with. *)
Bypass == {"--dangerously", "--allow-dangerously", "--yolo", "--allow-all"}

(* validateArgs: a bypass flag does not load, nor an unknown placeholder;  *)
(* the form is not looked at.                                              *)
Loads(template) ==
    \A i \in DOMAIN template :
        /\ template[i].flag \notin Bypass
        /\ template[i].kind # "literal" => template[i].of \in Single \cup Lists

(* usesPlaceholder, in whatever form. *)
Uses(template, ph) == \E i \in DOMAIN template : template[i].of = ph

(* BuildArgs refuses the larger string, and a list bound to a flag.        *)
Builds(template) ==
    \A i \in DOMAIN template :
        /\ template[i].kind # "mixed"
        /\ template[i].kind = "binding" => template[i].of \in Single

(* An argument: the flag it is bound to, if any, and a value.              *)
Arg(flag, value) == [flag |-> flag, value |-> value]

Expand(element, values) ==
    CASE element.kind = "literal" -> <<Arg(element.flag, "")>>
      [] element.kind = "binding" -> <<Arg(element.flag, values[element.of])>>
      [] element.kind = "whole" /\ element.of \in Lists ->
             [i \in DOMAIN values[element.of] |-> Arg(values[element.of][i], "")]
      [] OTHER -> IF element.of \in OmittedWhenEmpty /\ values[element.of] = ""
                  THEN <<>> ELSE <<Arg("", values[element.of])>>

BuildArgs(template, values) ==
    FlattenSeq([i \in DOMAIN template |-> Expand(template[i], values)])

(* What takes the place of an argument that equals a sensitive value.      *)
Digest == "hmac-sha256"

Bug_RedactFirst(argv, sensitive) ==
    LET hits == {i \in DOMAIN argv : argv[i] = Arg("", sensitive)}
    IN  [i \in DOMAIN argv |->
            IF i \in hits /\ \A j \in hits : i <= j THEN Arg("", Digest) ELSE argv[i]]

(* Only an argument that is the value by itself equals it.                 *)
RedactArgv(argv, sensitive) ==
    [i \in DOMAIN argv |->
        IF sensitive # "" /\ argv[i] = Arg("", sensitive) THEN Arg("", Digest) ELSE argv[i]]

=============================================================================
