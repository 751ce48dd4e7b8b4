----------------------------- MODULE MCAuditLog -----------------------------
(***************************************************************************)
(* Two servers and one log of a line per file.                             *)
(***************************************************************************)
EXTENDS AuditLog, TLC

(* The prompt on its own, twice, and bound to a flag; a prompt within a    *)
(* larger string, which loads and never runs; and what does not load.      *)
MCTemplate ==
    {<<Literal("exec"), Whole("sandbox_flags"), Whole("prompt"), Whole("model"),
       Binding("-p", "prompt"), Whole("prompt")>>,
     <<Mixed("prompt")>>,
     <<Whole("nonsense")>>}

Symmetry == Permutations(Process)

=============================================================================
