--------------------------- MODULE MCRunRegistry ---------------------------
(* Instances of RunRegistry for TLC. *)
EXTENDS RunRegistry, TLC

(* Ids are only compared, so permuting them changes nothing.  Used where   *)
(* no liveness property is checked.                                        *)
Symmetry == Permutations(RunId) \cup Permutations(Question)
                \cup Permutations(Handler)

=============================================================================
