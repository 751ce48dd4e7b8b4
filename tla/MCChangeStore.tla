--------------------------- MODULE MCChangeStore ---------------------------
(* Instances of ChangeStore for TLC. *)
EXTENDS ChangeStore, TLC

Symmetry == Permutations(RunId) \cup Permutations(Handler)
                \cup Permutations(Await) \cup Permutations(Operator)

=============================================================================
