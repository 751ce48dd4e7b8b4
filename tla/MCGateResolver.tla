--------------------------- MODULE MCGateResolver ---------------------------
(* Instances of GateResolver for TLC. *)
EXTENDS GateResolver, TLC

Symmetry == Permutations(Question) \cup Permutations(Operator) \cup Permutations(Await)

=============================================================================
