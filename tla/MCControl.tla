----------------------------- MODULE MCControl -----------------------------
(* Instances of Control for TLC. *)
EXTENDS Control, TLC

CONSTANTS b1

(* Both runs belong to one server: the other one is passed by. *)
OneOwner == [r \in RunId |-> b1]

Symmetry == Permutations(Client) \cup Permutations(RunId)

=============================================================================
