------------------------------ MODULE MCBridge ------------------------------
(* Instances of Bridge for TLC. *)
EXTENDS Bridge, TLC

(* Processes and runs are only compared. *)
Symmetry == Permutations(Process) \cup Permutations(Run)

=============================================================================
