----------------------------- MODULE MCSteering -----------------------------
(* Instances of Steering for TLC. *)
EXTENDS Steering

=============================================================================
