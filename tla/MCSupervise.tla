---------------------------- MODULE MCSupervise ----------------------------
(* Instances of Supervise for TLC. *)
EXTENDS Supervise

=============================================================================
