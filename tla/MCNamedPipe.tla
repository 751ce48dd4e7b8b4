----------------------------- MODULE MCNamedPipe -----------------------------
(***************************************************************************)
(* Both directions of one connection, and a read deadline that is moved.    *)
(***************************************************************************)
EXTENDS NamedPipe

=============================================================================
