------------------------------- MODULE MCBuilds -------------------------------
(* Small instances of Builds for TLC. *)
EXTENDS Builds

=============================================================================
