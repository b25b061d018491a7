-------------------------- MODULE MCServiceLifecycle --------------------------
(* Small instances of ServiceLifecycle for TLC. *)
EXTENDS ServiceLifecycle, TLC

\* The workers differ only in name.
Symmetry == Permutations(Workers)

=============================================================================
