---------------------------- MODULE MCLifecycle -----------------------------
(* Lifecycle with interchangeable processes, for TLC. *)
EXTENDS Lifecycle, TLC

Symmetry == Permutations(Procs)

=============================================================================
