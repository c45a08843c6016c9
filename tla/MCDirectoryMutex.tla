-------------------------- MODULE MCDirectoryMutex --------------------------
(* DirectoryMutex with interchangeable processes, for TLC. *)
EXTENDS DirectoryMutex, TLC

Symmetry == Permutations(Procs)

=============================================================================
