--------------------------- MODULE MCLocalRuntime ---------------------------
(* The local runtimes for TLC; the configurations give every constant its value. *)
EXTENDS LocalRuntime

=============================================================================
