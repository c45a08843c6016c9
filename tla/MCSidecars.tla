----------------------------- MODULE MCSidecars -----------------------------
(* Two sidecars, both or one of them in the catalog; the other one can then only be
   edited in by hand. *)
EXTENDS Sidecars

MCNames == 1..2
MCCatalog == {1}

=============================================================================
