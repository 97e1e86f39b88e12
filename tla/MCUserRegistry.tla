--------------------------- MODULE MCUserRegistry ---------------------------
(* Small instances of UserRegistry for TLC. *)
EXTENDS UserRegistry
=============================================================================
