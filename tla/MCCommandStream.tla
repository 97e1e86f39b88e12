-------------------------- MODULE MCCommandStream --------------------------
(* Small instances of CommandStream for TLC. *)
EXTENDS CommandStream
=============================================================================
