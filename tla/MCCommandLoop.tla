---------------------------- MODULE MCCommandLoop ----------------------------
(* Small instances of CommandLoop for TLC. *)
EXTENDS CommandLoop
=============================================================================
