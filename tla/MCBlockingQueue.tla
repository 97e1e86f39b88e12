-------------------------- MODULE MCBlockingQueue --------------------------
(***************************************************************************)
(* TLC instance of BlockingQueue: the GPS thread and the stop handler put, *)
(* three broadcast threads pull.                                           *)
(***************************************************************************)
EXTENDS BlockingQueue
=============================================================================
