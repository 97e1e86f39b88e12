------------------------- MODULE MCCoordsPipeline -------------------------
(* Small instances of CoordsPipeline for TLC. *)
EXTENDS CoordsPipeline, TLC

\* Users and threads are interchangeable in the safety runs.
Symmetry == Permutations(Users) \cup Permutations(BThreads)
=============================================================================
