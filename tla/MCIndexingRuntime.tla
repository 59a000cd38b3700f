--------------------------- MODULE MCIndexingRuntime ---------------------------
(* Instances of IndexingRuntime for TLC. *)
EXTENDS IndexingRuntime, TLC

FileSymmetry == Permutations(Files)
=============================================================================
