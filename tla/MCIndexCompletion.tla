--------------------------- MODULE MCIndexCompletion ---------------------------
(* Instances of IndexCompletion for TLC. *)
EXTENDS IndexCompletion, TLC

FileSymmetry == Permutations(Files)
=============================================================================
