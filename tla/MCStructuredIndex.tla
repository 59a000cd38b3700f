--------------------------- MODULE MCStructuredIndex ---------------------------
(* Instances of StructuredIndex for TLC. *)
EXTENDS StructuredIndex, TLC

CONSTANTS g1, g2, s1

OneName == (g1 :> {s1}) @@ (g2 :> {s1})

IndexSymmetry == Permutations(Files) \cup Permutations(Handlers)
=============================================================================
