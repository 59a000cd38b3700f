----------------------------- MODULE MCVectorStore -----------------------------
EXTENDS VectorStore, TLC
CONSTANTS c1, c2, f1, f2
StoreSymmetry == Permutations(Calls) \cup Permutations(Files)
=============================================================================
