----------------------------- MODULE MCHybridSearch -----------------------------
EXTENDS HybridSearch

CONSTANTS q1, q2, ca, cb, la, lb, lc

\* Two lines of one chunk and one of another, in two files.
LineChunk == (la :> ca) @@ (lb :> ca) @@ (lc :> cb)
Ranks == (ca :> 1) @@ (la :> 1) @@ (lb :> 1) @@ (cb :> 2) @@ (lc :> 2)

\* One search finds something.
Hits == (q1 :> 2) @@ (q2 :> 0)
=============================================================================
