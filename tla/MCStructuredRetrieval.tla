------------------------- MODULE MCStructuredRetrieval -------------------------
(***************************************************************************)
(* The readers of the structured index, and the windows of the embedding   *)
(* stage, which they never meet, in one run: the first state says which of *)
(* them works, and the other stays as it is.                               *)
(***************************************************************************)
EXTENDS StructuredRetrieval, EmbeddingWindow, TLC

CONSTANTS g1, g2, s1, s2, top, below, lib, ext, v1, v2, a, b, c

VARIABLE part  \* the part that works

partVars == <<part, retrievalVars, embeddingVars>>

Retrieval == part = "retrieval" /\ UNCHANGED <<part, embeddingVars>>
Embeds == part = "embedding" /\ UNCHANGED <<part, retrievalVars>>

PartsInit ==
  /\ part \in {"retrieval", "embedding"}
  /\ RetrievalInit
  /\ EmbeddingInit
  /\ part # "retrieval" => disk = [file \in Files |-> None]
  /\ part # "embedding" => provider = "ollama"

PartsNext ==
  \/ Retrieval /\ CallBegins
  \/ Retrieval /\ CallStep
  \/ Retrieval /\ CatalogChanges
  \/ Retrieval /\ Edits
  \/ Retrieval /\ SetsState
  \/ Retrieval /\ Reconcile
  \/ \E w \in Windows : \/ Embeds /\ ReadsMemoryCache(w)
                        \/ Embeds /\ ReadsStoredCache(w)
                        \/ Embeds /\ Locks(w)
                        \/ Embeds /\ GivesUpLock(w)
                        \/ Embeds /\ Settles(w)
                        \/ Embeds /\ Caches(w)
                        \/ Embeds /\ QueuesFile(w)
                        \/ Embeds /\ WritesFile(w)
                        \/ Embeds /\ Ends(w)
  \/ \E w \in Windows, n \in 1 .. 4 : \/ Embeds /\ Sends(w, n)
                                      \/ Embeds /\ Answers(w, n)
                                      \/ Embeds /\ FailsForNow(w, n)
                                      \/ Embeds /\ FailsForGood(w, n)
                                      \/ Embeds /\ Throws(w, n)
                                      \/ Embeds /\ Miscounts(w, n)
                                      \/ Embeds /\ Aborts(w, n)
  \/ Embeds /\ Stop
  \/ Embeds /\ OtherLocks
  \/ Embeds /\ OtherUnlocks

\* EmbeddingFairness; what the readers promise needs none.
PartsFairness ==
  \A w \in Windows : /\ WF_partVars(Embeds /\ WindowStep(w))
                     /\ WF_partVars(Embeds /\ RequestStep(w))

PartsSpec == PartsInit /\ [][PartsNext]_partVars /\ PartsFairness

\* One content declares both symbols, the other has only the first, with the
\* same text at the same place, and imports something else.
Declared == (g1 :> {s1, s2}) @@ (g2 :> {s1})
Bodies == (g1 :> (s1 :> top @@ s2 :> below)) @@ (g2 :> (s1 :> top))
Uses == (g1 :> {lib}) @@ (g2 :> {ext})
Texts == (g1 :> {top, below, lib}) @@ (g2 :> {top, ext})

\* Two windows; hashes occur twice in a window, and in both.
WindowFiles == [v \in {v1, v2} |-> IF v = v1 THEN <<a, b>> ELSE <<c>>]
FileChunks == [x \in {a, b, c} |-> CASE x = a -> <<1, 2>> [] x = b -> <<2>> [] OTHER -> <<3, 1>>]
=============================================================================
