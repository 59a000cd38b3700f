--------------------------- MODULE ServerParts_proofs ---------------------------
(***************************************************************************)
(* Theorems about six parts of a server that never meet in a step: the     *)
(* Merkle tree, the windows of the embedding stage, the searches, the life *)
(* of a runtime, the sessions of the HTTP transport and the discovery of   *)
(* metrics.  Each part has its invariant.                                  *)
(*                                                                         *)
(* Embedding: a window that embeds with Ollama holds the global lock, and  *)
(* one that does not has no request left; the offset of a window is where  *)
(* the chunks of its next file begin, with or without their vectors; and a *)
(* request has its turn from the limiter to its end, so that the turns are *)
(* bounded and one that waits for a turn waits for a request in progress.  *)
(* Searches: the score map has each id once, with what it scores in the    *)
(* two lists, and the order of its entries is total, so that an answer has *)
(* the best of them.                                                       *)
(* Runtime: the project lock is given up only when nothing can write the   *)
(* index any more, and what close() or a rollback has stopped stays        *)
(* stopped.  Each part of the invariants says what one awaited statement   *)
(* of close() has achieved and why no concurrent step undoes it.  The      *)
(* vector store takes part with what it promises; theorems about that come *)
(* first: of two pending writes one waits for the other, a call that has   *)
(* started waits for nobody, and writers never wait for one another all at *)
(* once.  The runtime uses the store as that says, so that an awaited      *)
(* statement of close() has something that goes on.                        *)
(* Sessions: the count of open sessions changes at four places in the      *)
(* code; each meets one entry that enters or leaves the entries that are   *)
(* open or being closed.                                                   *)
(* Metrics: a port is taken by who finds it free, and is given up last.    *)
(***************************************************************************)
EXTENDS RuntimeLifecycle, HttpSessions, MerkleTree, EmbeddingWindow, HybridSearch,
        MetricsDiscovery, FiniteSetTheorems, WellFoundedInduction, TLAPS

-----------------------------------------------------------------------------
WorkerOK(k) ==
  /\ k = [step |-> k.step, path |-> k.path, at |-> k.at, found |-> k.found]
  /\ k.step # "none" => k.path \in FilePaths

TreeShape ==
  /\ TreeTypeOK
  /\ nodes = [p \in Paths |-> nodes[p]]
  /\ work = [w \in Workers |-> work[w]]
  /\ \A w \in Workers : WorkerOK(work[w])

LEMMA TreeInitially == TreeInit => TreeShape
<1> SUFFICES ASSUME TreeInit PROVE TreeShape
  OBVIOUS
<1>1. TreeTypeOK
  BY DEF TreeInit, TreeTypeOK, NoNode
<1>2. \A w \in Workers : WorkerOK(work[w])
  BY DEF TreeInit, Resting, WorkerOK
<1> QED BY <1>1, <1>2 DEF TreeInit, TreeShape

LEMMA ConcernedArePaths ==
  \A p \in Paths : Ancestors[p] \subseteq Paths /\ Below[p] \subseteq Paths
                   /\ Concerned[p] \subseteq Paths
  BY DEF Ancestors, Below, Concerned

\* The record of a worker, part by part.
LEMMA OneFieldMoves ==
  ASSUME NEW k, WorkerOK(k), NEW x
  PROVE  /\ [k EXCEPT !.step = x] = [step |-> x, path |-> k.path, at |-> k.at, found |-> k.found]
         /\ [k EXCEPT !.found = x] = [step |-> k.step, path |-> k.path, at |-> k.at, found |-> x]
<1>1. [k EXCEPT !.step = x] = [step |-> x, path |-> k.path, at |-> k.at, found |-> k.found]
  BY DEF WorkerOK
<1>2. [k EXCEPT !.found = x] = [step |-> k.step, path |-> k.path, at |-> k.at, found |-> x]
  BY DEF WorkerOK
<1> QED BY <1>1, <1>2

LEMMA StepMoves ==
  ASSUME TreeShape, NEW w \in Workers, NEW s, work' = [work EXCEPT ![w].step = s]
  PROVE  work' = [work EXCEPT ![w] = [step |-> s, path |-> work[w].path, at |-> work[w].at,
                                      found |-> work[w].found]]
<1>1. PICK k : k = work[w]
  OBVIOUS
<1>2. WorkerOK(k)
  BY <1>1 DEF TreeShape
<1>3. [k EXCEPT !.step = s] = [step |-> s, path |-> k.path, at |-> k.at, found |-> k.found]
  BY <1>2, OneFieldMoves
<1>4. work' = [work EXCEPT ![w] = [k EXCEPT !.step = s]]
  BY <1>1
<1> QED BY <1>1, <1>3, <1>4

LEMMA StepAndPlaceMove ==
  ASSUME TreeShape, NEW w \in Workers, NEW s, NEW a,
         work' = [work EXCEPT ![w].step = s, ![w].at = a]
  PROVE  work' = [work EXCEPT ![w] = [step |-> s, path |-> work[w].path, at |-> a,
                                      found |-> work[w].found]]
<1>1. PICK k : k = work[w]
  OBVIOUS
<1>2. WorkerOK(k)
  BY <1>1 DEF TreeShape
<1>3. PICK j : j = [step |-> s, path |-> k.path, at |-> k.at, found |-> k.found]
  OBVIOUS
<1>4. j = [k EXCEPT !.step = s]
  BY <1>2, <1>3, OneFieldMoves
<1>5. [j EXCEPT !.at = a] = [step |-> s, path |-> k.path, at |-> a, found |-> k.found]
  BY <1>3
<1>6. work' = [work EXCEPT ![w] = [[k EXCEPT !.step = s] EXCEPT !.at = a]]
  <2>1. work' = [work EXCEPT ![w] = [k EXCEPT !.step = s, !.at = a]]
    BY <1>1
  <2>2. [k EXCEPT !.step = s, !.at = a] = [[k EXCEPT !.step = s] EXCEPT !.at = a]
    OBVIOUS
  <2> QED BY <2>1, <2>2
<1>7. work' = [work EXCEPT ![w] = [j EXCEPT !.at = a]]
  BY <1>4, <1>6
<1> QED BY <1>1, <1>5, <1>7

LEMMA FoundAndPlaceMove ==
  ASSUME TreeShape, NEW w \in Workers, NEW n, NEW a,
         work' = [work EXCEPT ![w].found = @ \cup n, ![w].at = a]
  PROVE  work' = [work EXCEPT ![w] = [step |-> work[w].step, path |-> work[w].path, at |-> a,
                                      found |-> work[w].found \cup n]]
<1>1. PICK k : k = work[w]
  OBVIOUS
<1>2. WorkerOK(k)
  BY <1>1 DEF TreeShape
<1>3. PICK d : d = k.found \cup n
  OBVIOUS
<1>4. PICK j : j = [step |-> k.step, path |-> k.path, at |-> k.at, found |-> d]
  OBVIOUS
<1>5. j = [k EXCEPT !.found = d]
  BY <1>2, <1>4, OneFieldMoves
<1>6. [j EXCEPT !.at = a] = [step |-> k.step, path |-> k.path, at |-> a, found |-> d]
  BY <1>4
<1>7. work' = [work EXCEPT ![w] = [[k EXCEPT !.found = d] EXCEPT !.at = a]]
  <2>1. work' = [work EXCEPT ![w] = [k EXCEPT !.found = d, !.at = a]]
    BY <1>1, <1>3
  <2>2. [k EXCEPT !.found = d, !.at = a] = [[k EXCEPT !.found = d] EXCEPT !.at = a]
    OBVIOUS
  <2> QED BY <2>1, <2>2
<1>8. work' = [work EXCEPT ![w] = [j EXCEPT !.at = a]]
  BY <1>5, <1>7
<1> QED BY <1>1, <1>3, <1>6, <1>8

LEMMA TreeShapeKept ==
  ASSUME TreeShape, TreeNext
  PROVE  TreeShape'
<1>1. ASSUME NEW w \in Workers, NEW k, WorkerOK(k), work' = [work EXCEPT ![w] = k]
      PROVE  /\ work' = [v \in Workers |-> work'[v]]
             /\ \A v \in Workers : WorkerOK(work'[v])
  <2>1. work'[w] = k /\ \A v \in Workers \ {w} : work'[v] = work[v]
    BY <1>1 DEF TreeShape
  <2>2. work' = [v \in Workers |-> work'[v]]
    BY <1>1 DEF TreeShape
  <2>3. \A v \in Workers \ {w} : WorkerOK(work[v])
    BY DEF TreeShape
  <2> QED BY <1>1, <2>1, <2>2, <2>3
<1>2. FilePaths \subseteq Paths /\ nodes = [p \in Paths |-> nodes[p]]
  BY PathsAssumption DEF TreeShape
<1>3. ASSUME nodes' = [p \in Paths |-> nodes'[p]],
             \A p \in Paths : nodes'[p].kind \in {"none", "file", "directory"},
             cachedAs' \in [Paths -> {"none", "file", "directory"}],
             vectors' \subseteq FilePaths,
             latest' \in [FilePaths -> Contents \cup {Gone}], unordered' \subseteq Paths,
             work' = [v \in Workers |-> work'[v]], \A v \in Workers : WorkerOK(work'[v])
      PROVE  TreeShape'
  BY <1>3 DEF TreeShape, TreeTypeOK
<1>4. /\ cachedAs \in [Paths -> {"none", "file", "directory"}] /\ vectors \subseteq FilePaths
      /\ latest \in [FilePaths -> Contents \cup {Gone}] /\ unordered \subseteq Paths
  BY DEF TreeShape, TreeTypeOK
<1>5. \A p \in Paths : nodes[p].kind \in {"none", "file", "directory"}
  BY DEF TreeShape, TreeTypeOK
<1>6. \A w \in Workers : WorkerOK(work[w])
  BY DEF TreeShape
<1>7. ASSUME NEW S, nodes' = Without(S)
      PROVE  /\ nodes' = [p \in Paths |-> nodes'[p]]
             /\ \A p \in Paths : nodes'[p].kind \in {"none", "file", "directory"}
  BY <1>5, <1>7 DEF Without, NoNode
<1>8. ASSUME nodes' = nodes
      PROVE  /\ nodes' = [p \in Paths |-> nodes'[p]]
             /\ \A p \in Paths : nodes'[p].kind \in {"none", "file", "directory"}
  BY <1>2, <1>5, <1>8
<1>9. ASSUME NEW w \in Workers, work[w].step # "none", NEW s, work' = [work EXCEPT ![w].step = s]
      PROVE  /\ work' = [v \in Workers |-> work'[v]]
             /\ \A v \in Workers : WorkerOK(work'[v])
  <2>1. PICK k : k = [step |-> s, path |-> work[w].path, at |-> work[w].at, found |-> work[w].found]
    OBVIOUS
  <2>2. WorkerOK(k)
    BY <1>6, <1>9, <2>1 DEF WorkerOK
  <2>3. work' = [work EXCEPT ![w] = k]
    BY <1>9, <2>1, StepMoves
  <2> QED BY <1>1, <2>2, <2>3
<1>10. ASSUME NEW w \in Workers, work[w].step # "none", NEW s, NEW a,
              work' = [work EXCEPT ![w].step = s, ![w].at = a]
       PROVE  /\ work' = [v \in Workers |-> work'[v]]
              /\ \A v \in Workers : WorkerOK(work'[v])
  <2>1. PICK k : k = [step |-> s, path |-> work[w].path, at |-> a, found |-> work[w].found]
    OBVIOUS
  <2>2. WorkerOK(k)
    BY <1>6, <1>10, <2>1 DEF WorkerOK
  <2>3. work' = [work EXCEPT ![w] = k]
    BY <1>10, <2>1, StepAndPlaceMove
  <2> QED BY <1>1, <2>2, <2>3
<1>11. CASE Reload
  <2>1. work' = [w \in Workers |-> Resting] /\ nodes' = nodes /\ vectors' = vectors
        /\ latest' = latest /\ cachedAs' = [p \in Paths |-> "none"]
    BY <1>11 DEF Reload
  <2>2. cachedAs' \in [Paths -> {"none", "file", "directory"}]
    BY <2>1
  <2>3. work' = [v \in Workers |-> work'[v]] /\ \A v \in Workers : WorkerOK(work'[v])
    BY <2>1 DEF Resting, WorkerOK
  <2>4. unordered' \subseteq Paths
    <3>1. \A w \in Busy : work[w].path \in Paths
      BY <1>2, <1>6 DEF Busy, WorkerOK
    <3>2. unordered' = unordered \cup UNION {Concerned[work[w].path] : w \in Busy}
      BY <1>11 DEF Reload
    <3> QED BY <1>4, <3>1, <3>2, ConcernedArePaths
  <2> QED BY <1>3, <1>4, <1>8, <2>1, <2>2, <2>3, <2>4
<1>12. ASSUME NEW f \in FilePaths, NEW late, Begins(f, late)
       PROVE  unordered' \subseteq Paths
  <2>1. Meeting(f) \subseteq Concerned[f]
    BY DEF Meeting
  <2>2. Concerned[f] \subseteq Paths
    BY <1>2, ConcernedArePaths
  <2>3. unordered' \subseteq unordered \cup Meeting(f) \cup Concerned[f]
    BY <1>12 DEF Begins
  <2> QED BY <1>4, <2>1, <2>2, <2>3
<1>13. ASSUME NEW w \in Workers, NEW f \in FilePaths, NEW c \in Contents, Update(w, f, c)
       PROVE  TreeShape'
  <2>1. nodes' = [nodes EXCEPT ![f] = FileNode(f, c)] /\ cachedAs' = [cachedAs EXCEPT ![f] = "file"]
        /\ latest' = [latest EXCEPT ![f] = c] /\ vectors' \subseteq vectors \cup {f}
        /\ work' = [work EXCEPT ![w] = [step |-> "bubble", path |-> f, at |-> ParentOf[f],
                                        found |-> {}]]
    BY <1>13 DEF Update
  <2>2. nodes' = [p \in Paths |-> nodes'[p]]
        /\ \A p \in Paths : nodes'[p].kind \in {"none", "file", "directory"}
    BY <1>2, <1>5, <2>1 DEF FileNode
  <2>3. cachedAs' \in [Paths -> {"none", "file", "directory"}]
        /\ latest' \in [FilePaths -> Contents \cup {Gone}]
    BY <1>4, <2>1
  <2>4. work' = [v \in Workers |-> work'[v]] /\ \A v \in Workers : WorkerOK(work'[v])
    <3>1. WorkerOK([step |-> "bubble", path |-> f, at |-> ParentOf[f], found |-> {}])
      BY DEF WorkerOK
    <3> QED BY <1>1, <2>1, <3>1
  <2>5. unordered' \subseteq Paths
    BY <1>12, <1>13 DEF Update
  <2> QED BY <1>3, <1>4, <2>1, <2>2, <2>3, <2>4, <2>5
<1>14. ASSUME NEW w \in Workers, NEW f \in FilePaths, HandleDelete(w, f)
       PROVE  TreeShape'
  <2>1. nodes' = nodes /\ cachedAs' = cachedAs /\ vectors' \subseteq vectors
    BY <1>14 DEF HandleDelete
  <2>2. PICK s : work' = [work EXCEPT ![w] = [step |-> s, path |-> f, at |-> Top, found |-> {}]]
    BY <1>14 DEF HandleDelete
  <2>3. WorkerOK([step |-> s, path |-> f, at |-> Top, found |-> {}])
    BY DEF WorkerOK
  <2>4. work' = [v \in Workers |-> work'[v]] /\ \A v \in Workers : WorkerOK(work'[v])
    BY <1>1, <2>2, <2>3
  <2>5. latest' \in [FilePaths -> Contents \cup {Gone}]
    <3>1. PICK D : latest' = [q \in FilePaths |-> IF q \in D THEN Gone ELSE latest[q]]
      <4> DEFINE G == {q \in FilePaths : q = f \/ (nodes[f].kind = "directory" /\ q \in Below[f])}
      <4>1. latest' = [q \in FilePaths |-> IF q \in G THEN Gone ELSE latest[q]]
        BY <1>14 DEF HandleDelete
      <4> QED BY <4>1
    <3> QED BY <1>4, <3>1
  <2>6. unordered' \subseteq Paths
    BY <1>12, <1>14 DEF HandleDelete
  <2> QED BY <1>3, <1>4, <1>8, <2>1, <2>4, <2>5, <2>6
<1>15. ASSUME NEW w \in Workers, BubbleReads(w)
       PROVE  TreeShape'
  <2>1. nodes' = nodes /\ vectors' = vectors /\ latest' = latest /\ unordered' = unordered
        /\ cachedAs' = [cachedAs EXCEPT ![work[w].at] = "directory"]
    BY <1>15 DEF BubbleReads, Frame
  <2>2. PICK n : n = {<<work[w].at, Vouched(work[w].at)>>}
    OBVIOUS
  <2>3. PICK k : k = [step |-> work[w].step, path |-> work[w].path, at |-> ParentOf[work[w].at],
                      found |-> work[w].found \cup n]
    OBVIOUS
  <2>4. WorkerOK(k) /\ work' = [work EXCEPT ![w] = k]
    <3>1. work' = [work EXCEPT ![w].found = @ \cup n, ![w].at = ParentOf[work[w].at]]
      BY <1>15, <2>2 DEF BubbleReads
    <3>2. WorkerOK(k)
      BY <1>6, <2>3 DEF WorkerOK
    <3> QED BY <2>3, <3>1, <3>2, FoundAndPlaceMove
  <2>5. work' = [v \in Workers |-> work'[v]] /\ \A v \in Workers : WorkerOK(work'[v])
    BY <1>1, <2>4
  <2>6. cachedAs' \in [Paths -> {"none", "file", "directory"}]
    BY <1>4, <2>1
  <2> QED BY <1>3, <1>4, <1>8, <2>1, <2>5, <2>6
<1>16. ASSUME NEW w \in Workers, BubbleWrites(w)
       PROVE  TreeShape'
  <2>1. cachedAs' = cachedAs /\ vectors' = vectors /\ latest' = latest /\ unordered' = unordered
        /\ work' = [work EXCEPT ![w].step = "root"] /\ work[w].step # "none"
    BY <1>16 DEF BubbleWrites, Frame
  <2>2. nodes' = [p \in Paths |-> nodes'[p]]
        /\ \A p \in Paths : nodes'[p].kind \in {"none", "file", "directory"}
    BY <1>5, <1>16 DEF BubbleWrites, DirectoryNode
  <2> QED BY <1>3, <1>4, <1>9, <2>1, <2>2
<1>17. ASSUME NEW w \in Workers, RefreshesRoot(w)
       PROVE  TreeShape'
  <2>1. nodes' = nodes /\ cachedAs' = cachedAs /\ vectors' = vectors /\ latest' = latest
        /\ unordered' = unordered /\ work' = [work EXCEPT ![w] = Resting]
    BY <1>17 DEF RefreshesRoot, Frame
  <2>2. WorkerOK(Resting)
    BY DEF WorkerOK, Resting
  <2>3. work' = [v \in Workers |-> work'[v]] /\ \A v \in Workers : WorkerOK(work'[v])
    BY <1>1, <2>1, <2>2
  <2> QED BY <1>3, <1>4, <1>8, <2>1, <2>3
<1>18. ASSUME NEW w \in Workers, DeletesSubtree(w)
       PROVE  TreeShape'
  <2>1. nodes' = Without(Below[work[w].path]) /\ cachedAs' = cachedAs /\ vectors' = vectors
        /\ latest' = latest /\ unordered' = unordered
        /\ work' = [work EXCEPT ![w].step = "node"] /\ work[w].step # "none"
    BY <1>18 DEF DeletesSubtree, Frame
  <2> QED BY <1>3, <1>4, <1>7, <1>9, <2>1
<1>19. ASSUME NEW w \in Workers, RemovesNode(w)
       PROVE  TreeShape'
  <2>1. vectors' = vectors /\ latest' = latest /\ unordered' = unordered /\ work[w].step # "none"
        /\ work' = [work EXCEPT ![w].step = "prune", ![w].at = ParentOf[work[w].path]]
        /\ (nodes' = Without(Below[work[w].path]) \/ nodes' = Without({work[w].path}))
    BY <1>19 DEF RemovesNode, Frame
  <2>2. cachedAs' \in [Paths -> {"none", "file", "directory"}]
    BY <1>4, <1>19 DEF RemovesNode
  <2> QED BY <1>3, <1>4, <1>7, <1>10, <2>1, <2>2
<1>20. ASSUME NEW w \in Workers, Prunes(w)
       PROVE  TreeShape'
  <2>1. nodes' = nodes /\ cachedAs' = cachedAs /\ vectors' = vectors /\ latest' = latest
        /\ unordered' = unordered /\ work[w].step # "none"
    BY <1>20 DEF Prunes, Frame
  <2>2. \E s : work' = [work EXCEPT ![w].step = s]
    BY <1>20 DEF Prunes
  <2> QED BY <1>3, <1>4, <1>8, <1>9, <2>1, <2>2
<1>21. ASSUME NEW w \in Workers, DeletesEmpty(w)
       PROVE  TreeShape'
  <2>1. nodes' = Without({work[w].at}) /\ vectors' = vectors /\ latest' = latest
        /\ unordered' = unordered /\ work[w].step # "none"
        /\ cachedAs' = [cachedAs EXCEPT ![work[w].at] = "none"]
        /\ work' = [work EXCEPT ![w].step = "prune", ![w].at = ParentOf[work[w].at]]
    BY <1>21 DEF DeletesEmpty, Frame
  <2>2. cachedAs' \in [Paths -> {"none", "file", "directory"}]
    BY <1>4, <2>1
  <2> QED BY <1>3, <1>4, <1>7, <1>10, <2>1, <2>2
<1> QED BY <1>11, <1>13, <1>14, <1>15, <1>16, <1>17, <1>18, <1>19, <1>20, <1>21
        DEF TreeNext, TreeStep

LEMMA TreeStays == TreeShape /\ UNCHANGED treeVars => TreeShape'
  BY DEF treeVars, TreeShape, TreeTypeOK

\* The stored tree and the operations on it keep their types.
THEOREM TreeTyped == TreeSpec => []TreeTypeOK
<1>1. TreeShape => TreeTypeOK
  BY DEF TreeShape
<1> QED BY <1>1, TreeInitially, TreeShapeKept, TreeStays, PTL DEF TreeSpec

-----------------------------------------------------------------------------
\* Windows and requests, as far as their steps are built from them.
WindowOK(v) ==
  v = [step |-> v.step, vectors |-> v.vectors, error |-> v.error, next |-> v.next,
       offset |-> v.offset]
RequestOK(r) == r = [size |-> r.size, state |-> r.state, attempt |-> r.attempt]

WindowsOK ==
  /\ window = [w \in Windows |-> window[w]]
  /\ \A w \in Windows : WindowOK(window[w])
  /\ requests = [w \in Windows |-> requests[w]]
  /\ \A w \in Windows : /\ requests[w] = [b \in DOMAIN requests[w] |-> requests[w][b]]
                        /\ \A b \in DOMAIN requests[w] : RequestOK(requests[w][b])

\* With Ollama a window that embeds holds the lock, and one that does not has no
\* request left unless an error ended it.
OllamaInv ==
  /\ WindowsOK
  /\ provider = "ollama" => \A w \in Windows :
       /\ window[w].step = "embedding" => ollamaLock = w
       /\ window[w].step # "embedding" /\ window[w].error = "none" =>
            \A b \in DOMAIN requests[w] : requests[w][b].state \in {"ok", "split"}

\* One window moves, the others and all requests stay.
WindowMoves(w, step) ==
  /\ window'[w].step = step /\ window'[w].error = window[w].error
  /\ \A v \in Windows \ {w} : window'[v] = window[v]

\* One request moves; the window may get its error, and keeps it.
RequestMoves(w, b, state) ==
  /\ requests'[w][b].state = state
  /\ DOMAIN requests'[w] = DOMAIN requests[w]
  /\ \A c \in DOMAIN requests[w] \ {b} : requests'[w][c] = requests[w][c]
  /\ \A v \in Windows \ {w} : requests'[v] = requests[v]
  /\ \A v \in Windows : window'[v].step = window[v].step
  /\ \A v \in Windows \ {w} : window'[v] = window[v]
  /\ window[w].error # "none" => window'[w].error # "none"

-----------------------------------------------------------------------------
LEMMA OllamaInitially == EmbeddingInit => OllamaInv
<1> SUFFICES ASSUME EmbeddingInit PROVE OllamaInv
  OBVIOUS
<1>1. WindowsOK
  BY DEF EmbeddingInit, WindowsOK, WindowOK, RequestOK
<1>2. \A w \in Windows : window[w].step = "new" /\ DOMAIN requests[w] = {}
  BY DEF EmbeddingInit
<1> QED BY <1>1, <1>2 DEF OllamaInv

\* The requests of a window before its first batch goes out.
LEMMA BatchesOK ==
  ASSUME NEW n
  PROVE  /\ Batches(n) = [b \in DOMAIN Batches(n) |-> Batches(n)[b]]
         /\ \A b \in DOMAIN Batches(n) : RequestOK(Batches(n)[b])
  BY DEF Batches, RequestOK

\* Steps of a window that leave requests and lock alone.
LEMMA MovesFit ==
  ASSUME OllamaInv, WindowsOK', NEW w \in Windows, NEW step, WindowMoves(w, step),
         step # "embedding", window[w].step # "embedding",
         UNCHANGED <<provider, requests, ollamaLock>>
  PROVE  OllamaInv'
  BY DEF OllamaInv, WindowMoves

LEMMA MovesOK ==
  ASSUME WindowsOK, NEW w \in Windows, NEW v, window' = [window EXCEPT ![w] = v],
         WindowOK(v), requests' = requests
  PROVE  WindowsOK' /\ window'[w] = v /\ \A u \in Windows \ {w} : window'[u] = window[u]
<1>1. window'[w] = v /\ \A u \in Windows \ {w} : window'[u] = window[u]
  BY DEF WindowsOK
<1>2. window' = [u \in Windows |-> window'[u]]
  BY DEF WindowsOK
<1>3. \A u \in Windows : WindowOK(window'[u])
  BY <1>1 DEF WindowsOK
<1> QED BY <1>1, <1>2, <1>3 DEF WindowsOK

\* A request changes its state and nothing else of the requests.
LEMMA RequestsOK ==
  ASSUME WindowsOK, NEW w \in Windows, NEW b \in DOMAIN requests[w], NEW r, RequestOK(r),
         requests' = [requests EXCEPT ![w] = [requests[w] EXCEPT ![b] = r]]
  PROVE  /\ requests' = [v \in Windows |-> requests'[v]]
         /\ \A v \in Windows : /\ requests'[v] = [c \in DOMAIN requests'[v] |-> requests'[v][c]]
                               /\ \A c \in DOMAIN requests'[v] : RequestOK(requests'[v][c])
         /\ requests'[w][b] = r /\ DOMAIN requests'[w] = DOMAIN requests[w]
         /\ \A c \in DOMAIN requests[w] \ {b} : requests'[w][c] = requests[w][c]
         /\ \A v \in Windows \ {w} : requests'[v] = requests[v]
<1>1. requests'[w] = [requests[w] EXCEPT ![b] = r]
  BY DEF WindowsOK
<1>2. \A v \in Windows \ {w} : requests'[v] = requests[v]
  BY DEF WindowsOK
<1>3. requests' = [v \in Windows |-> requests'[v]]
  BY DEF WindowsOK
<1>4. /\ requests'[w][b] = r /\ DOMAIN requests'[w] = DOMAIN requests[w]
      /\ \A c \in DOMAIN requests[w] \ {b} : requests'[w][c] = requests[w][c]
  BY <1>1
<1>5. requests'[w] = [c \in DOMAIN requests'[w] |-> requests'[w][c]]
  BY <1>1
<1>6. \A c \in DOMAIN requests'[w] : RequestOK(requests'[w][c])
  BY <1>4 DEF WindowsOK
<1> QED BY <1>2, <1>3, <1>4, <1>5, <1>6 DEF WindowsOK

\* A request may move when its window embeds or was ended by an error; when all
\* were answered, none moves.
LEMMA RequestFits ==
  ASSUME OllamaInv, WindowsOK', NEW w \in Windows, NEW b \in DOMAIN requests[w],
         NEW state, RequestMoves(w, b, state), requests[w][b].state \notin {"ok", "split"},
         UNCHANGED <<provider, ollamaLock>>
  PROVE  OllamaInv'
<1> SUFFICES ASSUME provider = "ollama", NEW v \in Windows
             PROVE  /\ window'[v].step = "embedding" => ollamaLock' = v
                    /\ window'[v].step # "embedding" /\ window'[v].error = "none" =>
                         \A c \in DOMAIN requests'[v] : requests'[v][c].state \in {"ok", "split"}
  BY DEF OllamaInv
<1>1. CASE v # w
  BY <1>1 DEF OllamaInv, RequestMoves
<1>2. CASE v = w
  <2>1. window[w].step = "embedding" \/ window[w].error # "none"
    BY DEF OllamaInv
  <2> QED BY <1>2, <2>1 DEF OllamaInv, RequestMoves
<1> QED BY <1>1, <1>2

LEMMA WindowChange ==
  ASSUME NEW v, WindowOK(v), NEW x
  PROVE  /\ WindowOK([v EXCEPT !.step = x]) /\ WindowOK([v EXCEPT !.vectors = x])
         /\ WindowOK([v EXCEPT !.next = x]) /\ WindowOK([v EXCEPT !.offset = x])
<1>1. WindowOK([v EXCEPT !.step = x])
  BY DEF WindowOK
<1>2. WindowOK([v EXCEPT !.vectors = x])
  BY DEF WindowOK
<1>3. WindowOK([v EXCEPT !.next = x])
  BY DEF WindowOK
<1>4. WindowOK([v EXCEPT !.offset = x])
  BY DEF WindowOK
<1> QED BY <1>1, <1>2, <1>3, <1>4

LEMMA WindowChanges ==
  ASSUME NEW v, WindowOK(v), NEW step, NEW values, NEW next, NEW offset
  PROVE  /\ WindowOK([v EXCEPT !.step = step, !.vectors = values])
         /\ WindowOK([v EXCEPT !.vectors = values, !.step = step])
         /\ WindowOK([v EXCEPT !.next = next, !.offset = offset])
<1>1. WindowOK([v EXCEPT !.step = step, !.vectors = values])
  <2>1. WindowOK([[v EXCEPT !.step = step] EXCEPT !.vectors = values])
    BY WindowChange
  <2>2. [v EXCEPT !.step = step, !.vectors = values]
          = [[v EXCEPT !.step = step] EXCEPT !.vectors = values]
    OBVIOUS
  <2> QED BY <2>1, <2>2
<1>2. WindowOK([v EXCEPT !.vectors = values, !.step = step])
  <2>1. WindowOK([[v EXCEPT !.vectors = values] EXCEPT !.step = step])
    BY WindowChange
  <2>2. [v EXCEPT !.vectors = values, !.step = step]
          = [[v EXCEPT !.vectors = values] EXCEPT !.step = step]
    OBVIOUS
  <2> QED BY <2>1, <2>2
<1>3. WindowOK([v EXCEPT !.next = next, !.offset = offset])
  <2>1. WindowOK([[v EXCEPT !.next = next] EXCEPT !.offset = offset])
    BY WindowChange
  <2>2. [v EXCEPT !.next = next, !.offset = offset]
          = [[v EXCEPT !.next = next] EXCEPT !.offset = offset]
    OBVIOUS
  <2> QED BY <2>1, <2>2
<1> QED BY <1>1, <1>2, <1>3

\* The window's own steps.
LEMMA WindowStepFits ==
  ASSUME OllamaInv, NEW w \in Windows, WindowStep(w)
  PROVE  OllamaInv'
<1>0. WindowsOK /\ WindowOK(window[w])
  BY DEF OllamaInv, WindowsOK
<1>1. CASE ReadsMemoryCache(w)
  <2>1. PICK values :
          window' = [window EXCEPT ![w] = [window[w] EXCEPT !.step = "lookup", !.vectors = values]]
    BY <1>0, <1>1 DEF ReadsMemoryCache
  <2>2. window[w].step = "new" /\ UNCHANGED <<provider, requests, ollamaLock>>
    BY <1>1 DEF ReadsMemoryCache
  <2>3. WindowOK([window[w] EXCEPT !.step = "lookup", !.vectors = values])
    BY <1>0, WindowChanges
  <2>4. /\ WindowsOK' /\ window'[w] = [window[w] EXCEPT !.step = "lookup", !.vectors = values]
        /\ \A u \in Windows \ {w} : window'[u] = window[u]
    BY <1>0, <2>1, <2>2, <2>3, MovesOK
  <2>5. WindowMoves(w, "lookup")
    BY <1>0, <2>4 DEF WindowMoves, WindowOK
  <2> QED BY <2>2, <2>4, <2>5, MovesFit
<1>2. CASE GivesUpLock(w)
  <2>1. window' = [window EXCEPT ![w] = [window[w] EXCEPT !.step = "thrown"]]
        /\ window[w].step = "locking" /\ UNCHANGED <<provider, requests, ollamaLock>>
    BY <1>2 DEF GivesUpLock
  <2>2. WindowOK([window[w] EXCEPT !.step = "thrown"])
    BY <1>0 DEF WindowOK
  <2>3. /\ WindowsOK' /\ window'[w] = [window[w] EXCEPT !.step = "thrown"]
        /\ \A u \in Windows \ {w} : window'[u] = window[u]
    BY <1>0, <2>1, <2>2, MovesOK
  <2>4. WindowMoves(w, "thrown")
    BY <1>0, <2>3 DEF WindowMoves, WindowOK
  <2> QED BY <2>1, <2>3, <2>4, MovesFit
<1>3. CASE Caches(w)
  <2> DEFINE Moves(step, values) ==
        /\ step \in {"writing", "thrown"}
        /\ window' = [window EXCEPT ![w] = [window[w] EXCEPT !.step = step, !.vectors = values]]
  <2>1. PICK step, values : Moves(step, values)
    <3>1. CASE window' = [window EXCEPT ![w].step = "thrown"]
      <4>1. [window[w] EXCEPT !.step = "thrown"] =
              [window[w] EXCEPT !.step = "thrown", !.vectors = window[w].vectors]
        BY <1>0 DEF WindowOK
      <4>2. Moves("thrown", window[w].vectors)
        BY <3>1, <4>1
      <4> HIDE DEF Moves
      <4> QED BY <4>2
    <3>2. ASSUME NEW values,
                 window' = [window EXCEPT ![w].step = "writing", ![w].vectors = values]
          PROVE  \E step, vs : Moves(step, vs)
      <4>1. Moves("writing", values)
        BY <3>2
      <4> HIDE DEF Moves
      <4> QED BY <4>1
    <3> HIDE DEF Moves
    <3> QED BY <1>3, <3>1, <3>2 DEF Caches
  <2>2. window[w].step = "caching" /\ UNCHANGED <<provider, requests, ollamaLock>>
    BY <1>3 DEF Caches
  <2>3. WindowOK([window[w] EXCEPT !.step = step, !.vectors = values])
    BY <1>0, WindowChanges
  <2>4. /\ WindowsOK' /\ window'[w] = [window[w] EXCEPT !.step = step, !.vectors = values]
        /\ \A u \in Windows \ {w} : window'[u] = window[u]
    BY <1>0, <2>1, <2>2, <2>3, MovesOK
  <2>5. WindowMoves(w, step)
    BY <1>0, <2>4 DEF WindowMoves, WindowOK
  <2> QED BY <2>1, <2>2, <2>4, <2>5, MovesFit
<1>4. CASE QueuesFile(w) \/ WritesFile(w)
  <2>1. PICK next, offset :
          window' = [window EXCEPT ![w] = [window[w] EXCEPT !.next = next, !.offset = offset]]
    <3> DEFINE length == Len(ChunksOf[Current(w)])
    <3>1. window' = [window EXCEPT ![w].next = @ + 1, ![w].offset = @ + length]
      BY <1>4 DEF QueuesFile, WritesFile
    <3> HIDE DEF length
    <3> QED BY <3>1
  <2>2. window[w].step = "writing" /\ UNCHANGED <<provider, requests, ollamaLock>>
    BY <1>4 DEF QueuesFile, WritesFile, Writing, WriteFrame
  <2>3. WindowOK([window[w] EXCEPT !.next = next, !.offset = offset])
    BY <1>0, WindowChanges
  <2>4. /\ WindowsOK' /\ window'[w] = [window[w] EXCEPT !.next = next, !.offset = offset]
        /\ \A u \in Windows \ {w} : window'[u] = window[u]
    BY <1>0, <2>1, <2>2, <2>3, MovesOK
  <2>5. WindowMoves(w, "writing")
    BY <1>0, <2>2, <2>4 DEF WindowMoves, WindowOK
  <2> QED BY <2>2, <2>4, <2>5, MovesFit
<1>5. CASE Ends(w)
  <2>1. window' = [window EXCEPT ![w] = [window[w] EXCEPT !.step = "done"]]
        /\ window[w].step = "writing" /\ UNCHANGED <<provider, requests, ollamaLock>>
    BY <1>5 DEF Ends, WriteFrame
  <2>2. WindowOK([window[w] EXCEPT !.step = "done"])
    BY <1>0 DEF WindowOK
  <2>3. /\ WindowsOK' /\ window'[w] = [window[w] EXCEPT !.step = "done"]
        /\ \A u \in Windows \ {w} : window'[u] = window[u]
    BY <1>0, <2>1, <2>2, MovesOK
  <2>4. WindowMoves(w, "done")
    BY <1>0, <2>3 DEF WindowMoves, WindowOK
  <2> QED BY <2>1, <2>3, <2>4, MovesFit
<1>6. CASE Settles(w)
  <2>1. PICK step \in {"caching", "writing", "thrown"} :
          window' = [window EXCEPT ![w] = [window[w] EXCEPT !.step = step]]
    BY <1>6 DEF Settles
  <2>2. /\ window[w].step = "embedding" /\ UNCHANGED <<provider, requests>>
        /\ Embedded(w) \/ window[w].error # "none"
        /\ ollamaLock' = IF ollamaLock = w THEN NoWindow ELSE ollamaLock
    BY <1>6 DEF Settles
  <2>3. WindowOK([window[w] EXCEPT !.step = step])
    BY <1>0 DEF WindowOK
  <2>4. /\ WindowsOK' /\ window'[w] = [window[w] EXCEPT !.step = step]
        /\ \A u \in Windows \ {w} : window'[u] = window[u]
    BY <1>0, <2>1, <2>2, <2>3, MovesOK
  <2>5. WindowMoves(w, step)
    BY <1>0, <2>4 DEF WindowMoves, WindowOK
  <2>6. window'[w].step # "embedding" /\ window'[w].error = window[w].error
        /\ (window[w].error = "none" => \A b \in DOMAIN requests[w] : requests[w][b].state \in {"ok", "split"})
    BY <2>2, <2>5 DEF WindowMoves, Embedded
  <2>7. ASSUME provider = "ollama", NEW v \in Windows \ {w}, window[v].step = "embedding"
        PROVE  ollamaLock' = v
    BY <2>2, <2>7 DEF OllamaInv
  <2>8. requests' = requests /\ provider' = provider
    BY <2>2
  <2>9. ASSUME provider' = "ollama", NEW v \in Windows, v # w
        PROVE  /\ window'[v].step = "embedding" => ollamaLock' = v
               /\ window'[v].step # "embedding" /\ window'[v].error = "none" =>
                    \A b \in DOMAIN requests'[v] : requests'[v][b].state \in {"ok", "split"}
    <3>1. window'[v] = window[v]
      BY <2>4, <2>9
    <3> QED BY <2>7, <2>8, <2>9, <3>1 DEF OllamaInv
  <2>10. ASSUME provider' = "ollama"
         PROVE  /\ window'[w].step = "embedding" => ollamaLock' = w
                /\ window'[w].step # "embedding" /\ window'[w].error = "none" =>
                     \A b \in DOMAIN requests'[w] : requests'[w][b].state \in {"ok", "split"}
    BY <2>6, <2>8
  <2> QED BY <2>4, <2>9, <2>10 DEF OllamaInv
<1>7. CASE Locks(w)
  <2> DEFINE n == Len(Missing(window[w].vectors))
  <2>1. window' = [window EXCEPT ![w] = [window[w] EXCEPT !.step = "embedding"]]
        /\ ollamaLock = NoWindow /\ ollamaLock' = w /\ provider' = provider
        /\ requests' = [requests EXCEPT ![w] = Batches(n)]
    BY <1>7 DEF Locks
  <2>2. /\ Batches(n) = [b \in DOMAIN Batches(n) |-> Batches(n)[b]]
        /\ \A b \in DOMAIN Batches(n) : RequestOK(Batches(n)[b])
    BY BatchesOK
  <2> HIDE DEF n
  <2>3. WindowOK([window[w] EXCEPT !.step = "embedding"])
    BY <1>0 DEF WindowOK
  <2>4. /\ window'[w] = [window[w] EXCEPT !.step = "embedding"]
        /\ window' = [v \in Windows |-> window'[v]]
        /\ \A v \in Windows \ {w} : window'[v] = window[v]
    BY <1>0, <2>1 DEF WindowsOK
  <2>5. /\ requests'[w] = Batches(n)
        /\ requests' = [v \in Windows |-> requests'[v]]
        /\ \A v \in Windows \ {w} : requests'[v] = requests[v]
    BY <1>0, <2>1 DEF WindowsOK
  <2>6. WindowsOK'
    <3>1. \A v \in Windows : WindowOK(window'[v])
      BY <1>0, <2>3, <2>4 DEF WindowsOK
    <3>2. \A v \in Windows : /\ requests'[v] = [b \in DOMAIN requests'[v] |-> requests'[v][b]]
                             /\ \A b \in DOMAIN requests'[v] : RequestOK(requests'[v][b])
      BY <1>0, <2>2, <2>5 DEF WindowsOK
    <3> QED BY <2>4, <2>5, <3>1, <3>2 DEF WindowsOK
  <2>7. window'[w].step = "embedding"
    BY <1>0, <2>4 DEF WindowOK
  <2> QED BY <2>1, <2>4, <2>5, <2>6, <2>7, EmbeddingAssumption DEF OllamaInv
<1>8. CASE ReadsStoredCache(w)
  <2>1. PICK values, step, n :
          /\ window' = [window EXCEPT ![w] = [window[w] EXCEPT !.vectors = values, !.step = step]]
          /\ provider = "ollama" => step \in {"writing", "locking"}
          /\ requests' = [requests EXCEPT ![w] =
               IF provider = "ollama" THEN <<>> ELSE Batches(n)]
    BY <1>8 DEF ReadsStoredCache
  <2>2. window[w].step = "lookup" /\ UNCHANGED <<provider, ollamaLock>>
    BY <1>8 DEF ReadsStoredCache
  <2>3. WindowOK([window[w] EXCEPT !.vectors = values, !.step = step])
    BY <1>0, WindowChanges
  <2>4. /\ window'[w] = [window[w] EXCEPT !.vectors = values, !.step = step]
        /\ window' = [v \in Windows |-> window'[v]]
        /\ \A v \in Windows \ {w} : window'[v] = window[v]
    BY <1>0, <2>1 DEF WindowsOK
  <2>5. /\ requests'[w] = IF provider = "ollama" THEN <<>> ELSE Batches(n)
        /\ requests' = [v \in Windows |-> requests'[v]]
        /\ \A v \in Windows \ {w} : requests'[v] = requests[v]
    BY <1>0, <2>1 DEF WindowsOK
  <2>6. WindowsOK'
    <3>1. \A v \in Windows : WindowOK(window'[v])
      BY <1>0, <2>3, <2>4 DEF WindowsOK
    <3>2. /\ Batches(n) = [b \in DOMAIN Batches(n) |-> Batches(n)[b]]
          /\ \A b \in DOMAIN Batches(n) : RequestOK(Batches(n)[b])
      BY BatchesOK
    <3>3. \A v \in Windows : /\ requests'[v] = [b \in DOMAIN requests'[v] |-> requests'[v][b]]
                             /\ \A b \in DOMAIN requests'[v] : RequestOK(requests'[v][b])
      <4>1. CASE provider = "ollama"
        <5>1. requests'[w] = <<>>
          BY <2>5, <4>1
        <5>2. <<>> = [b \in DOMAIN <<>> |-> <<>>[b]] /\ DOMAIN <<>> = {}
          OBVIOUS
        <5>3. /\ requests'[w] = [b \in DOMAIN requests'[w] |-> requests'[w][b]]
              /\ DOMAIN requests'[w] = {}
          BY <5>1, <5>2
        <5> QED BY <1>0, <2>5, <5>3 DEF WindowsOK
      <4>2. CASE provider # "ollama"
        BY <1>0, <2>5, <3>2, <4>2 DEF WindowsOK
      <4> QED BY <4>1, <4>2
    <3> QED BY <2>4, <2>5, <3>1, <3>3 DEF WindowsOK
  <2>7. window'[w].step = step
    BY <1>0, <2>4 DEF WindowOK
  <2> QED BY <2>1, <2>2, <2>4, <2>5, <2>6, <2>7 DEF OllamaInv
<1> QED BY <1>1, <1>2, <1>3, <1>4, <1>5, <1>6, <1>7, <1>8 DEF WindowStep

\* A request that is answered, goes out, sleeps or fails.
\* A batch is split into its texts.
LEMMA MiscountSplits ==
  ASSUME WindowsOK, NEW w \in Windows, NEW b \in DOMAIN requests[w], Miscounts(w, b)
  PROVE  /\ WindowsOK' /\ provider = "openai-compat"
         /\ UNCHANGED <<provider, window, ollamaLock>>
         /\ \A v \in Windows \ {w} : requests'[v] = requests[v]
         /\ \A c \in DOMAIN requests'[w] :
              \/ requests'[w][c].state \in {"single", "split"}
              \/ c \in DOMAIN requests[w] /\ requests'[w][c] = requests[w][c]
<1>1. /\ provider = "openai-compat" /\ UNCHANGED <<provider, window, ollamaLock>>
      /\ RequestOK(requests[w][b])
  BY DEF Miscounts, RequestFrame, WindowsOK
<1>2. PICK n : requests' = [requests EXCEPT ![w] =
                 [c \in 1 .. n |->
                    IF c \notin DOMAIN requests[w] THEN SingleText
                    ELSE IF c = b THEN [requests[w][b] EXCEPT !.state = "split"]
                    ELSE requests[w][c]]]
  BY DEF Miscounts
<1>3. PICK split : split = [requests[w][b] EXCEPT !.state = "split"]
  OBVIOUS
<1>4. RequestOK(split) /\ split.state = "split"
  BY <1>1, <1>3 DEF RequestOK
<1>5. RequestOK(SingleText) /\ SingleText.state = "single"
  BY DEF RequestOK, SingleText
<1>6. PICK single : single = SingleText
  OBVIOUS
<1>7. PICK r : r = [c \in 1 .. n |-> IF c \notin DOMAIN requests[w] THEN single
                                     ELSE IF c = b THEN split ELSE requests[w][c]]
  OBVIOUS
<1>8. requests' = [requests EXCEPT ![w] = r]
  BY <1>2, <1>3, <1>6, <1>7
<1>9. /\ requests'[w] = r /\ \A v \in Windows \ {w} : requests'[v] = requests[v]
      /\ requests' = [v \in Windows |-> requests'[v]]
  BY <1>8 DEF WindowsOK
<1>10. /\ r = [c \in DOMAIN r |-> r[c]]
       /\ \A c \in DOMAIN r : r[c] \in {single, split} \/ (c \in DOMAIN requests[w] /\ r[c] = requests[w][c])
  BY <1>7
<1>11. \A c \in DOMAIN r : RequestOK(r[c])
  BY <1>4, <1>5, <1>6, <1>10 DEF WindowsOK
<1>12. WindowsOK'
  <2>1. window' = [v \in Windows |-> window'[v]] /\ \A v \in Windows : WindowOK(window'[v])
    BY <1>1 DEF WindowsOK
  <2>2. \A v \in Windows : /\ requests'[v] = [c \in DOMAIN requests'[v] |-> requests'[v][c]]
                           /\ \A c \in DOMAIN requests'[v] : RequestOK(requests'[v][c])
    BY <1>9, <1>10, <1>11 DEF WindowsOK
  <2> QED BY <1>9, <2>1, <2>2 DEF WindowsOK
<1> QED BY <1>1, <1>4, <1>5, <1>6, <1>9, <1>10, <1>12

LEMMA RequestStepFits ==
  ASSUME OllamaInv, NEW w \in Windows, RequestStep(w)
  PROVE  OllamaInv'
<1>0. WindowsOK /\ WindowOK(window[w])
  BY DEF OllamaInv, WindowsOK
<1>1. PICK b \in DOMAIN requests[w] :
        \/ Sends(w, b) \/ Answers(w, b) \/ FailsForNow(w, b) \/ FailsForGood(w, b)
        \/ Throws(w, b) \/ Miscounts(w, b) \/ Aborts(w, b)
  BY DEF RequestStep
<1>2. RequestOK(requests[w][b]) /\ requests[w][b].state \notin {"ok", "split"}
      /\ UNCHANGED <<provider, ollamaLock>>
  BY <1>0, <1>1 DEF WindowsOK, Sends, Answers, FailsForNow, FailsForGood, Throws, Miscounts,
     Aborts, InFlight, RequestFrame
\* The window keeps its step, and an error it has got.
<1>3. ASSUME NEW r, RequestOK(r), window' = window,
             requests' = [requests EXCEPT ![w] = [requests[w] EXCEPT ![b] = r]]
      PROVE  OllamaInv'
  <2>1. /\ requests' = [v \in Windows |-> requests'[v]]
        /\ \A v \in Windows : /\ requests'[v] = [c \in DOMAIN requests'[v] |-> requests'[v][c]]
                              /\ \A c \in DOMAIN requests'[v] : RequestOK(requests'[v][c])
        /\ requests'[w][b] = r /\ DOMAIN requests'[w] = DOMAIN requests[w]
        /\ \A c \in DOMAIN requests[w] \ {b} : requests'[w][c] = requests[w][c]
        /\ \A v \in Windows \ {w} : requests'[v] = requests[v]
    BY <1>0, <1>3, RequestsOK
  <2>2. WindowsOK'
    BY <1>0, <1>3, <2>1 DEF WindowsOK
  <2>3. RequestMoves(w, b, r.state)
    BY <1>3, <2>1 DEF RequestMoves
  <2> QED BY <1>2, <2>2, <2>3, RequestFits
<1>4. ASSUME NEW r, RequestOK(r), NEW error \in {"exhausted", "thrown"},
             window' = [window EXCEPT ![w].error = IF @ = "none" THEN error ELSE @],
             requests' = [requests EXCEPT ![w] = [requests[w] EXCEPT ![b] = r]]
      PROVE  OllamaInv'
  <2>1. /\ requests' = [v \in Windows |-> requests'[v]]
        /\ \A v \in Windows : /\ requests'[v] = [c \in DOMAIN requests'[v] |-> requests'[v][c]]
                              /\ \A c \in DOMAIN requests'[v] : RequestOK(requests'[v][c])
        /\ requests'[w][b] = r /\ DOMAIN requests'[w] = DOMAIN requests[w]
        /\ \A c \in DOMAIN requests[w] \ {b} : requests'[w][c] = requests[w][c]
        /\ \A v \in Windows \ {w} : requests'[v] = requests[v]
    BY <1>0, <1>4, RequestsOK
  <2>2. PICK e : /\ e = IF window[w].error = "none" THEN error ELSE window[w].error
                 /\ window' = [window EXCEPT ![w] = [window[w] EXCEPT !.error = e]]
    BY <1>4
  <2>3. WindowOK([window[w] EXCEPT !.error = e]) /\ [window[w] EXCEPT !.error = e].error = e
        /\ [window[w] EXCEPT !.error = e].step = window[w].step
    BY <1>0 DEF WindowOK
  <2>4. /\ window'[w] = [window[w] EXCEPT !.error = e]
        /\ window' = [v \in Windows |-> window'[v]]
        /\ \A v \in Windows \ {w} : window'[v] = window[v]
    BY <1>0, <2>2 DEF WindowsOK
  <2>5. \A v \in Windows : WindowOK(window'[v])
    BY <1>0, <2>3, <2>4 DEF WindowsOK
  <2>6. WindowsOK'
    BY <2>1, <2>4, <2>5 DEF WindowsOK
  <2>7. window'[w].step = window[w].step /\ (window[w].error # "none" => window'[w].error # "none")
    BY <2>2, <2>3, <2>4
  <2>8. RequestMoves(w, b, r.state)
    BY <2>1, <2>4, <2>7 DEF RequestMoves
  <2> QED BY <1>2, <2>6, <2>8, RequestFits
\* What the request becomes.
<1>5. \A s : RequestOK([requests[w][b] EXCEPT !.state = s])
  BY <1>2 DEF RequestOK
<1>6. \A s, n : RequestOK([requests[w][b] EXCEPT !.state = s, !.attempt = n])
  <2> SUFFICES ASSUME NEW s, NEW n
               PROVE  RequestOK([requests[w][b] EXCEPT !.state = s, !.attempt = n])
    OBVIOUS
  <2>1. \A r : RequestOK(r) => RequestOK([r EXCEPT !.attempt = n])
    BY DEF RequestOK
  <2>2. RequestOK([[requests[w][b] EXCEPT !.state = s] EXCEPT !.attempt = n])
    BY <1>5, <2>1
  <2>3. [requests[w][b] EXCEPT !.state = s, !.attempt = n]
          = [[requests[w][b] EXCEPT !.state = s] EXCEPT !.attempt = n]
    OBVIOUS
  <2> QED BY <2>2, <2>3
<1>7. \A s : window' = window /\ requests' = [requests EXCEPT ![w][b].state = s] => OllamaInv'
  BY <1>3, <1>5
<1>8. \A error \in {"exhausted", "thrown"} : Rejects(w, b, error) => OllamaInv'
  BY <1>4, <1>5 DEF Rejects
<1>9. CASE Sends(w, b)
  <2>1. PICK s : s = IF requests[w][b].state = "single" THEN "alone" ELSE "sent"
    OBVIOUS
  <2>2. requests' = [requests EXCEPT ![w][b].state = s] /\ window' = window
    BY <1>9, <2>1 DEF Sends
  <2> QED BY <1>7, <2>2
<1>10. CASE Answers(w, b)
  BY <1>7, <1>10 DEF Answers
<1>11. CASE Miscounts(w, b)
  <2>1. WindowsOK' /\ provider = "openai-compat" /\ provider' = provider
    BY <1>0, <1>11, MiscountSplits
  <2> QED BY <2>1 DEF OllamaInv
<1>12. CASE FailsForGood(w, b)
  BY <1>8, <1>12 DEF FailsForGood
<1>13. CASE Throws(w, b)
  BY <1>8, <1>13 DEF Throws
<1>14. CASE Aborts(w, b)
  BY <1>8, <1>14 DEF Aborts
<1>15. CASE FailsForNow(w, b)
  <2>1. CASE Rejects(w, b, "exhausted")
    BY <1>8, <2>1
  <2>2. CASE /\ requests' = [requests EXCEPT ![w][b].state = "asleep", ![w][b].attempt = @ + 1]
             /\ window' = window
    <3>1. PICK n : requests' = [requests EXCEPT ![w][b].state = "asleep", ![w][b].attempt = n]
      BY <2>2
    <3>2. requests' = [requests EXCEPT ![w] =
                         [requests[w] EXCEPT ![b] =
                            [requests[w][b] EXCEPT !.state = "asleep", !.attempt = n]]]
      BY <1>0, <3>1 DEF WindowsOK
    <3> QED BY <1>3, <1>6, <2>2, <3>2
  <2> QED BY <1>15, <2>1, <2>2 DEF FailsForNow
<1> QED BY <1>1, <1>9, <1>10, <1>11, <1>12, <1>13, <1>14, <1>15

\* Other processes, and stop().
LEMMA OutsideFits ==
  ASSUME OllamaInv,
         Stop \/ OtherLocks \/ OtherUnlocks \/ UNCHANGED embeddingVars
  PROVE  OllamaInv'
<1>1. UNCHANGED <<provider, window, requests>>
      /\ (ollamaLock' = ollamaLock \/ ollamaLock \notin Windows)
  BY EmbeddingAssumption DEF Stop, OtherLocks, OtherUnlocks, embeddingVars
<1>2. WindowsOK'
  BY <1>1 DEF OllamaInv, WindowsOK, WindowOK, RequestOK
<1> QED BY <1>1, <1>2 DEF OllamaInv

\* Two windows never ask "ollama" at once, except for requests that a window
\* left behind when its first batch failed; nor do a window and another process.
THEOREM OneWindowAsksOllama == EmbeddingSpec => []OneAsksOllama
<1>1. OllamaInv => OneAsksOllama
  <2> SUFFICES ASSUME OllamaInv, provider = "ollama", NEW w \in Windows,
                      InFlight(w) # {}, window[w].error = "none"
               PROVE  ollamaLock = w
    BY DEF OneAsksOllama
  <2>1. PICK b \in DOMAIN requests[w] : requests[w][b].state \notin {"ok", "split"}
    BY DEF InFlight
  <2> QED BY <2>1 DEF OllamaInv
<1>2. OllamaInv /\ [EmbeddingNext]_embeddingVars => OllamaInv'
  BY WindowStepFits, RequestStepFits, OutsideFits DEF EmbeddingNext
<1> QED BY <1>1, <1>2, OllamaInitially, PTL DEF EmbeddingSpec

-----------------------------------------------------------------------------
\* Numbers, and what the definitions of FlattenSeq and Missing compute.
LEMMA LessIsWellFounded ==
  \E R : IsWellFoundedOn(R, Nat) /\ \A x, y \in Nat : <<y, x>> \in R <=> y < x
<1> DEFINE R == OpToRel(<, Nat)
<1>1. IsWellFoundedOn(R, Nat)
  BY NatLessThanWellFounded
<1>2. \A x, y \in Nat : <<y, x>> \in R <=> y < x
  BY DEF OpToRel
<1> HIDE DEF R
<1> QED BY <1>1, <1>2

\* The least number of a set, and induction over a set of numbers.
LEMMA LeastNumber ==
  ASSUME NEW T, T \subseteq Nat, T # {}
  PROVE  \E x \in T : \A y \in T : x <= y
<1>1. PICK R : IsWellFoundedOn(R, Nat) /\ \A x, y \in Nat : <<y, x>> \in R <=> y < x
  BY LessIsWellFounded
<1>2. PICK x \in T : \A y \in T : <<y, x>> \notin R
  BY <1>1, WFMin
<1>3. \A y \in T : ~(y < x)
  BY <1>1, <1>2
<1>4. \A y \in T : x <= y
  BY <1>3
<1> QED BY <1>4

LEMMA Induct ==
  ASSUME NEW S, 0 \in S, \A n \in Nat : n \in S => n + 1 \in S
  PROVE  Nat \subseteq S
<1> SUFFICES ASSUME Nat \ S # {} PROVE FALSE
  OBVIOUS
<1>1. PICK x \in Nat \ S : \A y \in Nat \ S : x <= y
  BY LeastNumber
<1>2. x # 0 /\ x - 1 \in Nat
  BY <1>1
<1>3. x - 1 \in S
  BY <1>1, <1>2
<1> QED BY <1>1, <1>2, <1>3

\* The recursive function of FlattenSeq is what its definition says.
LEMMA FlattenDefined ==
  ASSUME NEW seqs
  PROVE  \A n \in Nat : \E g :
            g = [i \in 1 .. n |-> IF i = 1 THEN seqs[i] ELSE g[i - 1] \o seqs[i]]
<1> DEFINE Step(g, n) == [i \in 1 .. n |-> IF i = 1 THEN seqs[i] ELSE g[i - 1] \o seqs[i]]
           T == {n \in Nat : \E g : g = Step(g, n)}
<1>1. 0 \in T
  <2> DEFINE e == [i \in 1 .. 0 |-> {}]
  <2>1. e = Step(e, 0)
    OBVIOUS
  <2> QED BY <2>1
<1>2. ASSUME NEW n \in Nat, n \in T PROVE n + 1 \in T
  <2>1. PICK g : g = Step(g, n)
    BY <1>2
  <2> DEFINE h == [i \in 1 .. n + 1 |->
                     IF i = 1 THEN seqs[i] ELSE g[i - 1] \o seqs[i]]
  <2>2. ASSUME NEW i \in 1 .. n PROVE h[i] = g[i]
    <3>1. g[i] = Step(g, n)[i]
      BY <2>1
    <3>2. Step(g, n)[i] = IF i = 1 THEN seqs[i] ELSE g[i - 1] \o seqs[i]
      OBVIOUS
    <3>3. i \in 1 .. n + 1
      OBVIOUS
    <3> QED BY <3>1, <3>2, <3>3
  <2>3. ASSUME NEW i \in 1 .. n + 1
        PROVE  h[i] = IF i = 1 THEN seqs[i] ELSE h[i - 1] \o seqs[i]
    <3>1. h[i] = IF i = 1 THEN seqs[i] ELSE g[i - 1] \o seqs[i]
      OBVIOUS
    <3>2. i = 1 \/ i - 1 \in 1 .. n
      OBVIOUS
    <3>3. i = 1 \/ h[i - 1] = g[i - 1]
      BY <2>2, <3>2
    <3> HIDE DEF h
    <3> QED BY <3>1, <3>3
  <2>4. h = [i \in 1 .. n + 1 |-> h[i]]
    OBVIOUS
  <2> HIDE DEF h
  <2>5. [i \in 1 .. n + 1 |-> h[i]] = Step(h, n + 1)
    BY <2>3
  <2>6. h = Step(h, n + 1)
    BY <2>4, <2>5, Zenon
  <2>7. \E k : k = Step(k, n + 1)
    BY <2>6, Zenon
  <2>8. n + 1 \in Nat
    OBVIOUS
  <2> QED BY <2>7, <2>8, Zenon
<1> HIDE DEF T
<1>3. Nat \subseteq T
  BY <1>1, <1>2, Induct
<1> QED BY <1>3 DEF T

\* FlattenSeq is the last of the sequences it builds up.
LEMMA FlattenBuilds ==
  ASSUME NEW seqs, Len(seqs) \in Nat \ {0}
  PROVE  \E g : /\ FlattenSeq(seqs) = g[Len(seqs)]
                /\ g[1] = seqs[1]
                /\ \A i \in 2 .. Len(seqs) : g[i] = g[i - 1] \o seqs[i]
<1> DEFINE Good(g) == g = [i \in 1 .. Len(seqs) |->
                             IF i = 1 THEN seqs[i] ELSE g[i - 1] \o seqs[i]]
           f == CHOOSE g : Good(g)
<1>1. \E g : Good(g)
  BY FlattenDefined
<1>2. Good(f)
  BY <1>1
<1>3. FlattenSeq(seqs) = f[Len(seqs)]
  BY DEF FlattenSeq
<1> HIDE DEF f
<1>4. ASSUME NEW i \in 1 .. Len(seqs)
      PROVE  f[i] = IF i = 1 THEN seqs[i] ELSE f[i - 1] \o seqs[i]
  <2>1. f[i] = [k \in 1 .. Len(seqs) |-> IF k = 1 THEN seqs[k] ELSE f[k - 1] \o seqs[k]][i]
    BY <1>2
  <2> QED BY <2>1
<1>5. f[1] = seqs[1]
  <2>1. 1 \in 1 .. Len(seqs)
    OBVIOUS
  <2> QED BY <1>4, <2>1
<1>6. ASSUME NEW i \in 2 .. Len(seqs) PROVE f[i] = f[i - 1] \o seqs[i]
  <2>1. i \in 1 .. Len(seqs) /\ i # 1
    OBVIOUS
  <2> QED BY <1>4, <2>1
<1> QED BY <1>3, <1>5, <1>6

LEMMA Concatenated ==
  ASSUME NEW S, NEW a \in Seq(S), NEW b \in Seq(S)
  PROVE  /\ a \o b \in Seq(S) /\ Len(a \o b) = Len(a) + Len(b)
         /\ Len(a) \in Nat /\ Len(b) \in Nat
         /\ \A j \in 1 .. Len(a) : (a \o b)[j] = a[j]
         /\ \A j \in 1 .. Len(b) : (a \o b)[Len(a) + j] = b[j]
  OBVIOUS

\* Where each part of a flattened sequence of sequences begins.
FilesBegin(seqs, at) ==
  /\ at \in [1 .. Len(seqs) + 1 -> Nat]
  /\ at[1] = 0
  /\ \A k \in 1 .. Len(seqs) :
       /\ at[k + 1] = at[k] + Len(seqs[k])
       /\ at[k + 1] <= Len(FlattenSeq(seqs))
       /\ \A j \in 1 .. Len(seqs[k]) : FlattenSeq(seqs)[at[k] + j] = seqs[k][j]

\* Every part is found in the flattened sequence, where it begins.
LEMMA FlattenSlices ==
  ASSUME NEW S, NEW seqs \in Seq(Seq(S))
  PROVE  FlattenSeq(seqs) \in Seq(S) /\ \E at : FilesBegin(seqs, at)
<1> DEFINE n == Len(seqs)
           F == FlattenSeq(seqs)
<1>1. CASE n = 0
  <2>1. F = <<>>
    BY <1>1 DEF FlattenSeq
  <2> DEFINE at == [x \in 1 .. n + 1 |-> 0]
  <2>2. at \in [1 .. n + 1 -> Nat] /\ at[1] = 0 /\ 1 .. n = {}
    BY <1>1
  <2>3. FilesBegin(seqs, at)
    BY <2>2 DEF FilesBegin
  <2>4. F \in Seq(S)
    BY <2>1
  <2> HIDE DEF at
  <2> QED BY <2>3, <2>4
<1>2. CASE n # 0
  <2>1. n \in Nat \ {0}
    BY <1>2
  <2>2. PICK g : /\ F = g[n]
                 /\ g[1] = seqs[1]
                 /\ \A i \in 2 .. n : g[i] = g[i - 1] \o seqs[i]
    BY <2>1, FlattenBuilds
  <2> HIDE DEF F
  <2> DEFINE BeginAlike(m) ==
        \A k \in 1 .. m : /\ g[k] \in Seq(S)
                          /\ Len(g[k]) <= Len(g[m])
                          /\ \A j \in 1 .. Len(g[k]) : g[m][j] = g[k][j]
             T == {m \in Nat : m + 1 <= n => BeginAlike(m + 1)}
  <2>3. 0 \in T
    <3>1. seqs[1] \in Seq(S)
      BY <2>1
    <3>2. ASSUME NEW k \in 1 .. 0 + 1 PROVE k = 1
      OBVIOUS
    <3> QED BY <2>2, <3>1, <3>2
  <2>4. ASSUME NEW m \in Nat, m \in T PROVE m + 1 \in T
    <3> SUFFICES ASSUME m + 2 <= n PROVE BeginAlike(m + 2)
      OBVIOUS
    <3>1. BeginAlike(m + 1) /\ g[m + 2] = g[m + 1] \o seqs[m + 2] /\ seqs[m + 2] \in Seq(S)
      <4>1. m + 2 \in 2 .. n /\ m + 2 \in 1 .. n /\ (m + 2) - 1 = m + 1
        BY <2>1
      <4>2. g[m + 2] = g[m + 1] \o seqs[m + 2]
        BY <2>2, <4>1
      <4> QED BY <2>4, <4>1, <4>2
    <3>2. g[m + 1] \in Seq(S)
      BY <3>1
    <3>3. /\ g[m + 2] \in Seq(S) /\ Len(g[m + 1]) <= Len(g[m + 2])
          /\ \A j \in 1 .. Len(g[m + 1]) : g[m + 2][j] = g[m + 1][j]
      <4> DEFINE a == g[m + 1]
                 b == seqs[m + 2]
      <4>1. g[m + 2] = a \o b /\ a \in Seq(S) /\ b \in Seq(S)
        BY <3>1, <3>2
      <4> HIDE DEF a, b
      <4>2. /\ a \o b \in Seq(S) /\ Len(a) <= Len(a \o b)
            /\ \A j \in 1 .. Len(a) : (a \o b)[j] = a[j]
        BY <4>1, Concatenated
      <4>3. g[m + 2] \in Seq(S) /\ Len(a) <= Len(g[m + 2])
            /\ \A j \in 1 .. Len(a) : g[m + 2][j] = a[j]
        BY <4>1, <4>2
      <4> QED BY <4>3 DEF a
    <3>4. ASSUME NEW k \in 1 .. m + 2
          PROVE  /\ g[k] \in Seq(S)
                 /\ Len(g[k]) <= Len(g[m + 2])
                 /\ \A j \in 1 .. Len(g[k]) : g[m + 2][j] = g[k][j]
      <4>1. CASE k = m + 2
        BY <3>3, <4>1
      <4>2. CASE k # m + 2
        <5>1. k \in 1 .. m + 1
          BY <4>2
        <5>2. /\ g[k] \in Seq(S) /\ Len(g[k]) <= Len(g[m + 1])
              /\ \A j \in 1 .. Len(g[k]) : g[m + 1][j] = g[k][j]
          BY <3>1, <5>1
        <5>3. Len(g[k]) <= Len(g[m + 2])
          <6>1. /\ Len(g[k]) \in Nat /\ Len(g[m + 1]) \in Nat /\ Len(g[m + 2]) \in Nat
                /\ Len(g[k]) <= Len(g[m + 1]) /\ Len(g[m + 1]) <= Len(g[m + 2])
            BY <3>2, <3>3, <5>2
          <6> QED BY <6>1
        <5>4. ASSUME NEW j \in 1 .. Len(g[k]) PROVE g[m + 2][j] = g[k][j]
          <6>1. j \in 1 .. Len(g[m + 1])
            BY <3>2, <5>2
          <6> QED BY <3>3, <5>2, <6>1
        <5> QED BY <5>2, <5>3, <5>4
      <4> QED BY <4>1, <4>2
    <3> QED BY <3>4
  <2> HIDE DEF T
  <2>5. Nat \subseteq T
    BY <2>3, <2>4, Induct
  <2>6. n - 1 \in T /\ (n - 1) + 1 = n
    BY <2>1, <2>5
  <2>7. BeginAlike(n)
    BY <2>6 DEF T
  <2> HIDE DEF BeginAlike
  <2>8. \A k \in 1 .. n : /\ g[k] \in Seq(S)
                          /\ Len(g[k]) <= Len(F)
                          /\ \A j \in 1 .. Len(g[k]) : F[j] = g[k][j]
    BY <2>2, <2>7 DEF BeginAlike
  <2>9. F \in Seq(S)
    BY <2>1, <2>2, <2>8
  <2> DEFINE at == [k \in 1 .. n + 1 |-> IF k = 1 THEN 0 ELSE Len(g[k - 1])]
  <2>10. at \in [1 .. n + 1 -> Nat]
    <3>1. ASSUME NEW k \in 1 .. n + 1, k # 1 PROVE Len(g[k - 1]) \in Nat
      <4>1. k - 1 \in 1 .. n
        BY <2>1, <3>1
      <4> QED BY <2>8, <4>1
    <3> QED BY <3>1
  <2>11. at[1] = 0
    BY <2>1
  <2>12. ASSUME NEW k \in 1 .. n
         PROVE  /\ at[k + 1] = at[k] + Len(seqs[k])
                /\ at[k + 1] <= Len(F)
                /\ \A j \in 1 .. Len(seqs[k]) : F[at[k] + j] = seqs[k][j]
    <3>1. at[k + 1] = Len(g[k]) /\ seqs[k] \in Seq(S) /\ g[k] \in Seq(S)
      <4>1. k + 1 \in 1 .. n + 1 /\ k + 1 # 1 /\ (k + 1) - 1 = k
        BY <2>1
      <4> QED BY <2>8, <4>1
    <3>2. CASE k = 1
      <4>1. g[k] = seqs[k] /\ at[k] = 0
        BY <2>2, <2>11, <3>2
      <4> HIDE DEF at
      <4> QED BY <2>8, <3>1, <4>1
    <3>3. CASE k # 1
      <4>1. k - 1 \in 1 .. n /\ k \in 2 .. n
        BY <3>3
      <4>2. at[k] = Len(g[k - 1]) /\ g[k - 1] \in Seq(S) /\ g[k] = g[k - 1] \o seqs[k]
        <5>1. k \in 1 .. n + 1
          BY <2>1
        <5>2. at[k] = Len(g[k - 1])
          BY <3>3, <5>1
        <5> HIDE DEF at
        <5> QED BY <2>2, <2>8, <4>1, <5>2
      <4> HIDE DEF at
      <4>3. /\ Len(g[k]) = at[k] + Len(seqs[k]) /\ at[k] \in Nat /\ Len(seqs[k]) \in Nat
            /\ \A j \in 1 .. Len(seqs[k]) : g[k][at[k] + j] = seqs[k][j]
        <5> DEFINE a == g[k - 1]
                   b == seqs[k]
        <5>1. a \in Seq(S) /\ b \in Seq(S) /\ g[k] = a \o b /\ at[k] = Len(a)
          BY <3>1, <4>2
        <5> HIDE DEF a, b
        <5>2. /\ Len(a \o b) = Len(a) + Len(b) /\ Len(a) \in Nat /\ Len(b) \in Nat
              /\ \A j \in 1 .. Len(b) : (a \o b)[Len(a) + j] = b[j]
          BY <5>1, Concatenated
        <5>3. /\ Len(g[k]) = at[k] + Len(b) /\ at[k] \in Nat /\ Len(b) \in Nat
              /\ \A j \in 1 .. Len(b) : g[k][at[k] + j] = b[j]
          BY <5>1, <5>2
        <5> QED BY <5>3 DEF b
      <4>4. ASSUME NEW j \in 1 .. Len(seqs[k]) PROVE F[at[k] + j] = seqs[k][j]
        <5>1. at[k] + j \in 1 .. Len(g[k])
          BY <4>3
        <5>2. g[k][at[k] + j] = seqs[k][j]
          BY <4>3
        <5> QED BY <2>8, <5>1, <5>2
      <4> QED BY <2>8, <3>1, <4>2, <4>3, <4>4
    <3> QED BY <3>2, <3>3
  <2> HIDE DEF at
  <2> HIDE DEF at
  <2>13. FilesBegin(seqs, at)
    BY <2>10, <2>11, <2>12 DEF FilesBegin, F
  <2> QED BY <2>9, <2>13 DEF F
<1> QED BY <1>1, <1>2

-----------------------------------------------------------------------------
\* What a list of indices that are without a vector has.
LEMMA MissingAll ==
  ASSUME NEW values, IsFiniteSet(DOMAIN values), DOMAIN values \subseteq Nat,
         NEW i \in DOMAIN values, values[i] = Uncached
  PROVE  \E k \in DOMAIN Missing(values) : Missing(values)[k] = i
<1> DEFINE S == {j \in DOMAIN values : values[j] = Uncached}
           UpTo(j) == {m \in S : m <= j}
<1>1. IsFiniteSet(S) /\ S \subseteq Nat /\ i \in S
  BY FS_Subset
<1>2. Missing(values) = [k \in 1 .. Cardinality(S) |->
                            CHOOSE j \in S : Cardinality(UpTo(j)) = k]
  BY DEF Missing
<1> HIDE DEF S
<1>3. ASSUME NEW j \in S
      PROVE  /\ IsFiniteSet(UpTo(j)) /\ Cardinality(UpTo(j)) \in Nat
             /\ Cardinality(UpTo(j)) <= Cardinality(S)
  <2>1. UpTo(j) \in SUBSET S
    OBVIOUS
  <2> QED BY <1>1, <2>1, FS_Subset, FS_CardinalityType
<1>4. ASSUME NEW j \in S, NEW m \in S, j < m
      PROVE  Cardinality(UpTo(j)) # Cardinality(UpTo(m))
  <2>1. UpTo(j) \in SUBSET UpTo(m) /\ m \in UpTo(m) /\ m \notin UpTo(j)
    <3>1. j \in Nat /\ m \in Nat /\ S \subseteq Nat
      BY <1>1
    <3>2. \A l \in S : l <= j => l <= m
      BY <1>4, <3>1
    <3>3. m <= m /\ ~(m <= j)
      BY <1>4, <3>1
    <3> QED BY <3>2, <3>3
  <2> HIDE DEF UpTo
  <2> QED BY <1>3, <2>1, FS_Subset
<1> DEFINE n == Cardinality(UpTo(i))
<1>5. n \in 1 .. Cardinality(S)
  <2>1. UpTo(i) # {}
    BY <1>1
  <2>2. n # 0
    BY <1>1, <1>3, <2>1, FS_EmptySet
  <2>3. Cardinality(S) \in Nat
    BY <1>1, FS_CardinalityType
  <2> HIDE DEF UpTo
  <2> QED BY <1>1, <1>3, <2>2, <2>3
<1> HIDE DEF UpTo
<1>6. \A j \in S : Cardinality(UpTo(j)) = n => j = i
  <2> SUFFICES ASSUME NEW j \in S, Cardinality(UpTo(j)) = n, j # i PROVE FALSE
    OBVIOUS
  <2>1. j < i \/ i < j
    BY <1>1
  <2> QED BY <1>1, <1>4, <2>1
<1>7. (CHOOSE j \in S : Cardinality(UpTo(j)) = n) = i
  BY <1>1, <1>6
<1> HIDE DEF n
<1>8. n \in DOMAIN Missing(values) /\ Missing(values)[n] = i
  BY <1>2, <1>5, <1>7
<1> QED BY <1>8

LEMMA MissingNone ==
  ASSUME NEW values, IsFiniteSet(DOMAIN values), DOMAIN values \subseteq Nat,
         Missing(values) = <<>>, NEW i \in DOMAIN values
  PROVE  values[i] # Uncached
<1> SUFFICES ASSUME values[i] = Uncached PROVE FALSE
  OBVIOUS
<1>1. PICK k \in DOMAIN Missing(values) : TRUE
  BY MissingAll
<1> QED BY <1>1

-----------------------------------------------------------------------------
AllHashes == UNION {Range(ChunksOf[f]) : f \in DOMAIN ChunksOf}

\* Where the chunks of each file of a window begin.
BeginsAt(w, at) ==
  /\ at \in [1 .. Len(FilesOf[w]) + 1 -> Nat]
  /\ at[1] = 0
  /\ \A k \in 1 .. Len(FilesOf[w]) :
       /\ at[k + 1] = at[k] + Len(ChunksOf[FilesOf[w][k]])
       /\ at[k + 1] <= Len(ChunksIn(w))
       /\ \A j \in 1 .. Len(ChunksOf[FilesOf[w][k]]) :
            ChunksIn(w)[at[k] + j] = ChunksOf[FilesOf[w][k]][j]
BeginOf(w) == CHOOSE at : BeginsAt(w, at)

\* The chunks of files and windows are what the constants say.
LEMMA ChunksTyped ==
  /\ \A f \in DOMAIN ChunksOf : ChunksOf[f] \in Seq(AllHashes)
  /\ Uncached \notin AllHashes
<1>1. ASSUME NEW f \in DOMAIN ChunksOf
      PROVE  ChunksOf[f] \in Seq(AllHashes) /\ Uncached \notin Range(ChunksOf[f])
  <2>1. ChunksOf[f] \in Seq(Range(ChunksOf[f]) \ {Uncached})
    BY ChunksAssumption
  <2>2. DOMAIN ChunksOf[f] = 1 .. Len(ChunksOf[f]) /\ Len(ChunksOf[f]) \in Nat
        /\ \A i \in DOMAIN ChunksOf[f] : ChunksOf[f][i] \in Range(ChunksOf[f]) \ {Uncached}
    BY <2>1
  <2>3. Range(ChunksOf[f]) \subseteq AllHashes
    BY DEF AllHashes
  <2>4. Uncached \notin Range(ChunksOf[f])
    BY <2>2 DEF Range
  <2>5. ChunksOf[f] \in Seq(AllHashes)
    BY <2>1, <2>2, <2>3
  <2> QED BY <2>4, <2>5
<1>2. Uncached \notin AllHashes
  BY <1>1 DEF AllHashes
<1> QED BY <1>1, <1>2

LEMMA ChunksLaidOut ==
  ASSUME NEW w \in Windows
  PROVE  /\ ChunksIn(w) \in Seq(AllHashes)
         /\ BeginsAt(w, BeginOf(w))
         /\ FilesOf[w] \in Seq(DOMAIN ChunksOf)
<1> DEFINE parts == [i \in DOMAIN FilesOf[w] |-> ChunksOf[FilesOf[w][i]]]
<1>1. FilesOf[w] \in Seq(DOMAIN ChunksOf)
  BY ChunksAssumption
<1>2. DOMAIN FilesOf[w] = 1 .. Len(FilesOf[w]) /\ Len(FilesOf[w]) \in Nat
      /\ \A i \in DOMAIN FilesOf[w] : FilesOf[w][i] \in DOMAIN ChunksOf
  BY <1>1
<1>3. \A i \in 1 .. Len(FilesOf[w]) : ChunksOf[FilesOf[w][i]] \in Seq(AllHashes)
  BY <1>2, ChunksTyped
<1>4. parts \in Seq(Seq(AllHashes)) /\ Len(parts) = Len(FilesOf[w])
      /\ \A i \in 1 .. Len(FilesOf[w]) : parts[i] = ChunksOf[FilesOf[w][i]]
  BY <1>2, <1>3
<1>5. ChunksIn(w) = FlattenSeq(parts)
  BY DEF ChunksIn
<1> HIDE DEF parts
<1>6. FlattenSeq(parts) \in Seq(AllHashes) /\ \E at : FilesBegin(parts, at)
  BY <1>4, FlattenSlices
<1>7. PICK at : FilesBegin(parts, at)
  BY <1>6
<1>8. BeginsAt(w, at)
  <2>1. at \in [1 .. Len(FilesOf[w]) + 1 -> Nat] /\ at[1] = 0
    BY <1>4, <1>7 DEF FilesBegin
  <2>2. ASSUME NEW k \in 1 .. Len(FilesOf[w])
        PROVE  /\ at[k + 1] = at[k] + Len(ChunksOf[FilesOf[w][k]])
               /\ at[k + 1] <= Len(ChunksIn(w))
               /\ \A j \in 1 .. Len(ChunksOf[FilesOf[w][k]]) :
                    ChunksIn(w)[at[k] + j] = ChunksOf[FilesOf[w][k]][j]
    <3>1. parts[k] = ChunksOf[FilesOf[w][k]] /\ k \in 1 .. Len(parts)
      BY <1>4
    <3> QED BY <1>5, <1>7, <3>1 DEF FilesBegin
  <2> QED BY <2>1, <2>2 DEF BeginsAt
<1>9. BeginsAt(w, BeginOf(w))
  BY <1>8 DEF BeginOf
<1> QED BY <1>1, <1>5, <1>6, <1>9

\* A vector is that of its chunk or still missing, alike for chunks of one text.
ValuesFit(w, values) ==
  /\ values = [i \in 1 .. Len(ChunksIn(w)) |-> values[i]]
  /\ \A i \in 1 .. Len(ChunksIn(w)) : values[i] \in {ChunksIn(w)[i], Uncached}
  /\ \A i, j \in 1 .. Len(ChunksIn(w)) :
       ChunksIn(w)[i] = ChunksIn(w)[j] => values[i] = values[j]

Complete(w, values) == \A i \in 1 .. Len(ChunksIn(w)) : values[i] # Uncached

WindowFits(w) ==
  /\ window[w].next \in 1 .. Len(FilesOf[w]) + 1
  /\ window[w].offset = BeginOf(w)[window[w].next]
  /\ window[w].step = "new" \/ ValuesFit(w, window[w].vectors)
  /\ window[w].step \in {"writing", "done"} =>
       window[w].error = "exhausted" \/ Complete(w, window[w].vectors)
  /\ window[w].step = "done" => window[w].next > Len(FilesOf[w]) \/ stopping
  /\ \A k \in 1 .. window[w].next - 1 :
       FilesOf[w][k] \in queued \/ written[FilesOf[w][k]] # <<>>

QueuedFor(f, w) ==
  /\ f \in Range(FilesOf[w])
  /\ window[w].step \in {"writing", "done"} /\ window[w].error = "exhausted"
  /\ ~(Range(ChunksOf[f]) \subseteq Range(window[w].vectors))

WrittenWhole ==
  /\ written = [f \in DOMAIN ChunksOf |-> written[f]]
  /\ FilesGetTheirVectors

KeepInv ==
  /\ OllamaInv
  /\ \A w \in Windows : WindowFits(w)
  /\ \A f \in queued : \E w \in Windows : QueuedFor(f, w)
  /\ WrittenWhole

LEMMA KeepInitially == EmbeddingInit => KeepInv
<1> SUFFICES ASSUME EmbeddingInit PROVE KeepInv
  OBVIOUS
<1>1. OllamaInv
  BY OllamaInitially
<1>2. ASSUME NEW w \in Windows PROVE WindowFits(w)
  <2>1. BeginOf(w)[1] = 0 /\ Len(FilesOf[w]) \in Nat
    BY ChunksLaidOut DEF BeginsAt
  <2>2. window[w].step = "new" /\ window[w].next = 1 /\ window[w].offset = 0
    BY DEF EmbeddingInit
  <2> QED BY <2>1, <2>2 DEF WindowFits
<1>3. WrittenWhole
  BY DEF EmbeddingInit, WrittenWhole, FilesGetTheirVectors
<1>4. queued = {}
  BY DEF EmbeddingInit
<1> QED BY <1>1, <1>2, <1>3, <1>4 DEF KeepInv

\* One window moves and keeps what a queued file was queued for.
LEMMA KeepMoves ==
  ASSUME KeepInv, OllamaInv', NEW w \in Windows,
         \A v \in Windows \ {w} : window'[v] = window[v],
         WindowFits(w)',
         queued \subseteq queued', stopping => stopping',
         \A f \in DOMAIN ChunksOf : written[f] # <<>> => written'[f] # <<>>,
         \A f : QueuedFor(f, w) => QueuedFor(f, w)',
         \A f \in queued' \ queued : QueuedFor(f, w)',
         WrittenWhole'
  PROVE  KeepInv'
<1>1. ASSUME NEW v \in Windows \ {w} PROVE WindowFits(v)'
  <2>1. window'[v] = window[v] /\ WindowFits(v)
    BY <1>1 DEF KeepInv
  <2>2. FilesOf[v] \in Seq(DOMAIN ChunksOf)
    BY ChunksLaidOut
  <2>3. \A k \in 1 .. Len(FilesOf[v]) : FilesOf[v][k] \in DOMAIN ChunksOf
    BY <2>2
  <2>4. window[v].next \in 1 .. Len(FilesOf[v]) + 1 /\ Len(FilesOf[v]) \in Nat
    BY <2>1, <2>2 DEF WindowFits
  <2>5. \A k \in 1 .. window[v].next - 1 : k \in 1 .. Len(FilesOf[v])
    BY <2>4
  <2>6. \A k \in 1 .. window[v].next - 1 :
          FilesOf[v][k] \in queued' \/ written'[FilesOf[v][k]] # <<>>
    BY <2>1, <2>3, <2>5 DEF WindowFits
  <2> QED BY <2>1, <2>6 DEF WindowFits
<1>2. ASSUME NEW f \in queued' PROVE \E v \in Windows : QueuedFor(f, v)'
  <2>1. CASE f \in queued
    <3>1. PICK v \in Windows : QueuedFor(f, v)
      BY <2>1 DEF KeepInv
    <3>2. QueuedFor(f, v)'
      <4>1. CASE v = w
        BY <3>1, <4>1
      <4>2. CASE v # w
        BY <3>1, <4>2 DEF QueuedFor
      <4> QED BY <4>1, <4>2
    <3> QED BY <3>2
  <2>2. CASE f \notin queued
    BY <1>2, <2>2
  <2> QED BY <2>1, <2>2
<1> QED BY <1>1, <1>2 DEF KeepInv

LEMMA SliceIs ==
  ASSUME NEW w \in Windows, WindowFits(w), window[w].step = "writing",
         window[w].next <= Len(FilesOf[w]), NEW n, n = Len(ChunksOf[Current(w)])
  PROVE  /\ Current(w) \in DOMAIN ChunksOf /\ Current(w) = FilesOf[w][window[w].next]
         /\ Current(w) \in Range(FilesOf[w])
         /\ n \in Nat /\ ChunksOf[Current(w)] \in Seq(AllHashes)
         /\ window[w].offset \in Nat
         /\ window[w].next + 1 \in 1 .. Len(FilesOf[w]) + 1
         /\ window[w].offset + n = BeginOf(w)[window[w].next + 1]
         /\ Slice(w) = [j \in 1 .. n |-> window[w].vectors[window[w].offset + j]]
         /\ \A j \in 1 .. n :
              /\ window[w].offset + j \in 1 .. Len(ChunksIn(w))
              /\ ChunksIn(w)[window[w].offset + j] = ChunksOf[Current(w)][j]
<1> DEFINE k == window[w].next
           off == window[w].offset
           values == window[w].vectors
           m == Len(ChunksIn(w))
<1>1. FilesOf[w] \in Seq(DOMAIN ChunksOf) /\ BeginsAt(w, BeginOf(w)) /\ ChunksIn(w) \in Seq(AllHashes)
  BY ChunksLaidOut
<1>2. k \in 1 .. Len(FilesOf[w]) /\ off = BeginOf(w)[k] /\ Len(FilesOf[w]) \in Nat
  BY <1>1 DEF WindowFits
<1>3. Current(w) = FilesOf[w][k]
  BY DEF Current
<1>4. Current(w) \in DOMAIN ChunksOf /\ Current(w) \in Range(FilesOf[w])
  BY <1>1, <1>2, <1>3 DEF Range
<1>5. ChunksOf[Current(w)] \in Seq(AllHashes) /\ n \in Nat
  BY <1>4, ChunksTyped
<1>6. off \in Nat /\ m \in Nat
  BY <1>1, <1>2 DEF BeginsAt
<1>7. /\ BeginOf(w)[k + 1] = off + n /\ off + n <= m
      /\ \A j \in 1 .. n : ChunksIn(w)[off + j] = ChunksOf[Current(w)][j]
  BY <1>1, <1>2, <1>3 DEF BeginsAt
<1>8. values = [i \in 1 .. m |-> values[i]]
  BY DEF WindowFits, ValuesFit
<1>9. Slice(w) = SubSeq(values, off + 1, off + n)
  BY DEF Slice
<1> HIDE DEF k, off, values, m
<1>10. \A j \in 1 .. n : off + j \in 1 .. m
  BY <1>5, <1>6, <1>7
<1>11. values \in Seq({values[i] : i \in 1 .. m}) /\ Len(values) = m
  BY <1>6, <1>8
<1>12. Slice(w) = [j \in 1 .. n |-> values[off + j]]
  BY <1>5, <1>6, <1>7, <1>9, <1>11
<1>13. k + 1 \in 1 .. Len(FilesOf[w]) + 1
  BY <1>2
<1> QED BY <1>3, <1>4, <1>5, <1>6, <1>7, <1>10, <1>12, <1>13 DEF k, off, values, m

LEMMA WindowBecomes ==
  ASSUME WindowsOK, NEW w \in Windows, NEW r, window' = [window EXCEPT ![w] = r]
  PROVE  window'[w] = r /\ \A v \in Windows \ {w} : window'[v] = window[v]
  BY DEF WindowsOK

\* The fields of a window after a step.
LEMMA WindowFields ==
  ASSUME NEW v, WindowOK(v), NEW step, NEW values, NEW next, NEW offset
  PROVE  /\ [v EXCEPT !.step = step].step = step
         /\ [v EXCEPT !.step = step].vectors = v.vectors
         /\ [v EXCEPT !.step = step].error = v.error
         /\ [v EXCEPT !.step = step].next = v.next
         /\ [v EXCEPT !.step = step].offset = v.offset
         /\ [v EXCEPT !.step = step, !.vectors = values].step = step
         /\ [v EXCEPT !.step = step, !.vectors = values].vectors = values
         /\ [v EXCEPT !.step = step, !.vectors = values].error = v.error
         /\ [v EXCEPT !.step = step, !.vectors = values].next = v.next
         /\ [v EXCEPT !.step = step, !.vectors = values].offset = v.offset
         /\ [v EXCEPT !.next = next, !.offset = offset].step = v.step
         /\ [v EXCEPT !.next = next, !.offset = offset].vectors = v.vectors
         /\ [v EXCEPT !.next = next, !.offset = offset].error = v.error
         /\ [v EXCEPT !.next = next, !.offset = offset].next = next
         /\ [v EXCEPT !.next = next, !.offset = offset].offset = offset
<1>1. DOMAIN v = {"step", "vectors", "error", "next", "offset"}
  BY DEF WindowOK
<1> QED BY <1>1

\* A step of a window that writes and queues nothing.
LEMMA KeepStays ==
  ASSUME KeepInv, OllamaInv', NEW w \in Windows, NEW r, window' = [window EXCEPT ![w] = r],
         r.next = window[w].next, r.offset = window[w].offset, r.error = window[w].error,
         r.step # "new" => ValuesFit(w, r.vectors),
         r.step \in {"writing", "done"} => r.error = "exhausted" \/ Complete(w, r.vectors),
         r.step = "done" => r.next > Len(FilesOf[w]) \/ stopping,
         window[w].step \in {"writing", "done"} =>
           r.step \in {"writing", "done"} /\ r.vectors = window[w].vectors,
         UNCHANGED <<stopping, written, queued>>
  PROVE  KeepInv'
<1>1. window'[w] = r /\ \A v \in Windows \ {w} : window'[v] = window[v]
  BY WindowBecomes DEF KeepInv, OllamaInv
<1>2. ChunksIn(w)' = ChunksIn(w) /\ BeginOf(w)' = BeginOf(w)
  BY DEF ChunksIn, BeginOf, BeginsAt
<1>3. WindowFits(w)
  BY DEF KeepInv
<1>4. ValuesFit(w, r.vectors)' <=> ValuesFit(w, r.vectors)
  BY DEF ValuesFit
<1>5. WindowFits(w)'
  BY <1>1, <1>3 DEF WindowFits
<1>6. \A f : QueuedFor(f, w) => QueuedFor(f, w)'
  BY <1>1 DEF QueuedFor
<1>7. WrittenWhole'
  BY DEF KeepInv, WrittenWhole, FilesGetTheirVectors
<1> QED BY <1>1, <1>5, <1>6, <1>7, KeepMoves

LEMMA ValuesIndexed ==
  ASSUME NEW w \in Windows, NEW values, ValuesFit(w, values)
  PROVE  /\ DOMAIN values = 1 .. Len(ChunksIn(w)) /\ Len(ChunksIn(w)) \in Nat
         /\ IsFiniteSet(DOMAIN values) /\ DOMAIN values \subseteq Nat
         /\ DOMAIN ChunksIn(w) = 1 .. Len(ChunksIn(w))
         /\ \A i \in 1 .. Len(ChunksIn(w)) : ChunksIn(w)[i] \in AllHashes
         /\ \A i \in 1 .. Len(ChunksIn(w)) : ChunksIn(w)[i] # Uncached
<1>1. ChunksIn(w) \in Seq(AllHashes)
  BY ChunksLaidOut
<1>2. Len(ChunksIn(w)) \in Nat
  BY <1>1
<1>3. DOMAIN values = 1 .. Len(ChunksIn(w))
  BY DEF ValuesFit
<1>4. IsFiniteSet(1 .. Len(ChunksIn(w)))
  BY <1>2, FS_Interval
<1> QED BY <1>1, <1>2, <1>3, <1>4, ChunksTyped

\* The caches know vectors by the hash of the text.
LEMMA LookupsKeep ==
  ASSUME KeepInv, OllamaInv', NEW w \in Windows,
         ReadsMemoryCache(w) \/ ReadsStoredCache(w)
  PROVE  KeepInv'
<1>0. WindowsOK /\ WindowOK(window[w]) /\ WindowFits(w)
  BY DEF KeepInv, OllamaInv, WindowsOK
<1>00. DOMAIN ChunksIn(w) = 1 .. Len(ChunksIn(w))
  <2>1. ChunksIn(w) \in Seq(AllHashes)
    BY ChunksLaidOut
  <2> QED BY <2>1
<1>1. CASE ReadsMemoryCache(w)
  <2> DEFINE values == [i \in DOMAIN ChunksIn(w) |->
                          IF Contains(memoryCache, ChunksIn(w)[i]) THEN ChunksIn(w)[i]
                          ELSE Uncached]
             r == [window[w] EXCEPT !.step = "lookup", !.vectors = values]
  <2>1. window' = [window EXCEPT ![w] = r] /\ window[w].step = "new"
        /\ UNCHANGED <<stopping, written, queued>>
    BY <1>1 DEF ReadsMemoryCache
  <2>2. ValuesFit(w, values)
    BY <1>00 DEF ValuesFit
  <2> HIDE DEF values
  <2>3. r.step = "lookup" /\ r.vectors = values /\ r.error = window[w].error
        /\ r.next = window[w].next /\ r.offset = window[w].offset
    BY <1>0, WindowFields
  <2> HIDE DEF r
  <2> QED BY <2>1, <2>2, <2>3, KeepStays
<1>2. CASE ReadsStoredCache(w)
  <2> DEFINE values == [i \in DOMAIN window[w].vectors |->
                          IF ChunksIn(w)[i] \in storedCache THEN ChunksIn(w)[i]
                          ELSE window[w].vectors[i]]
             step == IF Missing(values) = <<>> THEN "writing"
                     ELSE IF provider = "ollama" THEN "locking" ELSE "embedding"
             r == [window[w] EXCEPT !.step = step, !.vectors = values]
  <2>1. window[w].step = "lookup" /\ UNCHANGED <<stopping, written, queued>>
    BY <1>2 DEF ReadsStoredCache
  <2>2. window' = [window EXCEPT ![w].vectors = values, ![w].step = step]
    BY <1>2 DEF ReadsStoredCache
  <2>3. ValuesFit(w, window[w].vectors)
    BY <1>0, <2>1 DEF WindowFits
  <2>4. ValuesFit(w, values)
    BY <2>3 DEF ValuesFit
  <2> HIDE DEF values
  <2>5. step = "writing" => Complete(w, values)
    BY <2>4, ValuesIndexed, MissingNone DEF Complete
  <2>6. step \in {"writing", "locking", "embedding"}
    OBVIOUS
  <2> HIDE DEF step
  <2>7. window' = [window EXCEPT ![w] = r]
    BY <1>0, <2>2 DEF WindowsOK
  <2>8. r.step = step /\ r.vectors = values /\ r.error = window[w].error
        /\ r.next = window[w].next /\ r.offset = window[w].offset
    BY <1>0, WindowFields
  <2> HIDE DEF r
  <2> QED BY <2>1, <2>4, <2>5, <2>6, <2>7, <2>8, KeepStays
<1> QED BY <1>1, <1>2

LEMMA StepsKeep ==
  ASSUME KeepInv, OllamaInv', NEW w \in Windows,
         Locks(w) \/ GivesUpLock(w) \/ Settles(w) \/ Ends(w)
  PROVE  KeepInv'
<1>0. WindowsOK /\ WindowOK(window[w]) /\ WindowFits(w)
  BY DEF KeepInv, OllamaInv, WindowsOK
<1>1. ASSUME NEW step \in {"embedding", "thrown", "caching", "writing", "done"},
             window' = [window EXCEPT ![w].step = step],
             window[w].step # "new", window[w].step = "writing" => step = "done",
             window[w].step # "done",
             step \in {"writing", "done"} =>
               window[w].error = "exhausted" \/ Complete(w, window[w].vectors),
             step = "done" => window[w].next > Len(FilesOf[w]) \/ stopping,
             UNCHANGED <<stopping, written, queued>>
      PROVE  KeepInv'
  <2> DEFINE r == [window[w] EXCEPT !.step = step]
  <2>1. window' = [window EXCEPT ![w] = r]
    BY <1>0, <1>1 DEF WindowsOK
  <2>2. r.step = step /\ r.vectors = window[w].vectors /\ r.error = window[w].error
        /\ r.next = window[w].next /\ r.offset = window[w].offset
    BY <1>0, WindowFields
  <2> HIDE DEF r
  <2>3. ValuesFit(w, window[w].vectors)
    BY <1>0, <1>1 DEF WindowFits
  <2> QED BY <1>1, <2>1, <2>2, <2>3, KeepStays
<1>2. CASE Locks(w)
  <2>1. window' = [window EXCEPT ![w].step = "embedding"] /\ window[w].step = "locking"
        /\ UNCHANGED <<stopping, written, queued>>
    BY <1>2 DEF Locks
  <2> QED BY <1>1, <2>1
<1>3. CASE GivesUpLock(w)
  <2>1. window' = [window EXCEPT ![w].step = "thrown"] /\ window[w].step = "locking"
        /\ UNCHANGED <<stopping, written, queued>>
    BY <1>3 DEF GivesUpLock
  <2> QED BY <1>1, <2>1
<1>4. CASE Settles(w)
  <2>1. window[w].step = "embedding" /\ UNCHANGED <<stopping, written, queued>>
    BY <1>4 DEF Settles
  <2>2. PICK step \in {"caching", "writing", "thrown"} :
          /\ window' = [window EXCEPT ![w].step = step]
          /\ step = "writing" => window[w].error = "exhausted"
    BY <1>4 DEF Settles
  <2> QED BY <1>1, <2>1, <2>2
<1>5. CASE Ends(w)
  <2>1. window' = [window EXCEPT ![w].step = "done"] /\ window[w].step = "writing"
        /\ UNCHANGED <<stopping, written, queued>>
        /\ (window[w].next > Len(FilesOf[w]) \/ stopping)
    BY <1>5 DEF Ends, WriteFrame
  <2>2. window[w].error = "exhausted" \/ Complete(w, window[w].vectors)
    BY <1>0, <2>1 DEF WindowFits
  <2> QED BY <1>1, <2>1, <2>2
<1> QED BY <1>2, <1>3, <1>4, <1>5

\* What came back is put where it was missing.
LEMMA CachingKeeps ==
  ASSUME KeepInv, OllamaInv', NEW w \in Windows, Caches(w)
  PROVE  KeepInv'
<1> DEFINE indices == Missing(window[w].vectors)
           back == HashesAt(w, indices)
           values == [i \in DOMAIN window[w].vectors |->
                        IF window[w].vectors[i] = Uncached
                        THEN back[CHOOSE k \in DOMAIN indices : indices[k] = i]
                        ELSE window[w].vectors[i]]
<1>0. WindowsOK /\ WindowOK(window[w]) /\ WindowFits(w)
  BY DEF KeepInv, OllamaInv, WindowsOK
<1>1. window[w].step = "caching" /\ UNCHANGED <<stopping, written, queued>>
  BY DEF Caches
<1>2. ValuesFit(w, window[w].vectors)
  BY <1>0, <1>1 DEF WindowFits
<1>3. DOMAIN window[w].vectors = 1 .. Len(ChunksIn(w))
      /\ IsFiniteSet(DOMAIN window[w].vectors) /\ DOMAIN window[w].vectors \subseteq Nat
      /\ \A i \in 1 .. Len(ChunksIn(w)) : ChunksIn(w)[i] # Uncached
  BY <1>2, ValuesIndexed
<1>4. ASSUME NEW i \in 1 .. Len(ChunksIn(w)) PROVE values[i] = ChunksIn(w)[i]
  <2>1. CASE window[w].vectors[i] = Uncached
    <3>1. \E k \in DOMAIN indices : indices[k] = i
      BY <1>3, <2>1, MissingAll
    <3>2. PICK k : k \in DOMAIN indices /\ indices[k] = i
                   /\ k = CHOOSE l \in DOMAIN indices : indices[l] = i
      BY <3>1
    <3>3. back[k] = ChunksIn(w)[i]
      BY <3>2 DEF HashesAt
    <3>4. values[i] = back[k]
      BY <1>3, <2>1, <3>2
    <3> QED BY <3>3, <3>4
  <2>2. CASE window[w].vectors[i] # Uncached
    <3>1. values[i] = window[w].vectors[i]
      BY <1>3, <2>2
    <3> QED BY <1>2, <2>2, <3>1 DEF ValuesFit
  <2> QED BY <2>1, <2>2
<1>5. values = [i \in 1 .. Len(ChunksIn(w)) |-> values[i]]
  BY <1>3
<1>6. \/ window' = [window EXCEPT ![w].step = "writing", ![w].vectors = values]
      \/ window' = [window EXCEPT ![w].step = "thrown"]
  BY DEF Caches
<1> HIDE DEF values
<1>7. ValuesFit(w, values) /\ Complete(w, values)
  BY <1>3, <1>4, <1>5 DEF ValuesFit, Complete
<1>8. CASE window' = [window EXCEPT ![w].step = "writing", ![w].vectors = values]
  <2> DEFINE r == [window[w] EXCEPT !.step = "writing", !.vectors = values]
  <2>1. window' = [window EXCEPT ![w] = r]
    BY <1>0, <1>8 DEF WindowsOK
  <2>2. r.step = "writing" /\ r.vectors = values /\ r.error = window[w].error
        /\ r.next = window[w].next /\ r.offset = window[w].offset
    BY <1>0, WindowFields
  <2> HIDE DEF r
  <2> QED BY <1>1, <1>7, <2>1, <2>2, KeepStays
<1>9. CASE window' = [window EXCEPT ![w].step = "thrown"]
  <2> DEFINE r == [window[w] EXCEPT !.step = "thrown"]
  <2>1. window' = [window EXCEPT ![w] = r]
    BY <1>0, <1>9 DEF WindowsOK
  <2>2. r.step = "thrown" /\ r.vectors = window[w].vectors /\ r.error = window[w].error
        /\ r.next = window[w].next /\ r.offset = window[w].offset
    BY <1>0, WindowFields
  <2> HIDE DEF r
  <2> QED BY <1>1, <1>2, <2>1, <2>2, KeepStays
<1> QED BY <1>6, <1>8, <1>9

\* Stage 3: the next file is queued or written, whole.
LEMMA FilesKeep ==
  ASSUME KeepInv, OllamaInv', NEW w \in Windows, QueuesFile(w) \/ WritesFile(w)
  PROVE  KeepInv'
<1>0. WindowsOK /\ WindowOK(window[w]) /\ WindowFits(w)
  BY DEF KeepInv, OllamaInv, WindowsOK
<1>f. PICK f, n, off, next, values :
        /\ f = Current(w) /\ n = Len(ChunksOf[f])
        /\ off = window[w].offset /\ next = window[w].next /\ values = window[w].vectors
  OBVIOUS
<1> DEFINE r == [window[w] EXCEPT !.next = next + 1, !.offset = off + n]
<1>1. window[w].step = "writing" /\ next <= Len(FilesOf[w]) /\ UNCHANGED stopping
  BY <1>f DEF QueuesFile, WritesFile, Writing, WriteFrame
<1>2. /\ f \in DOMAIN ChunksOf /\ f = FilesOf[w][next] /\ f \in Range(FilesOf[w])
      /\ n \in Nat /\ ChunksOf[f] \in Seq(AllHashes) /\ off \in Nat
      /\ next + 1 \in 1 .. Len(FilesOf[w]) + 1
      /\ off + n = BeginOf(w)[next + 1]
      /\ Slice(w) = [j \in 1 .. n |-> values[off + j]]
      /\ \A j \in 1 .. n : /\ off + j \in 1 .. Len(ChunksIn(w))
                           /\ ChunksIn(w)[off + j] = ChunksOf[f][j]
  BY <1>0, <1>1, <1>f, SliceIs
<1>3. window' = [window EXCEPT ![w] = r]
  <2>1. window' = [window EXCEPT ![w].next = @ + 1, ![w].offset = @ + n]
    BY <1>f DEF QueuesFile, WritesFile
  <2> QED BY <1>0, <1>f, <2>1 DEF WindowsOK
<1>4. r.step = "writing" /\ r.vectors = values /\ r.error = window[w].error
      /\ r.next = next + 1 /\ r.offset = off + n
  BY <1>0, <1>1, <1>f, WindowFields
<1> HIDE DEF r
<1>5. window'[w] = r /\ \A v \in Windows \ {w} : window'[v] = window[v]
  BY <1>0, <1>3, WindowBecomes
<1>6. ValuesFit(w, values)
  BY <1>0, <1>1, <1>f DEF WindowFits
<1>7. \A g : QueuedFor(g, w) => QueuedFor(g, w)'
  BY <1>1, <1>4, <1>5, <1>f DEF QueuedFor
<1>8. next \in Nat /\ Len(FilesOf[w]) \in Nat
      /\ \A k \in 1 .. Len(FilesOf[w]) : FilesOf[w][k] \in DOMAIN ChunksOf
  <2>1. FilesOf[w] \in Seq(DOMAIN ChunksOf)
    BY ChunksLaidOut
  <2> QED BY <1>0, <1>f, <2>1 DEF WindowFits
<1>9. ASSUME f \in queued' \/ written'[f] # <<>>,
             queued \subseteq queued', \A g \in DOMAIN ChunksOf : written[g] # <<>> => written'[g] # <<>>
      PROVE  WindowFits(w)'
  <2>1. ASSUME NEW k \in 1 .. next PROVE FilesOf[w][k] \in queued' \/ written'[FilesOf[w][k]] # <<>>
    <3>1. CASE k = next
      BY <1>2, <1>9, <3>1
    <3>2. CASE k # next
      <4>1. k \in 1 .. next - 1 /\ FilesOf[w][k] \in DOMAIN ChunksOf
        BY <1>1, <1>8, <3>2
      <4>2. FilesOf[w][k] \in queued \/ written[FilesOf[w][k]] # <<>>
        BY <1>0, <1>f, <4>1 DEF WindowFits
      <4> QED BY <1>9, <4>1, <4>2
    <3> QED BY <3>1, <3>2
  <2>2. (next + 1) - 1 = next
    BY <1>8
  <2>3. window[w].error = "exhausted" \/ Complete(w, values)
    BY <1>0, <1>1, <1>f DEF WindowFits
  <2>4. /\ window'[w].next = next + 1 /\ window'[w].offset = BeginOf(w)[next + 1]
        /\ window'[w].vectors = values /\ window'[w].error = window[w].error
        /\ window'[w].step = "writing"
    BY <1>2, <1>4, <1>5
  <2>5. window'[w].next \in 1 .. Len(FilesOf[w]) + 1
    BY <1>2, <2>4
  <2>6. \A k \in 1 .. window'[w].next - 1 :
          FilesOf[w][k] \in queued' \/ written'[FilesOf[w][k]] # <<>>
    BY <2>1, <2>2, <2>4
  <2> QED BY <1>6, <2>3, <2>4, <2>5, <2>6 DEF WindowFits
<1>10. CASE QueuesFile(w)
  <2>1. queued' = queued \cup {f} /\ UNCHANGED written /\ Uncached \in Range(Slice(w))
    BY <1>10, <1>f DEF QueuesFile
  <2>2. PICK j \in 1 .. n : values[off + j] = Uncached
    BY <1>2, <2>1 DEF Range
  <2>3. off + j \in 1 .. Len(ChunksIn(w)) /\ ChunksIn(w)[off + j] = ChunksOf[f][j]
    BY <1>2
  <2>4. /\ DOMAIN values = 1 .. Len(ChunksIn(w))
        /\ \A i \in 1 .. Len(ChunksIn(w)) : ChunksIn(w)[i] # Uncached
    BY <1>6, ValuesIndexed
  <2>5. window[w].error = "exhausted"
    BY <1>0, <1>1, <1>f, <2>2, <2>3 DEF WindowFits, Complete
  <2>6. ChunksOf[f][j] \in Range(ChunksOf[f])
    <3>1. DOMAIN ChunksOf[f] = 1 .. n
      BY <1>2, <1>f
    <3> QED BY <3>1 DEF Range
  <2>7. ChunksOf[f][j] \notin Range(values)
    <3> SUFFICES ASSUME NEW i \in 1 .. Len(ChunksIn(w)), values[i] = ChunksOf[f][j] PROVE FALSE
      BY <2>4 DEF Range
    <3>1. values[i] # Uncached
      BY <2>3, <2>4
    <3>2. values[i] = ChunksIn(w)[i]
      BY <1>6, <3>1 DEF ValuesFit
    <3>3. ChunksIn(w)[i] = ChunksIn(w)[off + j]
      BY <2>3, <3>2
    <3> QED BY <1>6, <2>2, <2>3, <3>1, <3>3 DEF ValuesFit
  <2>8. QueuedFor(f, w)'
    BY <1>2, <1>4, <1>5, <2>5, <2>6, <2>7 DEF QueuedFor
  <2>9. WindowFits(w)'
    BY <1>9, <2>1
  <2>10. WrittenWhole'
    BY <2>1 DEF KeepInv, WrittenWhole, FilesGetTheirVectors
  <2> QED BY <1>1, <1>5, <1>7, <2>1, <2>8, <2>9, <2>10, KeepMoves
<1>11. CASE WritesFile(w)
  <2>1. written' = [written EXCEPT ![f] = <<Slice(w)>>] /\ UNCHANGED queued
        /\ Uncached \notin Range(Slice(w))
    BY <1>11, <1>f DEF WritesFile
  <2>2. ASSUME NEW j \in 1 .. n PROVE values[off + j] = ChunksOf[f][j]
    <3>1. Slice(w)[j] = values[off + j] /\ j \in DOMAIN Slice(w)
      BY <1>2
    <3>2. values[off + j] # Uncached
      BY <2>1, <3>1 DEF Range
    <3>3. off + j \in 1 .. Len(ChunksIn(w)) /\ ChunksIn(w)[off + j] = ChunksOf[f][j]
      BY <1>2
    <3> QED BY <1>6, <3>2, <3>3 DEF ValuesFit
  <2>3. Slice(w) = ChunksOf[f]
    <3>1. ChunksOf[f] = [j \in 1 .. n |-> ChunksOf[f][j]]
      BY <1>2, <1>f
    <3>2. Slice(w) = [j \in 1 .. n |-> values[off + j]]
      BY <1>2
    <3> QED BY <2>2, <3>1, <3>2
  <2>4. WrittenWhole /\ written = [g \in DOMAIN ChunksOf |-> written[g]]
    BY DEF KeepInv, WrittenWhole
  <2>5. written'[f] = <<ChunksOf[f]>> 
        /\ \A g \in DOMAIN ChunksOf : g # f => written'[g] = written[g]
    BY <1>2, <2>1, <2>3, <2>4
  <2>6. WrittenWhole'
    <3>1. written' = [g \in DOMAIN ChunksOf |-> written'[g]]
      BY <2>1, <2>4
    <3>2. \A g \in DOMAIN ChunksOf : written'[g] \in {<<>>, <<ChunksOf[g]>>}
      BY <2>4, <2>5 DEF WrittenWhole, FilesGetTheirVectors
    <3> QED BY <3>1, <3>2 DEF WrittenWhole, FilesGetTheirVectors
  <2>7. \A g \in DOMAIN ChunksOf : written[g] # <<>> => written'[g] # <<>>
    BY <2>5
  <2>8. WindowFits(w)'
    BY <1>9, <2>1, <2>5, <2>7
  <2> QED BY <1>1, <1>5, <1>7, <2>1, <2>6, <2>7, <2>8, KeepMoves
<1> QED BY <1>10, <1>11

\* Windows and files stay as they are.
LEMMA KeepAside ==
  ASSUME KeepInv, OllamaInv', window' = window, stopping => stopping',
         UNCHANGED <<written, queued>>
  PROVE  KeepInv'
<1>1. ASSUME NEW w \in Windows PROVE WindowFits(w)'
  BY <1>1 DEF KeepInv, WindowFits
<1>2. ASSUME NEW f \in queued' PROVE \E w \in Windows : QueuedFor(f, w)'
  BY <1>2 DEF KeepInv, QueuedFor
<1>3. WrittenWhole'
  BY DEF KeepInv, WrittenWhole, FilesGetTheirVectors
<1> QED BY <1>1, <1>2, <1>3 DEF KeepInv

\* The invariant says what is to be shown.
LEMMA KeepMeans == KeepInv => WindowsKeepFiles
<1> SUFFICES ASSUME KeepInv PROVE WindowsKeepFiles
  OBVIOUS
<1>1. FilesGetTheirVectors
  BY DEF KeepInv, WrittenWhole
<1>2. ASSUME NEW w \in Windows, window[w].step = "done", ~stopping, NEW f \in Range(FilesOf[w])
      PROVE  f \in queued \/ written[f] # <<>>
  <2>1. FilesOf[w] \in Seq(DOMAIN ChunksOf)
    BY ChunksLaidOut
  <2>2. PICK k \in 1 .. Len(FilesOf[w]) : f = FilesOf[w][k]
    BY <2>1 DEF Range
  <2>3. WindowFits(w)
    BY DEF KeepInv
  <2>4. window[w].next > Len(FilesOf[w]) /\ window[w].next \in Nat /\ Len(FilesOf[w]) \in Nat
    BY <1>2, <2>1, <2>3 DEF WindowFits
  <2>5. k \in 1 .. window[w].next - 1
    BY <2>4
  <2> QED BY <2>2, <2>3, <2>5 DEF WindowFits
<1>3. \A f \in queued : \E w \in Windows : QueuedFor(f, w)
  BY DEF KeepInv
<1> QED BY <1>1, <1>2, <1>3 DEF WindowsKeepFiles, WindowsAccountForFiles, QueuedFor

\* A request step touches a window only by the error of its first batch.
LEMMA RequestsKeep ==
  ASSUME KeepInv, OllamaInv', NEW w \in Windows, RequestStep(w)
  PROVE  KeepInv'
<1>0. WindowsOK /\ WindowOK(window[w]) /\ WindowFits(w)
  BY DEF KeepInv, OllamaInv, WindowsOK
<1>1. PICK b \in DOMAIN requests[w] :
        \/ Sends(w, b) \/ Answers(w, b) \/ FailsForNow(w, b) \/ FailsForGood(w, b)
        \/ Throws(w, b) \/ Miscounts(w, b) \/ Aborts(w, b)
  BY DEF RequestStep
<1>2. UNCHANGED <<stopping, written, queued>>
  BY <1>1 DEF Sends, Answers, FailsForNow, FailsForGood, Throws, Miscounts, Aborts, RequestFrame
<1>3. \/ window' = window
      \/ \E error : Rejects(w, b, error)
  BY <1>1 DEF Sends, Answers, FailsForNow, FailsForGood, Throws, Miscounts, Aborts
<1>4. CASE window' = window
  BY <1>2, <1>4, KeepAside
<1>5. ASSUME NEW error, Rejects(w, b, error) PROVE KeepInv'
  <2>1. PICK e : /\ e = IF window[w].error = "none" THEN error ELSE window[w].error
                 /\ window' = [window EXCEPT ![w] = [window[w] EXCEPT !.error = e]]
    BY <1>5 DEF Rejects
  <2> DEFINE r == [window[w] EXCEPT !.error = e]
  <2>2. r.step = window[w].step /\ r.vectors = window[w].vectors /\ r.error = e
        /\ r.next = window[w].next /\ r.offset = window[w].offset
    BY <1>0 DEF WindowOK
  <2>3. window' = [window EXCEPT ![w] = r]
    BY <2>1
  <2> HIDE DEF r
  <2>4. window'[w] = r /\ \A v \in Windows \ {w} : window'[v] = window[v]
    BY <1>0, <2>3, WindowBecomes
  <2>5. window[w].error = "exhausted" => e = "exhausted"
    BY <2>1
  <2>6. WindowFits(w)'
    BY <1>0, <1>2, <2>2, <2>4, <2>5 DEF WindowFits
  <2>7. \A f : QueuedFor(f, w) => QueuedFor(f, w)'
    BY <2>2, <2>4, <2>5 DEF QueuedFor
  <2>8. WrittenWhole'
    BY <1>2 DEF KeepInv, WrittenWhole, FilesGetTheirVectors
  <2> QED BY <1>2, <2>4, <2>6, <2>7, <2>8, KeepMoves
<1> QED BY <1>3, <1>4, <1>5

\* Stop() and other processes.
LEMMA OutsideKeeps ==
  ASSUME KeepInv, OllamaInv', Stop \/ OtherLocks \/ OtherUnlocks \/ UNCHANGED embeddingVars
  PROVE  KeepInv'
<1>1. window' = window /\ (stopping => stopping') /\ UNCHANGED <<written, queued>>
  BY DEF Stop, OtherLocks, OtherUnlocks, embeddingVars
<1> QED BY <1>1, KeepAside

\* However the windows share the caches, the lock and the provider, and whatever
\* is lost, every file is written with the vectors of its own chunks, or queued
\* because some chunk of it got none (src/indexer/pipeline.ts, stages 2 and 3).
THEOREM WindowsAlwaysKeepFiles == EmbeddingSpec => []WindowsKeepFiles
<1>1. KeepInv => WindowsKeepFiles
  BY KeepMeans
<1>2. KeepInv /\ [EmbeddingNext]_embeddingVars => KeepInv'
  <2> SUFFICES ASSUME KeepInv, [EmbeddingNext]_embeddingVars PROVE KeepInv'
    OBVIOUS
  <2>1. OllamaInv
    BY DEF KeepInv
  <2>2. OllamaInv'
    BY <2>1, WindowStepFits, RequestStepFits, OutsideFits DEF EmbeddingNext
  <2>3. ASSUME NEW w \in Windows, WindowStep(w) PROVE KeepInv'
    BY <2>2, <2>3, LookupsKeep, StepsKeep, CachingKeeps, FilesKeep DEF WindowStep
  <2> QED BY <2>2, <2>3, RequestsKeep, OutsideKeeps DEF EmbeddingNext
<1> QED BY <1>1, <1>2, KeepInitially, PTL DEF EmbeddingSpec

-----------------------------------------------------------------------------
(***************************************************************************)
(* The limit of requests, which all windows share.                         *)
(***************************************************************************)
RequestStates ==
  {"waiting", "sent", "asleep", "ok", "failed", "split", "single", "alone"}

\* No more requests have a turn than may, and a request that failed has ended
\* its window.
TurnsFit ==
  /\ IsFiniteSet(Turns) /\ Cardinality(Turns) <= MaxConcurrency
  /\ \A w \in Windows : \A b \in DOMAIN requests[w] :
       /\ requests[w][b].state \in RequestStates
       /\ requests[w][b].state = "failed" => window[w].error # "none"

TurnsInv == OllamaInv /\ TurnsFit

\* A request that can be answered, that can be sent, or that can be aborted.
MayMove(w, b) ==
  \/ requests[w][b].state \in {"sent", "alone"}
  \/ requests[w][b].state \in {"waiting", "single"} /\ Cardinality(Turns) < MaxConcurrency
  \/ /\ requests[w][b].state = "asleep"
     /\ provider = "openai-compat" => Cardinality(Turns) < MaxConcurrency

\* A window whose requests are under way can go on: it can settle, or one of its
\* requests can move, or one that holds a turn can, whosever it is.
RequestsGoOn ==
  \A w \in Windows : window[w].step = "embedding" =>
    \/ Embedded(w)
    \/ window[w].error # "none"
    \/ \E b \in DOMAIN requests[w] :
         MayMove(w, b) \/ \E v \in Windows : \E c \in DOMAIN requests[v] : MayMove(v, c)

LEMMA TurnsInitially == EmbeddingInit => TurnsInv
<1> SUFFICES ASSUME EmbeddingInit PROVE TurnsInv
  OBVIOUS
<1>1. \A w \in Windows : DOMAIN requests[w] = {}
  BY DEF EmbeddingInit
<1>2. Turns = {}
  BY <1>1 DEF Turns
<1>3. IsFiniteSet(Turns) /\ Cardinality(Turns) = 0
  BY <1>2, FS_EmptySet
<1> QED BY <1>1, <1>3, OllamaInitially, EmbeddingAssumption DEF TurnsInv, TurnsFit

LEMMA TurnsAre ==
  ASSUME NEW w \in Windows, NEW b
  PROVE  <<w, b>> \in Turns <=> b \in DOMAIN requests[w] /\ TakesTurn(requests[w][b])
  BY DEF Turns

LEMMA TurnIsPair ==
  ASSUME NEW t \in Turns
  PROVE  \E w \in Windows : \E b \in DOMAIN requests[w] : t = <<w, b>> /\ TakesTurn(requests[w][b])
  BY DEF Turns

\* Nobody gets a turn.
LEMMA TurnsShrink ==
  ASSUME TurnsFit, Turns' \subseteq Turns
  PROVE  IsFiniteSet(Turns') /\ Cardinality(Turns') <= MaxConcurrency
<1>1. IsFiniteSet(Turns') /\ Cardinality(Turns') <= Cardinality(Turns)
  BY FS_Subset DEF TurnsFit
<1>2. Cardinality(Turns) \in Nat /\ Cardinality(Turns') \in Nat /\ MaxConcurrency \in Nat
  BY <1>1, FS_CardinalityType, EmbeddingAssumption DEF TurnsFit
<1> QED BY <1>1, <1>2 DEF TurnsFit

\* Somebody gets the turn that is free.
LEMMA TurnsGrow ==
  ASSUME TurnsFit, NEW t, Turns' \subseteq Turns \cup {t}, Cardinality(Turns) < MaxConcurrency
  PROVE  IsFiniteSet(Turns') /\ Cardinality(Turns') <= MaxConcurrency
<1>0. IsFiniteSet(Turns) /\ Cardinality(Turns) \in Nat
  BY FS_CardinalityType DEF TurnsFit
<1>1. /\ IsFiniteSet(Turns \cup {t})
      /\ Cardinality(Turns \cup {t}) <= Cardinality(Turns) + 1
  <2> DEFINE T == Turns
  <2>1. IsFiniteSet(T) /\ Cardinality(T) \in Nat
    BY <1>0
  <2> HIDE DEF T
  <2>2. IsFiniteSet(T \cup {t}) /\ Cardinality(T \cup {t}) <= Cardinality(T) + 1
    BY <2>1, FS_AddElement
  <2> QED BY <2>2 DEF T
<1>2. IsFiniteSet(Turns') /\ Cardinality(Turns') <= Cardinality(Turns \cup {t})
  BY <1>1, FS_Subset
<1>3. /\ Cardinality(Turns) \in Nat /\ Cardinality(Turns') \in Nat /\ MaxConcurrency \in Nat
      /\ Cardinality(Turns \cup {t}) \in Nat
  BY <1>1, <1>2, FS_CardinalityType, EmbeddingAssumption DEF TurnsFit
<1> QED BY <1>1, <1>2, <1>3

\* A window's own steps leave its error alone.
LEMMA ErrorKept ==
  ASSUME NEW v, WindowOK(v), NEW x
  PROVE  /\ [v EXCEPT !.step = x].error = v.error /\ [v EXCEPT !.vectors = x].error = v.error
         /\ [v EXCEPT !.next = x].error = v.error /\ [v EXCEPT !.offset = x].error = v.error
<1>1. [v EXCEPT !.step = x].error = v.error
  BY DEF WindowOK
<1>2. [v EXCEPT !.vectors = x].error = v.error
  BY DEF WindowOK
<1>3. [v EXCEPT !.next = x].error = v.error
  BY DEF WindowOK
<1>4. [v EXCEPT !.offset = x].error = v.error
  BY DEF WindowOK
<1> QED BY <1>1, <1>2, <1>3, <1>4

LEMMA ErrorsKept ==
  ASSUME NEW v, WindowOK(v), NEW x, NEW y
  PROVE  /\ [v EXCEPT !.step = x, !.vectors = y].error = v.error
         /\ [v EXCEPT !.vectors = x, !.step = y].error = v.error
         /\ [v EXCEPT !.next = x, !.offset = y].error = v.error
<1>1. [v EXCEPT !.step = x, !.vectors = y].error = v.error
  <2>1. [v EXCEPT !.step = x, !.vectors = y] = [[v EXCEPT !.step = x] EXCEPT !.vectors = y]
    OBVIOUS
  <2>2. [[v EXCEPT !.step = x] EXCEPT !.vectors = y].error = v.error
    BY WindowChange, ErrorKept
  <2> QED BY <2>1, <2>2
<1>2. [v EXCEPT !.vectors = x, !.step = y].error = v.error
  <2>1. [v EXCEPT !.vectors = x, !.step = y] = [[v EXCEPT !.vectors = x] EXCEPT !.step = y]
    OBVIOUS
  <2>2. [[v EXCEPT !.vectors = x] EXCEPT !.step = y].error = v.error
    BY WindowChange, ErrorKept
  <2> QED BY <2>1, <2>2
<1>3. [v EXCEPT !.next = x, !.offset = y].error = v.error
  <2>1. [v EXCEPT !.next = x, !.offset = y] = [[v EXCEPT !.next = x] EXCEPT !.offset = y]
    OBVIOUS
  <2>2. [[v EXCEPT !.next = x] EXCEPT !.offset = y].error = v.error
    BY WindowChange, ErrorKept
  <2> QED BY <2>1, <2>2
<1> QED BY <1>1, <1>2, <1>3

ErrorsStay == \A v \in Windows : window'[v].error = window[v].error

LEMMA ErrorsStayFor ==
  ASSUME WindowsOK, NEW w \in Windows, NEW v, v.error = window[w].error,
         window' = [window EXCEPT ![w] = v]
  PROVE  ErrorsStay
<1>1. window'[w] = v /\ \A u \in Windows \ {w} : window'[u] = window[u]
  BY DEF WindowsOK
<1> QED BY <1>1 DEF ErrorsStay

LEMMA WindowErrorsStay ==
  ASSUME OllamaInv, NEW w \in Windows, WindowStep(w)
  PROVE  ErrorsStay
<1>0. WindowsOK /\ WindowOK(window[w])
  BY DEF OllamaInv, WindowsOK
<1>1. ASSUME NEW step, window' = [window EXCEPT ![w] = [window[w] EXCEPT !.step = step]]
      PROVE  ErrorsStay
  <2>1. [window[w] EXCEPT !.step = step].error = window[w].error
    BY <1>0, ErrorKept
  <2> QED BY <1>0, <1>1, <2>1, ErrorsStayFor
<1>2. ASSUME NEW step, NEW values,
             window' = [window EXCEPT ![w] = [window[w] EXCEPT !.step = step, !.vectors = values]]
      PROVE  ErrorsStay
  <2>1. [window[w] EXCEPT !.step = step, !.vectors = values].error = window[w].error
    BY <1>0, ErrorsKept
  <2> QED BY <1>0, <1>2, <2>1, ErrorsStayFor
<1>3. ASSUME NEW step, NEW values,
             window' = [window EXCEPT ![w] = [window[w] EXCEPT !.vectors = values, !.step = step]]
      PROVE  ErrorsStay
  <2>1. [window[w] EXCEPT !.vectors = values, !.step = step].error = window[w].error
    BY <1>0, ErrorsKept
  <2> QED BY <1>0, <1>3, <2>1, ErrorsStayFor
<1>4. ASSUME NEW next, NEW offset,
             window' = [window EXCEPT ![w] = [window[w] EXCEPT !.next = next, !.offset = offset]]
      PROVE  ErrorsStay
  <2>1. [window[w] EXCEPT !.next = next, !.offset = offset].error = window[w].error
    BY <1>0, ErrorsKept
  <2> QED BY <1>0, <1>4, <2>1, ErrorsStayFor
<1>5. CASE Locks(w) \/ GivesUpLock(w) \/ Settles(w) \/ Ends(w)
  <2>1. \E step : window' = [window EXCEPT ![w] = [window[w] EXCEPT !.step = step]]
    BY <1>5 DEF Locks, GivesUpLock, Settles, Ends
  <2> QED BY <1>1, <2>1
<1>6. CASE ReadsMemoryCache(w)
  <2>1. \E values :
          window' = [window EXCEPT ![w] = [window[w] EXCEPT !.step = "lookup", !.vectors = values]]
    BY <1>6 DEF ReadsMemoryCache
  <2> QED BY <1>2, <2>1
<1>7. CASE ReadsStoredCache(w)
  <2>1. \E values, step :
          window' = [window EXCEPT ![w] = [window[w] EXCEPT !.vectors = values, !.step = step]]
    BY <1>7 DEF ReadsStoredCache
  <2> QED BY <1>3, <2>1
<1>8. CASE Caches(w)
  <2>1. CASE window' = [window EXCEPT ![w].step = "thrown"]
    <3>1. window' = [window EXCEPT ![w] = [window[w] EXCEPT !.step = "thrown"]]
      BY <2>1
    <3> QED BY <1>1, <3>1
  <2>2. ASSUME NEW values,
               window' = [window EXCEPT ![w].step = "writing", ![w].vectors = values]
        PROVE  ErrorsStay
    <3>1. window' = [window EXCEPT ![w] = [window[w] EXCEPT !.step = "writing", !.vectors = values]]
      BY <2>2
    <3> QED BY <1>2, <3>1
  <2> HIDE DEF ErrorsStay
  <2> QED BY <1>8, <2>1, <2>2 DEF Caches
<1>9. CASE QueuesFile(w) \/ WritesFile(w)
  <2>1. PICK next, offset :
          window' = [window EXCEPT ![w] = [window[w] EXCEPT !.next = next, !.offset = offset]]
    <3> DEFINE length == Len(ChunksOf[Current(w)])
    <3>1. window' = [window EXCEPT ![w].next = @ + 1, ![w].offset = @ + length]
      BY <1>9 DEF QueuesFile, WritesFile
    <3> HIDE DEF length
    <3> QED BY <3>1
  <2> QED BY <1>4, <2>1
<1> QED BY <1>5, <1>6, <1>7, <1>8, <1>9 DEF WindowStep

\* It leaves the requests alone as well, unless it makes those that wait to be
\* sent.
LEMMA WindowsAsk ==
  ASSUME OllamaInv, NEW w \in Windows, WindowStep(w)
  PROVE  /\ provider' = provider
         /\ \A v \in Windows \ {w} : requests'[v] = requests[v]
         /\ \/ requests'[w] = requests[w]
            \/ \A b \in DOMAIN requests'[w] : requests'[w][b].state = "waiting"
<1>0. requests = [v \in Windows |-> requests[v]]
  BY DEF OllamaInv, WindowsOK
<1>1. ASSUME NEW n PROVE \A b \in DOMAIN Batches(n) : Batches(n)[b].state = "waiting"
  BY DEF Batches
<1>2. CASE Locks(w)
  <2> DEFINE n == Len(Missing(window[w].vectors))
  <2>1. provider' = provider /\ requests' = [requests EXCEPT ![w] = Batches(n)]
    BY <1>2 DEF Locks
  <2> HIDE DEF n
  <2>2. requests'[w] = Batches(n) /\ \A v \in Windows \ {w} : requests'[v] = requests[v]
    BY <1>0, <2>1
  <2> QED BY <1>1, <2>1, <2>2
<1>3. CASE ReadsStoredCache(w)
  <2>1. PICK n : requests' = [requests EXCEPT ![w] =
                                IF provider = "ollama" THEN <<>> ELSE Batches(n)]
    BY <1>3 DEF ReadsStoredCache
  <2>2. provider' = provider
    BY <1>3 DEF ReadsStoredCache
  <2>3. \A v \in Windows \ {w} : requests'[v] = requests[v]
    BY <1>0, <2>1
  <2>4. requests'[w] = IF provider = "ollama" THEN <<>> ELSE Batches(n)
    BY <1>0, <2>1
  <2>5. DOMAIN <<>> = {}
    OBVIOUS
  <2> QED BY <1>1, <2>2, <2>3, <2>4, <2>5
<1>4. CASE \/ ReadsMemoryCache(w) \/ GivesUpLock(w) \/ Settles(w) \/ Caches(w)
           \/ QueuesFile(w) \/ WritesFile(w) \/ Ends(w)
  BY <1>4 DEF ReadsMemoryCache, GivesUpLock, Settles, Caches, QueuesFile, WritesFile, Ends,
              WriteFrame
<1> QED BY <1>2, <1>3, <1>4 DEF WindowStep

LEMMA WindowsTakeNoTurn ==
  ASSUME TurnsInv, NEW w \in Windows, WindowStep(w)
  PROVE  TurnsFit'
<1>1. /\ provider' = provider /\ ErrorsStay
      /\ \A v \in Windows \ {w} : requests'[v] = requests[v]
      /\ \/ requests'[w] = requests[w]
         \/ \A b \in DOMAIN requests'[w] : requests'[w][b].state = "waiting"
  BY WindowsAsk, WindowErrorsStay DEF TurnsInv
<1>2. Turns' \subseteq Turns
  <2> SUFFICES ASSUME NEW v \in Windows, NEW b \in DOMAIN requests'[v],
                      TakesTurn(requests[v][b])'
               PROVE  b \in DOMAIN requests[v] /\ TakesTurn(requests[v][b])
    BY DEF Turns
  <2>1. requests'[v] = requests[v]
    BY <1>1 DEF TakesTurn
  <2> QED BY <1>1, <2>1 DEF TakesTurn
<1>3. IsFiniteSet(Turns') /\ Cardinality(Turns') <= MaxConcurrency
  BY <1>2, TurnsShrink DEF TurnsInv
<1>4. ASSUME NEW v \in Windows, NEW b \in DOMAIN requests'[v]
      PROVE  /\ requests'[v][b].state \in RequestStates
             /\ requests'[v][b].state = "failed" => window'[v].error # "none"
  <2>1. CASE requests'[v] = requests[v]
    BY <1>1, <2>1, <1>4 DEF TurnsInv, TurnsFit, ErrorsStay
  <2>2. CASE requests'[v] # requests[v]
    BY <1>1, <2>2, <1>4 DEF RequestStates
  <2> QED BY <2>1, <2>2
<1> QED BY <1>3, <1>4 DEF TurnsFit

\* What a step does to one request and its window.
RequestBecomes(w, b, state) ==
  /\ provider' = provider
  /\ RequestMoves(w, b, state)
  /\ state \in RequestStates
  /\ state = "failed" => window'[w].error # "none"
  /\ state \in {"sent", "alone", "asleep"} =>
       TakesTurn(requests[w][b]) \/ Cardinality(Turns) < MaxConcurrency
         \/ (provider = "openai-compat" /\ state = "asleep")

LEMMA RequestsShareTurns ==
  ASSUME TurnsInv, NEW w \in Windows, NEW b \in DOMAIN requests[w], NEW state,
         RequestBecomes(w, b, state)
  PROVE  TurnsFit'
<1>1. /\ requests'[w][b].state = state /\ DOMAIN requests'[w] = DOMAIN requests[w]
      /\ \A c \in DOMAIN requests[w] \ {b} : requests'[w][c] = requests[w][c]
      /\ \A v \in Windows \ {w} : requests'[v] = requests[v] /\ window'[v] = window[v]
      /\ window[w].error # "none" => window'[w].error # "none"
      /\ provider' = provider
  BY DEF RequestBecomes, RequestMoves
<1>2. ASSUME NEW v \in Windows, NEW c \in DOMAIN requests'[v], <<v, c>> # <<w, b>>
      PROVE  c \in DOMAIN requests[v] /\ requests'[v][c] = requests[v][c]
  BY <1>1, <1>2
<1>t. PICK t : t = <<w, b>>
  OBVIOUS
<1>3. Turns' \subseteq Turns \cup {t}
  <2> SUFFICES ASSUME NEW v \in Windows, NEW c \in DOMAIN requests'[v],
                      TakesTurn(requests[v][c])', <<v, c>> # <<w, b>>
               PROVE  c \in DOMAIN requests[v] /\ TakesTurn(requests[v][c])
    BY <1>t DEF Turns
  <2> QED BY <1>1, <1>2 DEF TakesTurn
<1>4. ASSUME Cardinality(Turns) < MaxConcurrency
      PROVE  IsFiniteSet(Turns') /\ Cardinality(Turns') <= MaxConcurrency
  <2>1. TurnsFit
    BY DEF TurnsInv
  <2> QED BY <1>3, <1>4, <2>1, TurnsGrow
<1>5. ASSUME TakesTurn(requests[w][b])
      PROVE  IsFiniteSet(Turns') /\ Cardinality(Turns') <= MaxConcurrency
  <2>1. t \in Turns
    BY <1>5, <1>t DEF Turns
  <2>2. Turns' \subseteq Turns
    BY <1>3, <2>1
  <2> QED BY <2>2, TurnsShrink DEF TurnsInv
<1>6. ASSUME ~TakesTurn(requests[w][b])'
      PROVE  IsFiniteSet(Turns') /\ Cardinality(Turns') <= MaxConcurrency
  <2>1. t \notin Turns'
    <3> SUFFICES ASSUME t \in Turns' PROVE FALSE
      OBVIOUS
    <3>1. PICK v \in Windows : \E c \in DOMAIN requests'[v] :
             t = <<v, c>> /\ TakesTurn(requests[v][c])'
      BY DEF Turns
    <3>2. PICK c \in DOMAIN requests'[v] : t = <<v, c>> /\ TakesTurn(requests[v][c])'
      BY <3>1
    <3>3. v = w /\ c = b
      BY <3>2, <1>t
    <3> QED BY <1>6, <3>2, <3>3
  <2>2. Turns' \subseteq Turns
    BY <1>3, <2>1
  <2> QED BY <2>2, TurnsShrink DEF TurnsInv
<1>7. IsFiniteSet(Turns') /\ Cardinality(Turns') <= MaxConcurrency
  <2>1. \/ TakesTurn(requests[w][b]) \/ Cardinality(Turns) < MaxConcurrency
        \/ ~TakesTurn(requests[w][b])'
    BY <1>1 DEF RequestBecomes, TakesTurn
  <2> QED BY <1>4, <1>5, <1>6, <2>1
<1>8. ASSUME NEW v \in Windows, NEW c \in DOMAIN requests'[v]
      PROVE  /\ requests'[v][c].state \in RequestStates
             /\ requests'[v][c].state = "failed" => window'[v].error # "none"
  <2>1. CASE <<v, c>> = <<w, b>>
    BY <1>1, <2>1 DEF RequestBecomes
  <2>2. CASE <<v, c>> # <<w, b>>
    BY <1>1, <1>2, <1>8, <2>2 DEF TurnsInv, TurnsFit
  <2> QED BY <2>1, <2>2
<1> QED BY <1>7, <1>8 DEF TurnsFit

LEMMA RequestStepTurns ==
  ASSUME TurnsInv, NEW w \in Windows, RequestStep(w)
  PROVE  TurnsFit'
<1>0. WindowsOK /\ WindowOK(window[w])
  BY DEF TurnsInv, OllamaInv, WindowsOK
<1>1. PICK b \in DOMAIN requests[w] :
        \/ Sends(w, b) \/ Answers(w, b) \/ FailsForNow(w, b) \/ FailsForGood(w, b)
        \/ Throws(w, b) \/ Miscounts(w, b) \/ Aborts(w, b)
  BY DEF RequestStep
<1>2. RequestOK(requests[w][b]) /\ provider' = provider
  BY <1>0, <1>1 DEF WindowsOK, Sends, Answers, FailsForNow, FailsForGood, Throws, Miscounts,
     Aborts, RequestFrame
<1> DEFINE MayBecome(state) ==
      state \in {"sent", "alone", "asleep"} =>
        TakesTurn(requests[w][b]) \/ Cardinality(Turns) < MaxConcurrency
          \/ (provider = "openai-compat" /\ state = "asleep")
\* The window stays.
<1>3. ASSUME NEW r, RequestOK(r), window' = window, r.state \in RequestStates \ {"failed"},
             MayBecome(r.state),
             requests' = [requests EXCEPT ![w] = [requests[w] EXCEPT ![b] = r]]
      PROVE  TurnsFit'
  <2>1. /\ requests'[w][b] = r /\ DOMAIN requests'[w] = DOMAIN requests[w]
        /\ \A c \in DOMAIN requests[w] \ {b} : requests'[w][c] = requests[w][c]
        /\ \A v \in Windows \ {w} : requests'[v] = requests[v]
    BY <1>0, <1>3, RequestsOK
  <2>2. RequestMoves(w, b, r.state)
    BY <1>3, <2>1 DEF RequestMoves
  <2>3. RequestBecomes(w, b, r.state)
    BY <1>2, <1>3, <2>2 DEF RequestBecomes
  <2> QED BY <2>3, RequestsShareTurns
\* It gets an error, unless it has one.
<1>4. ASSUME NEW error \in {"exhausted", "thrown"}, Rejects(w, b, error)
      PROVE  TurnsFit'
  <2>1. PICK r : r = [requests[w][b] EXCEPT !.state = "failed"]
    OBVIOUS
  <2>2. RequestOK(r) /\ r.state = "failed"
    BY <1>2, <2>1 DEF RequestOK
  <2>3. requests' = [requests EXCEPT ![w] = [requests[w] EXCEPT ![b] = r]]
    BY <1>4, <2>1 DEF Rejects
  <2>4. /\ requests'[w][b] = r /\ DOMAIN requests'[w] = DOMAIN requests[w]
        /\ \A c \in DOMAIN requests[w] \ {b} : requests'[w][c] = requests[w][c]
        /\ \A v \in Windows \ {w} : requests'[v] = requests[v]
    BY <1>0, <2>2, <2>3, RequestsOK
  <2>5. PICK e : /\ e = IF window[w].error = "none" THEN error ELSE window[w].error
                 /\ window' = [window EXCEPT ![w] = [window[w] EXCEPT !.error = e]]
    BY <1>4 DEF Rejects
  <2>6. /\ [window[w] EXCEPT !.error = e].error = e
        /\ [window[w] EXCEPT !.error = e].step = window[w].step
    BY <1>0 DEF WindowOK
  <2>7. /\ window'[w] = [window[w] EXCEPT !.error = e]
        /\ \A v \in Windows \ {w} : window'[v] = window[v]
    BY <1>0, <2>5 DEF WindowsOK
  <2>8. window'[w].step = window[w].step /\ window'[w].error # "none"
    BY <2>5, <2>6, <2>7
  <2>9. RequestMoves(w, b, "failed")
    BY <2>2, <2>4, <2>7, <2>8 DEF RequestMoves
  <2>10. RequestBecomes(w, b, "failed")
    BY <1>2, <2>8, <2>9 DEF RequestBecomes, RequestStates
  <2> QED BY <2>10, RequestsShareTurns
\* What the request becomes.
<1>5. ASSUME NEW s \in RequestStates \ {"failed"}, window' = window, MayBecome(s),
             requests' = [requests EXCEPT ![w][b].state = s]
      PROVE  TurnsFit'
  <2>1. PICK r : r = [requests[w][b] EXCEPT !.state = s]
    OBVIOUS
  <2>2. RequestOK(r) /\ r.state = s
    BY <1>2, <2>1 DEF RequestOK
  <2>3. requests' = [requests EXCEPT ![w] = [requests[w] EXCEPT ![b] = r]]
    BY <1>5, <2>1
  <2> QED BY <1>3, <1>5, <2>2, <2>3
<1>6. b \in InFlight(w) => TakesTurn(requests[w][b])
  BY DEF InFlight, TakesTurn
<1>7. CASE Sends(w, b)
  <2>1. PICK s : s = IF requests[w][b].state = "single" THEN "alone" ELSE "sent"
    OBVIOUS
  <2>2. requests' = [requests EXCEPT ![w][b].state = s] /\ window' = window
    BY <1>7, <2>1 DEF Sends
  <2>3. MayBecome(s)
    BY <1>7 DEF Sends, TakesTurn
  <2>4. s \in RequestStates \ {"failed"}
    BY <2>1 DEF RequestStates
  <2> QED BY <1>5, <2>2, <2>3, <2>4
<1>8. CASE Answers(w, b)
  BY <1>5, <1>8 DEF Answers, RequestStates
<1>9. CASE Miscounts(w, b)
  <2>1. /\ UNCHANGED <<provider, window>>
        /\ \A v \in Windows \ {w} : requests'[v] = requests[v]
        /\ \A c \in DOMAIN requests'[w] :
             \/ requests'[w][c].state \in {"single", "split"}
             \/ c \in DOMAIN requests[w] /\ requests'[w][c] = requests[w][c]
    BY <1>0, <1>9, MiscountSplits
  <2>2. ASSUME NEW v \in Windows, NEW c \in DOMAIN requests'[v]
        PROVE  \/ requests'[v][c].state \in {"single", "split"}
               \/ c \in DOMAIN requests[v] /\ requests'[v][c] = requests[v][c]
    BY <2>1, <2>2
  <2>3. Turns' \subseteq Turns
    <3> SUFFICES ASSUME NEW v \in Windows, NEW c \in DOMAIN requests'[v],
                        TakesTurn(requests[v][c])'
                 PROVE  c \in DOMAIN requests[v] /\ TakesTurn(requests[v][c])
      BY DEF Turns
    <3> QED BY <2>1, <2>2 DEF TakesTurn
  <2>4. IsFiniteSet(Turns') /\ Cardinality(Turns') <= MaxConcurrency
    BY <2>3, TurnsShrink DEF TurnsInv
  <2>5. \A v \in Windows : \A c \in DOMAIN requests'[v] :
          /\ requests'[v][c].state \in RequestStates
          /\ requests'[v][c].state = "failed" => window'[v].error # "none"
    BY <2>1, <2>2 DEF TurnsInv, TurnsFit, RequestStates
  <2> QED BY <2>4, <2>5 DEF TurnsFit
<1>10. CASE FailsForGood(w, b)
  BY <1>4, <1>10 DEF FailsForGood
<1>11. CASE Throws(w, b)
  BY <1>4, <1>11 DEF Throws
<1>12. CASE Aborts(w, b)
  BY <1>4, <1>12 DEF Aborts
<1>13. CASE FailsForNow(w, b)
  <2>1. CASE Rejects(w, b, "exhausted")
    BY <1>4, <2>1
  <2>2. CASE /\ requests' = [requests EXCEPT ![w][b].state = "asleep", ![w][b].attempt = @ + 1]
             /\ window' = window
    <3>1. PICK n : requests' = [requests EXCEPT ![w][b].state = "asleep", ![w][b].attempt = n]
      BY <2>2
    <3>2. PICK r : r = [[requests[w][b] EXCEPT !.state = "asleep"] EXCEPT !.attempt = n]
      OBVIOUS
    <3>3. requests' = [requests EXCEPT ![w] = [requests[w] EXCEPT ![b] = r]]
      BY <1>0, <3>1, <3>2 DEF WindowsOK
    <3>4. RequestOK([requests[w][b] EXCEPT !.state = "asleep"])
          /\ [requests[w][b] EXCEPT !.state = "asleep"].state = "asleep"
      BY <1>2 DEF RequestOK
    <3>5. \A q : RequestOK(q) => RequestOK([q EXCEPT !.attempt = n])
                                 /\ [q EXCEPT !.attempt = n].state = q.state
      BY DEF RequestOK
    <3>6. RequestOK(r) /\ r.state = "asleep"
      BY <3>2, <3>4, <3>5
    <3>7. MayBecome("asleep")
      BY <1>6, <1>13 DEF FailsForNow
    <3> QED BY <1>3, <2>2, <3>3, <3>6, <3>7 DEF RequestStates
  <2> QED BY <1>13, <2>1, <2>2 DEF FailsForNow
<1> QED BY <1>1, <1>7, <1>8, <1>9, <1>10, <1>11, <1>12, <1>13

LEMMA TurnsKept ==
  ASSUME TurnsInv, [EmbeddingNext]_embeddingVars
  PROVE  TurnsInv'
<1>1. ASSUME NEW w \in Windows, WindowStep(w) PROVE TurnsInv'
  BY <1>1, WindowStepFits, WindowsTakeNoTurn DEF TurnsInv
<1>2. ASSUME NEW w \in Windows, RequestStep(w) PROVE TurnsInv'
  BY <1>2, RequestStepFits, RequestStepTurns DEF TurnsInv
<1>3. CASE Stop \/ OtherLocks \/ OtherUnlocks \/ UNCHANGED embeddingVars
  <2>1. UNCHANGED <<provider, window, requests>>
    BY <1>3 DEF Stop, OtherLocks, OtherUnlocks, embeddingVars
  <2>2. UNCHANGED Turns
    BY <2>1 DEF Turns, TakesTurn
  <2>3. TurnsFit'
    BY <2>1, <2>2 DEF TurnsInv, TurnsFit
  <2>4. OllamaInv'
    BY <1>3, OutsideFits DEF TurnsInv
  <2> QED BY <2>3, <2>4 DEF TurnsInv
<1> QED BY <1>1, <1>2, <1>3 DEF EmbeddingNext

LEMMA TurnsAlwaysFit == EmbeddingSpec => []TurnsInv
  BY TurnsInitially, TurnsKept, PTL DEF EmbeddingSpec

\* Never are more requests under way than the provider's limit allows, counting
\* those of windows that were given up, and those that sleep within their turn.
THEOREM RequestsBounded == EmbeddingSpec => [](Cardinality(Turns) <= MaxConcurrency)
<1>1. TurnsInv => Cardinality(Turns) <= MaxConcurrency
  BY DEF TurnsInv, TurnsFit
<1> QED BY <1>1, TurnsAlwaysFit, PTL

\* A request that has its turn can use it.
LEMMA TurnsAreUsed ==
  ASSUME NEW w, NEW b, TakesTurn(requests[w][b])
  PROVE  MayMove(w, b)
  BY DEF TakesTurn, MayMove

LEMMA SomebodyMoves ==
  ASSUME TurnsInv PROVE RequestsGoOn
<1> SUFFICES ASSUME NEW w \in Windows, window[w].step = "embedding", ~Embedded(w),
                    window[w].error = "none"
             PROVE  \E b \in DOMAIN requests[w] :
                      MayMove(w, b) \/ \E v \in Windows : \E c \in DOMAIN requests[v] : MayMove(v, c)
  BY DEF RequestsGoOn
<1>1. PICK b \in DOMAIN requests[w] : requests[w][b].state \notin {"ok", "split"}
  BY DEF Embedded
<1>2. requests[w][b].state \in {"waiting", "sent", "asleep", "single", "alone"}
  BY <1>1 DEF TurnsInv, TurnsFit, RequestStates
<1>3. CASE Turns = {}
  <2>1. Cardinality(Turns) < MaxConcurrency
    BY <1>3, FS_EmptySet, EmbeddingAssumption
  <2> QED BY <1>2, <2>1 DEF MayMove
<1>4. CASE Turns # {}
  <2>1. PICK t : t \in Turns
    BY <1>4
  <2>2. PICK v \in Windows : \E c \in DOMAIN requests[v] : TakesTurn(requests[v][c])
    BY <2>1 DEF Turns
  <2>3. PICK c \in DOMAIN requests[v] : TakesTurn(requests[v][c])
    BY <2>2
  <2> QED BY <1>1, <2>3, TurnsAreUsed
<1> QED BY <1>3, <1>4

\* The requests of a window never wait for a turn that nobody can give: while a
\* window embeds, one of its requests, or one that holds a turn, can go on.
THEOREM RequestsNeverStuck == EmbeddingSpec => []RequestsGoOn
  BY SomebodyMoves, TurnsAlwaysFit, PTL

\* The lock of Ollama is held by another process or by a window that embeds.
LockOfEmbedder ==
  /\ provider \in Providers /\ ollamaLock \in Windows \cup {NoWindow, Other}
  /\ ollamaLock \in Windows => window[ollamaLock].step = "embedding"

\* The steps of the others, and of a window that does not embed.
LEMMA EmbedderKeepsLock ==
  ASSUME LockOfEmbedder, UNCHANGED <<provider, ollamaLock>>,
         \A v \in Windows : window[v].step = "embedding" => window'[v].step = "embedding"
  PROVE  LockOfEmbedder'
  BY DEF LockOfEmbedder

LEMMA RequestsLeaveLock ==
  ASSUME OllamaInv, LockOfEmbedder, NEW w \in Windows, RequestStep(w)
  PROVE  LockOfEmbedder'
<1>0. WindowsOK
  BY DEF OllamaInv
<1>1. UNCHANGED <<provider, ollamaLock>>
  BY DEF RequestStep, Sends, Answers, FailsForNow, FailsForGood, Throws, Miscounts, Aborts,
         RequestFrame
<1>2. window' = window \/ \E error : window' = [window EXCEPT ![w].error = error]
  BY DEF RequestStep, Sends, Answers, FailsForNow, FailsForGood, Throws, Miscounts, Aborts,
         Rejects
<1>3. ASSUME NEW error, window' = [window EXCEPT ![w].error = error], NEW v \in Windows
      PROVE  window'[v].step = window[v].step
  BY <1>0, <1>3 DEF WindowsOK, WindowOK
<1> QED BY <1>1, <1>2, <1>3, EmbedderKeepsLock

LEMMA WindowsLeaveLock ==
  ASSUME OllamaInv, LockOfEmbedder, NEW w \in Windows, WindowStep(w)
  PROVE  LockOfEmbedder'
<1>0. WindowsOK /\ NoWindow \notin Windows
  BY EmbeddingAssumption DEF OllamaInv
<1>1. \A v \in Windows \ {w} : window'[v] = window[v]
  <2> USE <1>0 DEF WindowsOK
  <2>1. CASE ReadsMemoryCache(w) \/ GivesUpLock(w) \/ Locks(w)
    BY <2>1 DEF ReadsMemoryCache, GivesUpLock, Locks
  <2>2. CASE ReadsStoredCache(w)
    <3>1. \E values, step : window' = [window EXCEPT ![w].vectors = values, ![w].step = step]
      BY <2>2, Zenon DEF ReadsStoredCache
    <3> QED BY <3>1
  <2>3. CASE Settles(w)
    BY <2>3 DEF Settles
  <2>4. CASE Caches(w)
    BY <2>4 DEF Caches
  <2>5. CASE QueuesFile(w) \/ WritesFile(w) \/ Ends(w)
    BY <2>5 DEF QueuesFile, WritesFile, Ends
  <2> QED BY <2>1, <2>2, <2>3, <2>4, <2>5 DEF WindowStep
<1>2. CASE Locks(w)
  <2>1. window' = [window EXCEPT ![w].step = "embedding"] /\ ollamaLock' = w
        /\ provider' = provider
    BY <1>2 DEF Locks
  <2>2. window'[w].step = "embedding"
    BY <1>0, <2>1 DEF WindowsOK, WindowOK
  <2> QED BY <2>1, <2>2 DEF LockOfEmbedder
<1>3. CASE Settles(w)
  BY <1>0, <1>1, <1>3 DEF Settles, LockOfEmbedder
<1>4. CASE ~Locks(w) /\ ~Settles(w)
  <2>1. window[w].step # "embedding" /\ UNCHANGED <<provider, ollamaLock>>
    BY <1>4 DEF WindowStep, ReadsMemoryCache, ReadsStoredCache, GivesUpLock, Caches, QueuesFile,
                WritesFile, Ends, Writing, WriteFrame
  <2> QED BY <1>1, <2>1, EmbedderKeepsLock
<1> QED BY <1>2, <1>3, <1>4

\* The global lock of Ollama is given back on every way out of the embedding
\* stage, by success, errors and shutdown (the finally of embed() in ollama.ts):
\* whatever window has it is embedding.
THEOREM OllamaLockGivenBack == EmbeddingSpec => []LockOfEmbedder
<1>1. EmbeddingInit => LockOfEmbedder
  BY EmbeddingAssumption DEF EmbeddingInit, LockOfEmbedder
<1>2. OllamaInv /\ LockOfEmbedder /\ [EmbeddingNext]_embeddingVars => LockOfEmbedder'
  <2> SUFFICES ASSUME OllamaInv, LockOfEmbedder, [EmbeddingNext]_embeddingVars
               PROVE  LockOfEmbedder'
    OBVIOUS
  <2>1. CASE Stop \/ UNCHANGED embeddingVars
    BY <2>1, EmbedderKeepsLock DEF Stop, embeddingVars
  <2>2. CASE OtherLocks \/ OtherUnlocks
    BY <2>2, EmbeddingAssumption DEF OtherLocks, OtherUnlocks, LockOfEmbedder
  <2> QED BY <2>1, <2>2, WindowsLeaveLock, RequestsLeaveLock DEF EmbeddingNext
<1>3. TurnsInv => OllamaInv
  BY DEF TurnsInv
<1> QED BY <1>1, <1>2, <1>3, TurnsAlwaysFit, PTL DEF EmbeddingSpec

-----------------------------------------------------------------------------
(***************************************************************************)
(* The search.  Scores and the score map are built along the lists:        *)
(* functions on 0 .. N given by their first value and a step.              *)
(***************************************************************************)
StepsIn(F, N, S) == \A m \in 1 .. N : \A x \in S : F[<<m, x>>] \in S
Follows(g, F, N, S, base) ==
  g \in [0 .. N -> S] /\ g[0] = base /\ \A m \in 1 .. N : g[m] = F[<<m, g[m - 1]>>]

\* Functions on 0 .. N that are given by their first value and a step.
LEMMA Recursion ==
  ASSUME NEW N \in Nat, NEW S, NEW base \in S, NEW F,
         StepsIn(F, N, S)
  PROVE  \E g : Follows(g, F, N, S, base)
<1> DEFINE Goes(g, n) == /\ g \in [0 .. n -> S] /\ g[0] = base
                         /\ \A m \in 1 .. n : g[m] = F[<<m, g[m - 1]>>]
           T == {n \in Nat : n <= N => \E g : Goes(g, n)}
<1>1. 0 \in T
  <2> DEFINE g == [m \in 0 .. 0 |-> base]
  <2>1. Goes(g, 0)
    OBVIOUS
  <2> QED BY <2>1
<1>2. ASSUME NEW n \in Nat, n \in T PROVE n + 1 \in T
  <2> SUFFICES ASSUME n + 1 <= N PROVE \E g : Goes(g, n + 1)
    OBVIOUS
  <2>1. PICK g : Goes(g, n)
    BY <1>2
  <2> DEFINE h == [m \in 0 .. n + 1 |-> IF m = n + 1 THEN F[<<n + 1, g[n]>>] ELSE g[m]]
  <2>2. \A m \in 0 .. n : m \in 0 .. n + 1 /\ m # n + 1 /\ g[m] \in S
    BY <2>1
  <2>3. n + 1 \in 1 .. N /\ n \in 0 .. n /\ n + 1 \in 0 .. n + 1
    OBVIOUS
  <2>4. F[<<n + 1, g[n]>>] \in S
    BY <2>2, <2>3 DEF StepsIn
  <2>5. h \in [0 .. n + 1 -> S]
    BY <2>1, <2>4
  <2>6. (\A m \in 0 .. n : h[m] = g[m]) /\ h[n + 1] = F[<<n + 1, g[n]>>]
    BY <2>2, <2>3
  <2> HIDE DEF h
  <2>7. h[0] = base
    BY <2>1, <2>6
  <2>8. ASSUME NEW m \in 1 .. n + 1 PROVE h[m] = F[<<m, h[m - 1]>>]
    <3>1. CASE m = n + 1
      <4>1. m - 1 = n /\ n \in 0 .. n
        BY <3>1
      <4> QED BY <2>6, <3>1, <4>1
    <3>2. CASE m # n + 1
      <4>1. m \in 1 .. n /\ m \in 0 .. n /\ m - 1 \in 0 .. n
        BY <3>2
      <4> QED BY <2>1, <2>6, <4>1
    <3> QED BY <3>1, <3>2
  <2> QED BY <2>5, <2>7, <2>8
<1> HIDE DEF T
<1>3. Nat \subseteq T
  BY <1>1, <1>2, Induct
<1>4. \E g : Goes(g, N)
  <2> HIDE DEF Goes
  <2>1. N \in T /\ N <= N
    BY <1>3
  <2> QED BY <2>1 DEF T
<1> QED BY <1>4 DEF Follows

\* What every step keeps holds to the end.
LEMMA UpTo ==
  ASSUME NEW N \in Nat, NEW S, NEW f, f[0] \in S,
         \A m \in 1 .. N : f[m - 1] \in S => f[m] \in S
  PROVE  \A m \in 0 .. N : f[m] \in S
<1> DEFINE T == {n \in Nat : n <= N => f[n] \in S}
<1>1. 0 \in T
  OBVIOUS
<1>2. ASSUME NEW n \in Nat, n \in T PROVE n + 1 \in T
  <2> SUFFICES ASSUME n + 1 <= N PROVE f[n + 1] \in S
    OBVIOUS
  <2>1. n + 1 \in 1 .. N /\ (n + 1) - 1 = n /\ n <= N
    OBVIOUS
  <2> QED BY <1>2, <2>1
<1> HIDE DEF T
<1>3. Nat \subseteq T
  BY <1>1, <1>2, Induct
<1> QED BY <1>3 DEF T

Orders(R, D) ==
  /\ \A i \in D : <<i, i>> \notin R
  /\ \A i, j, k \in D : <<i, j>> \in R /\ <<j, k>> \in R => <<i, k>> \in R
  /\ \A i, j \in D : i # j => <<i, j>> \in R \/ <<j, i>> \in R

Ranks(p, D, R, n) ==
  /\ p \in [1 .. n -> D]
  /\ \A k \in 1 .. n :
       p[k] = CHOOSE i \in D : Cardinality({j \in D : <<j, i>> \in R}) = k - 1
  /\ \A k, l \in 1 .. n : k < l => <<p[k], p[l]>> \in R
  /\ \A i \in D : \E k \in 1 .. n : p[k] = i

\* Elements of a finite set in an order, each placed by how many come before it.
LEMMA Ranking ==
  ASSUME NEW D, IsFiniteSet(D), NEW R, Orders(R, D)
  PROVE  \E p : Ranks(p, D, R, Cardinality(D))
<1> USE DEF Orders
<1> DEFINE n == Cardinality(D)
           Before(i) == {j \in D : <<j, i>> \in R}
           count == [i \in D |-> Cardinality(Before(i))]
<1>1. n \in Nat
  BY FS_CardinalityType
<1>2. ASSUME NEW i \in D PROVE Before(i) \in SUBSET D /\ i \notin Before(i)
  OBVIOUS
<1>3. ASSUME NEW i \in D PROVE IsFiniteSet(Before(i)) /\ count[i] \in 0 .. n - 1
  <2>1. IsFiniteSet(Before(i)) /\ Cardinality(Before(i)) <= n
        /\ (n = Cardinality(Before(i)) => D = Before(i))
    BY <1>2, FS_Subset
  <2>2. Cardinality(Before(i)) # n /\ Cardinality(Before(i)) \in Nat
    BY <1>2, <2>1, FS_CardinalityType
  <2> HIDE DEF n, Before
  <2> QED BY <1>1, <2>1, <2>2
<1>4. ASSUME NEW i \in D, NEW j \in D, <<i, j>> \in R PROVE count[i] < count[j]
  <2>1. Before(i) \in SUBSET Before(j) /\ i \in Before(j) /\ i \notin Before(i)
    BY <1>4
  <2>2. IsFiniteSet(Before(i)) /\ IsFiniteSet(Before(j))
    BY <1>3
  <2> HIDE DEF Before
  <2>3. Cardinality(Before(i)) <= Cardinality(Before(j))
        /\ Cardinality(Before(i)) # Cardinality(Before(j))
    BY <2>1, <2>2, FS_Subset
  <2>4. Cardinality(Before(i)) \in Nat /\ Cardinality(Before(j)) \in Nat
    BY <2>2, FS_CardinalityType
  <2> QED BY <2>3, <2>4
<1>5. \A i, j \in D : count[i] = count[j] => i = j
  <2> SUFFICES ASSUME NEW i \in D, NEW j \in D, count[i] = count[j], i # j PROVE FALSE
    OBVIOUS
  <2>1. count[i] < count[j] \/ count[j] < count[i]
    BY <1>4
  <2>2. count[i] \in Nat /\ count[j] \in Nat
    <3>1. count[i] \in 0 .. n - 1 /\ count[j] \in 0 .. n - 1
      BY <1>3
    <3> HIDE DEF count, n
    <3> QED BY <3>1
  <2> HIDE DEF count
  <2> QED BY <2>1, <2>2
<1>6. count \in Injection(D, 0 .. n - 1)
  <2>1. count \in [D -> 0 .. n - 1]
    BY <1>3
  <2> HIDE DEF count, n
  <2> QED BY <1>5, <2>1 DEF Injection, IsInjective
<1>7. count \in Surjection(D, 0 .. n - 1)
  <2>1. IsFiniteSet(0 .. n - 1) /\ Cardinality(0 .. n - 1) = n
    <3> HIDE DEF n
    <3> QED BY <1>1, FS_Interval
  <2> QED BY <1>6, <2>1, FS_Injection
<1>8. ASSUME NEW k \in 1 .. n PROVE \E i \in D : count[i] = k - 1
  <2>1. k - 1 \in 0 .. n - 1
    <3> HIDE DEF n
    <3> QED BY <1>1
  <2> HIDE DEF count, n
  <2> QED BY <1>7, <2>1 DEF Surjection
<1> DEFINE p == [k \in 1 .. n |-> CHOOSE i \in D : Cardinality(Before(i)) = k - 1]
<1>9. ASSUME NEW k \in 1 .. n PROVE p[k] \in D /\ count[p[k]] = k - 1
  <2>1. \E i \in D : Cardinality(Before(i)) = k - 1
    BY <1>8
  <2>2. p[k] = CHOOSE i \in D : Cardinality(Before(i)) = k - 1
    OBVIOUS
  <2> HIDE DEF p, n, Before
  <2> QED BY <2>1, <2>2
<1>10. p \in [1 .. n -> D]
  BY <1>9
<1>11. \A k \in 1 .. n : p[k] = CHOOSE i \in D : Cardinality({j \in D : <<j, i>> \in R}) = k - 1
  OBVIOUS
<1> HIDE DEF p, count, Before
<1>12. ASSUME NEW k \in 1 .. n, NEW l \in 1 .. n, k < l PROVE <<p[k], p[l]>> \in R
  <2>1. p[k] # p[l]
    BY <1>1, <1>9, <1>12
  <2>2. <<p[l], p[k]>> \notin R
    <3> SUFFICES ASSUME <<p[l], p[k]>> \in R PROVE FALSE
      OBVIOUS
    <3>1. count[p[l]] < count[p[k]]
      BY <1>4, <1>9
    <3>2. l - 1 < k - 1
      BY <1>9, <3>1
    <3> HIDE DEF n
    <3> QED BY <1>1, <1>12, <3>2
  <2> QED BY <1>9, <2>1, <2>2
<1>13. ASSUME NEW i \in D PROVE \E k \in 1 .. n : p[k] = i
  <2>1. count[i] + 1 \in 1 .. n /\ (count[i] + 1) - 1 = count[i]
    <3>1. count[i] \in 0 .. n - 1
      BY <1>3
    <3> HIDE DEF n
    <3> QED BY <1>1, <3>1
  <2>2. p[count[i] + 1] \in D /\ count[p[count[i] + 1]] = count[i]
    BY <1>9, <2>1
  <2> QED BY <1>5, <2>1, <2>2
<1> QED BY <1>10, <1>11, <1>12, <1>13 DEF Ranks, n

LEMMA ContributionTyped == Contribution \in [1 .. MaxRank -> Nat]
<1> SUFFICES ASSUME NEW i \in 1 .. MaxRank PROVE Contribution[i] \in Nat
  <2>1. Contribution = [j \in 1 .. MaxRank |-> Contribution[j]]
    BY DEF Contribution
  <2> QED BY <2>1
<1> DEFINE Good(g) == g = [j \in 0 .. MaxRank |->
                        IF j = 0 THEN 1 ELSE g[j - 1] * (IF j = i THEN 1 ELSE K + j)]
           f == CHOOSE g : Good(g)
           F == [q \in (1 .. MaxRank) \X Nat |-> q[2] * (IF q[1] = i THEN 1 ELSE K + q[1])]
<1>1. MaxRank \in Nat /\ K \in Nat
  BY NumbersAssumption
<1>2. F \in [(1 .. MaxRank) \X Nat -> Nat]
  <2>1. \A q \in (1 .. MaxRank) \X Nat : q[1] \in Nat /\ q[2] \in Nat
    BY <1>1
  <2>2. \A x, y \in Nat : x * (IF y = i THEN 1 ELSE K + y) \in Nat
    BY <1>1
  <2> QED BY <2>1, <2>2
<1>3. \E g : Good(g)
  <2> HIDE DEF F
  <2>1. PICK g \in [0 .. MaxRank -> Nat] :
          g[0] = 1 /\ \A m \in 1 .. MaxRank : g[m] = F[<<m, g[m - 1]>>]
    <3>1. PICK S, base, H : S = Nat /\ base = 1 /\ H = F
      OBVIOUS
    <3>2. base \in S /\ StepsIn(H, MaxRank, S)
      BY <1>2, <3>1 DEF StepsIn
    <3>3. \E g : Follows(g, H, MaxRank, S, base)
      BY <1>1, <3>2, Recursion
    <3> QED BY <3>1, <3>3 DEF Follows
  <2>2. ASSUME NEW m \in 1 .. MaxRank
        PROVE  g[m] = g[m - 1] * (IF m = i THEN 1 ELSE K + m)
    <3>1. <<m, g[m - 1]>> \in (1 .. MaxRank) \X Nat
      BY <1>1
    <3>2. F[<<m, g[m - 1]>>] = g[m - 1] * (IF m = i THEN 1 ELSE K + m)
      BY <3>1 DEF F
    <3> QED BY <2>1, <3>2
  <2>3. \A m \in 0 .. MaxRank : m # 0 => m \in 1 .. MaxRank
    BY <1>1
  <2>4. g = [m \in 0 .. MaxRank |-> g[m]]
    OBVIOUS
  <2>5. Good(g)
    BY <2>1, <2>2, <2>3, <2>4
  <2> QED BY <2>5
<1>4. Good(f)
  BY <1>3
<1>5. Contribution[i] = f[MaxRank]
  BY DEF Contribution
<1> HIDE DEF f
<1>6. f[0] \in Nat
  BY <1>1, <1>4
<1>7. ASSUME NEW m \in 1 .. MaxRank, f[m - 1] \in Nat PROVE f[m] \in Nat
  <2>1. f[m] = f[m - 1] * (IF m = i THEN 1 ELSE K + m)
    BY <1>1, <1>4
  <2>2. \A x, y \in Nat : x * (IF y = i THEN 1 ELSE K + y) \in Nat
    BY <1>1
  <2> QED BY <1>1, <1>7, <2>1, <2>2
<1> HIDE DEF Good
<1>8. \A m \in 0 .. MaxRank : f[m] \in Nat
  BY <1>1, <1>6, <1>7, UpTo
<1> QED BY <1>1, <1>5, <1>8

\* What an id has scored after each place of a list.
Tally(id, list, g) ==
  /\ g \in [0 .. Len(list) -> Nat] /\ g[0] = 0
  /\ \A n \in 1 .. Len(list) :
       g[n] = g[n - 1] + (IF list[n] = id THEN Contribution[n] ELSE 0)
  /\ ScoreIn(id, list) = g[Len(list)]

LEMMA ScoreTallied ==
  ASSUME NEW id, NEW list, Len(list) \in 0 .. MaxRank
  PROVE  \E g : Tally(id, list, g)
<1> DEFINE N == Len(list)
           Good(g) == g = [n \in 0 .. N |->
             IF n = 0 THEN 0 ELSE g[n - 1] + (IF list[n] = id THEN Contribution[n] ELSE 0)]
           f == CHOOSE g : Good(g)
           F == [q \in (1 .. N) \X Nat |->
                   q[2] + (IF list[q[1]] = id THEN Contribution[q[1]] ELSE 0)]
<1>1. N \in Nat /\ \A m \in 1 .. N : Contribution[m] \in Nat
  BY NumbersAssumption, ContributionTyped
<1>0. ScoreIn(id, list) = f[N]
  BY DEF ScoreIn
<1> HIDE DEF N
<1>2. F \in [(1 .. N) \X Nat -> Nat]
  <2>1. \A q \in (1 .. N) \X Nat : q[1] \in 1 .. N /\ q[2] \in Nat
    OBVIOUS
  <2>2. \A x \in Nat, y \in 1 .. N : x + (IF list[y] = id THEN Contribution[y] ELSE 0) \in Nat
    BY <1>1
  <2> QED BY <2>1, <2>2
<1>3. \E g : Good(g)
  <2> HIDE DEF F
  <2>1. PICK g \in [0 .. N -> Nat] : g[0] = 0 /\ \A m \in 1 .. N : g[m] = F[<<m, g[m - 1]>>]
    <3>1. PICK S, base, H : S = Nat /\ base = 0 /\ H = F
      OBVIOUS
    <3>2. base \in S /\ StepsIn(H, N, S)
      BY <1>2, <3>1 DEF StepsIn
    <3>3. \E g : Follows(g, H, N, S, base)
      BY <1>1, <3>2, Recursion
    <3> QED BY <3>1, <3>3 DEF Follows
  <2>2. ASSUME NEW m \in 1 .. N
        PROVE  g[m] = g[m - 1] + (IF list[m] = id THEN Contribution[m] ELSE 0)
    <3>1. <<m, g[m - 1]>> \in (1 .. N) \X Nat
      BY <1>1
    <3>2. F[<<m, g[m - 1]>>] = g[m - 1] + (IF list[m] = id THEN Contribution[m] ELSE 0)
      BY <3>1 DEF F
    <3> QED BY <2>1, <3>2
  <2>3. \A m \in 0 .. N : m # 0 => m \in 1 .. N
    BY <1>1
  <2>4. g = [m \in 0 .. N |-> g[m]]
    OBVIOUS
  <2>5. Good(g)
    BY <2>1, <2>2, <2>3, <2>4
  <2> QED BY <2>5
<1>4. Good(f)
  BY <1>3
<1> HIDE DEF f
<1>5. f[0] = 0 /\ f = [n \in 0 .. N |-> f[n]]
  BY <1>1, <1>4
<1>6. ASSUME NEW m \in 1 .. N
      PROVE  f[m] = f[m - 1] + (IF list[m] = id THEN Contribution[m] ELSE 0)
  BY <1>1, <1>4
<1> HIDE DEF Good
<1>7. \A m \in 1 .. N : f[m - 1] \in Nat => f[m] \in Nat
  BY <1>1, <1>6
<1>8. \A m \in 0 .. N : f[m] \in Nat
  <2> DEFINE S == Nat
  <2>1. f[0] \in S /\ \A m \in 1 .. N : f[m - 1] \in S => f[m] \in S
    BY <1>5, <1>7
  <2> HIDE DEF S
  <2>2. \A m \in 0 .. N : f[m] \in S
    BY <1>1, <2>1, UpTo
  <2> QED BY <2>2 DEF S
<1>9. f \in [0 .. N -> Nat]
  BY <1>5, <1>8
<1> QED BY <1>0, <1>5, <1>6, <1>9 DEF Tally, N

\* What does not occur does not score.
LEMMA TallyNothing ==
  ASSUME NEW id, NEW list, Len(list) \in Nat, NEW g, Tally(id, list, g), NEW n \in 0 .. Len(list),
         \A m \in 1 .. n : list[m] # id
  PROVE  g[n] = 0
<1> DEFINE Z == {0}
<1>1. ASSUME NEW m \in 1 .. n, g[m - 1] \in Z PROVE g[m] \in Z
  <2>1. m \in 1 .. Len(list) /\ list[m] # id
    OBVIOUS
  <2>2. g[m] = g[m - 1] + 0
    BY <2>1 DEF Tally
  <2> QED BY <1>1, <2>2
<1>2. g[0] \in Z /\ n \in Nat
  BY DEF Tally
<1> HIDE DEF Z
<1>3. \A m \in 0 .. n : g[m] \in Z
  BY <1>1, <1>2, UpTo
<1> QED BY <1>2, <1>3 DEF Z

Parts(p, list, places, part) ==
  /\ Len(part) \in 0 .. Len(list)
  /\ p \in [1 .. Len(part) -> places]
  /\ \A k \in 1 .. Len(part) : part[k] = list[p[k]]
  /\ \A k, l \in 1 .. Len(part) : k < l => p[k] < p[l]

\* A part of a list keeps the order, and has each of the places once.
LEMMA PartIs ==
  ASSUME NEW S, NEW list \in Seq(S), NEW places \in SUBSET (1 .. Len(list))
  PROVE  PartAt(list, places) \in Seq(S) /\ \E p : Parts(p, list, places, PartAt(list, places))
<1> DEFINE n == Cardinality(places)
           R == {q \in places \X places : q[1] < q[2]}
<1>1. IsFiniteSet(places) /\ n \in 0 .. Len(list) /\ places \subseteq Nat
  <2>0. Len(list) \in Nat
    OBVIOUS
  <2>1. IsFiniteSet(1 .. Len(list)) /\ Cardinality(1 .. Len(list)) = Len(list) /\ Len(list) \in Nat
    BY <2>0, FS_Interval, SMTT(20)
  <2>2. IsFiniteSet(places) /\ n <= Len(list) /\ n \in Nat
    BY <2>1, FS_Subset, FS_CardinalityType
  <2> HIDE DEF n
  <2> QED BY <2>1, <2>2
<1>2. \A i, j \in places : <<i, j>> \in R <=> i < j
  OBVIOUS
<1> HIDE DEF R
<1>3. /\ \A i \in places : <<i, i>> \notin R
      /\ \A i, j, k \in places : <<i, j>> \in R /\ <<j, k>> \in R => <<i, k>> \in R
      /\ \A i, j \in places : i # j => <<i, j>> \in R \/ <<j, i>> \in R
  BY <1>1, <1>2
<1>4. PICK p \in [1 .. n -> places] :
        /\ \A k \in 1 .. n :
             p[k] = CHOOSE i \in places : Cardinality({j \in places : <<j, i>> \in R}) = k - 1
        /\ \A k, l \in 1 .. n : k < l => <<p[k], p[l]>> \in R
  <2>1. \E p : Ranks(p, places, R, n)
    BY <1>1, <1>3, Ranking DEF Orders
  <2> HIDE DEF n
  <2> QED BY <2>1 DEF Ranks
<1>5. ASSUME NEW i \in places PROVE {j \in places : <<j, i>> \in R} = {j \in places : j < i}
  BY <1>2
<1>6. ASSUME NEW k \in 1 .. n
      PROVE  p[k] = CHOOSE i \in places : Cardinality({j \in places : j < i}) = k - 1
  BY <1>4, <1>5
<1>7. PartAt(list, places) = [k \in 1 .. n |-> list[p[k]]]
  <2>1. PartAt(list, places) =
          [k \in 1 .. n |-> list[CHOOSE i \in places : Cardinality({j \in places : j < i}) = k - 1]]
    BY DEF PartAt
  <2> QED BY <1>6, <2>1, Zenon
<1> HIDE DEF n
<1>8. \A k \in 1 .. n : list[p[k]] \in S
  <2>1. \A i \in 1 .. Len(list) : list[i] \in S
    OBVIOUS
  <2>2. \A k \in 1 .. n : p[k] \in 1 .. Len(list)
    BY <1>4
  <2> QED BY <2>1, <2>2
<1>9. PartAt(list, places) \in Seq(S) /\ Len(PartAt(list, places)) = n
  BY <1>1, <1>7, <1>8
<1>10. \A k, l \in 1 .. n : k < l => p[k] < p[l]
  BY <1>2, <1>4
<1>11. PICK part : part = PartAt(list, places)
  OBVIOUS
<1>12. Len(part) = n /\ \A k \in 1 .. n : part[k] = list[p[k]]
  BY <1>7, <1>9, <1>11
<1>13. Parts(p, list, places, part)
  BY <1>1, <1>4, <1>10, <1>12 DEF Parts
<1> QED BY <1>9, <1>11, <1>13

-----------------------------------------------------------------------------
(***************************************************************************)
(* The score map after each result: every id once, with what it has scored *)
(* so far, "hybrid" when it has occurred in both lists.                    *)
(***************************************************************************)
Ids == Chunks \cup Lines
Sources == {"semantic", "grep", "hybrid"}
Entries == [id : Ids, score : Nat, source : Sources]

IdsOf(map) == {map[n].id : n \in DOMAIN map}
Distinct(map) == \A i, j \in DOMAIN map : map[i].id = map[j].id => i = j

\* One result in the score map.
ScoredOne(map, r, id, score, source) ==
  /\ r \in Seq(Entries)
  /\ Distinct(map) => Distinct(r)
  /\ IdsOf(r) = IdsOf(map) \cup {id}
  /\ \A i \in DOMAIN r : r[i].id # id => i \in DOMAIN map /\ r[i] = map[i]
  /\ \A i \in DOMAIN r : r[i].id = id =>
       \/ /\ i \in DOMAIN map /\ map[i].id = id
          /\ r[i] = [id |-> id, score |-> map[i].score + score, source |-> "hybrid"]
       \/ /\ id \notin IdsOf(map)
          /\ r[i] = [id |-> id, score |-> score, source |-> source]

LEMMA ScoredFits ==
  ASSUME NEW map \in Seq(Entries), NEW id \in Ids, NEW score \in Nat, NEW source \in Sources
  PROVE  ScoredOne(map, Scored(map, id, score, source), id, score, source)
<1>1. /\ DOMAIN map = 1 .. Len(map) /\ Len(map) \in Nat
      /\ \A i \in DOMAIN map : map[i] \in Entries /\ map[i].score \in Nat /\ map[i].id \in Ids
  <2>1. DOMAIN map = 1 .. Len(map) /\ Len(map) \in Nat /\ \A i \in DOMAIN map : map[i] \in Entries
    OBVIOUS
  <2>2. \A e \in Entries : e.score \in Nat /\ e.id \in Ids
    BY DEF Entries
  <2> QED BY <2>1, <2>2
<1>2. CASE \E n \in DOMAIN map : map[n].id = id
  <2> DEFINE r == [n \in DOMAIN map |->
                     IF map[n].id = id
                     THEN [id |-> id, score |-> map[n].score + score, source |-> "hybrid"]
                     ELSE map[n]]
  <2>1. Scored(map, id, score, source) = r
    BY <1>2 DEF Scored
  <2>2. ASSUME NEW i \in DOMAIN map, map[i].id = id
        PROVE  r[i] = [id |-> id, score |-> map[i].score + score, source |-> "hybrid"]
    BY <2>2
  <2>3. ASSUME NEW i \in DOMAIN map, map[i].id # id PROVE r[i] = map[i]
    BY <2>3
  <2>4. DOMAIN r = DOMAIN map /\ r = [i \in 1 .. Len(map) |-> r[i]]
    BY <1>1
  <2> HIDE DEF r
  <2>5. ASSUME NEW i \in DOMAIN map PROVE r[i].id = map[i].id /\ r[i] \in Entries
    <3>1. CASE map[i].id = id
      <4>1. PICK total \in Nat : total = map[i].score + score
        BY <1>1
      <4>2. r[i] = [id |-> id, score |-> total, source |-> "hybrid"]
        BY <2>2, <3>1, <4>1
      <4>3. [id |-> id, score |-> total, source |-> "hybrid"] \in Entries
        BY DEF Entries, Sources
      <4> QED BY <3>1, <4>2, <4>3
    <3>2. CASE map[i].id # id
      BY <1>1, <2>3, <3>2
    <3> QED BY <3>1, <3>2
  <2>6. r \in Seq(Entries)
    BY <1>1, <2>4, <2>5
  <2>7. Distinct(map) => Distinct(r)
    <3>1. DOMAIN r = DOMAIN map /\ \A i \in DOMAIN map : r[i].id = map[i].id
      BY <2>4, <2>5
    <3> QED BY <3>1, Zenon DEF Distinct
  <2>8. IdsOf(r) = IdsOf(map) \cup {id}
    BY <1>2, <2>4, <2>5 DEF IdsOf
  <2>9. \A i \in DOMAIN r : r[i].id # id => i \in DOMAIN map /\ r[i] = map[i]
    BY <2>3, <2>4, <2>5
  <2>10. \A i \in DOMAIN r : r[i].id = id =>
           /\ i \in DOMAIN map /\ map[i].id = id
           /\ r[i] = [id |-> id, score |-> map[i].score + score, source |-> "hybrid"]
    BY <2>2, <2>4, <2>5
  <2> QED BY <2>1, <2>6, <2>7, <2>8, <2>9, <2>10 DEF ScoredOne
<1>3. CASE ~\E n \in DOMAIN map : map[n].id = id
  <2>1. PICK e : e = [id |-> id, score |-> score, source |-> source]
    OBVIOUS
  <2>2. e \in Entries /\ e.id = id
    BY <2>1 DEF Entries
  <2>3. PICK r : r = Append(map, e)
    OBVIOUS
  <2>4. Scored(map, id, score, source) = r
    BY <1>3, <2>1, <2>3 DEF Scored
  <2>5. r \in Seq(Entries) /\ DOMAIN r = 1 .. Len(map) + 1 /\ r[Len(map) + 1] = e
        /\ \A i \in 1 .. Len(map) : r[i] = map[i]
    BY <1>1, <2>2, <2>3
  <2>6. \A i \in DOMAIN r : i \in DOMAIN map \/ i = Len(map) + 1
    BY <1>1, <2>5
  <2>7. DOMAIN map \subseteq DOMAIN r /\ Len(map) + 1 \in DOMAIN r
    BY <1>1, <2>5
  <2>8. \A i \in DOMAIN map : r[i] = map[i] /\ r[i].id # id
    BY <1>1, <1>3, <2>5
  <2>9. Distinct(map) => Distinct(r)
    BY <2>2, <2>5, <2>6, <2>8 DEF Distinct
  <2>10. IdsOf(r) = IdsOf(map) \cup {id}
    BY <2>2, <2>5, <2>6, <2>7, <2>8 DEF IdsOf
  <2>11. id \notin IdsOf(map)
    BY <1>3 DEF IdsOf
  <2>12. \A i \in DOMAIN r : r[i].id # id => i \in DOMAIN map /\ r[i] = map[i]
    BY <2>2, <2>5, <2>6, <2>8
  <2>13. \A i \in DOMAIN r : r[i].id = id => r[i] = e
    BY <2>5, <2>6, <2>8
  <2> QED BY <2>1, <2>4, <2>5, <2>9, <2>10, <2>11, <2>12, <2>13 DEF ScoredOne
<1> QED BY <1>2, <1>3

\* The score map after each result.
MapAt(g, found, hits) ==
  /\ g[0] = <<>>
  /\ \A n \in 0 .. Len(found) + Len(hits) : g[n] \in Seq(Entries)
  /\ \A n \in 1 .. Len(found) :
       g[n] = Scored(g[n - 1], found[n], Contribution[n], "semantic")
  /\ \A n \in 1 .. Len(hits) :
       g[Len(found) + n] = Scored(g[Len(found) + n - 1], hits[n], Contribution[n], "grep")
  /\ ScoreMap(found, hits) = g[Len(found) + Len(hits)]

LEMMA MapBuilt ==
  ASSUME NEW found \in Seq(Ids), NEW hits \in Seq(Ids),
         Len(found) <= MaxRank, Len(hits) <= MaxRank
  PROVE  \E g : MapAt(g, found, hits)
<1> DEFINE Next(x, n) ==
             IF n <= Len(found)
             THEN Scored(x, found[n], Contribution[n], "semantic")
             ELSE Scored(x, hits[n - Len(found)], Contribution[n - Len(found)], "grep")
           Good(g) == g = [n \in 0 .. Len(found) + Len(hits) |->
                             IF n = 0 THEN <<>>
                             ELSE LET earlier == g[n - 1]
                                      rank == IF n <= Len(found) THEN n ELSE n - Len(found)
                                  IN  IF n <= Len(found)
                                      THEN Scored(earlier, found[rank], Contribution[rank], "semantic")
                                      ELSE Scored(earlier, hits[rank], Contribution[rank], "grep")]
           f == CHOOSE g : Good(g)
<1>1. PICK N : N = Len(found) + Len(hits)
  OBVIOUS
<1>2. N \in Nat /\ Len(found) \in Nat /\ Len(hits) \in Nat
  BY <1>1
<1>3. ScoreMap(found, hits) = f[N]
  BY <1>1 DEF ScoreMap
<1>4. ASSUME NEW n \in 1 .. N, NEW x \in Seq(Entries) PROVE Next(x, n) \in Seq(Entries)
  <2>1. CASE n <= Len(found)
    <3>1. n \in 1 .. Len(found) /\ n \in 1 .. MaxRank
      BY <1>2, <2>1, NumbersAssumption
    <3>2. found[n] \in Ids /\ Contribution[n] \in Nat
      BY <3>1, ContributionTyped
    <3>3. Scored(x, found[n], Contribution[n], "semantic") \in Seq(Entries)
      BY <3>2, ScoredFits DEF ScoredOne, Sources
    <3> QED BY <2>1, <3>3
  <2>2. CASE ~(n <= Len(found))
    <3>1. n - Len(found) \in 1 .. Len(hits) /\ n - Len(found) \in 1 .. MaxRank
      BY <1>1, <1>2, <2>2, NumbersAssumption
    <3>2. hits[n - Len(found)] \in Ids /\ Contribution[n - Len(found)] \in Nat
      BY <3>1, ContributionTyped
    <3>3. Scored(x, hits[n - Len(found)], Contribution[n - Len(found)], "grep") \in Seq(Entries)
      BY <3>2, ScoredFits DEF ScoredOne, Sources
    <3> QED BY <2>2, <3>3
  <2> QED BY <2>1, <2>2
<1>5. \A g : Good(g) <=> g = [n \in 0 .. N |-> IF n = 0 THEN <<>> ELSE Next(g[n - 1], n)]
  BY <1>1
<1> HIDE DEF Good, Next
<1>6. \E g : Good(g)
  <2>1. PICK S, base, F : /\ S = Seq(Entries) /\ base = <<>>
                          /\ F = [q \in (1 .. N) \X Seq(Entries) |-> Next(q[2], q[1])]
    OBVIOUS
  <2>2. \A m \in 1 .. N : \A x \in S : F[<<m, x>>] = Next(x, m)
    BY <2>1
  <2>3. base \in S /\ StepsIn(F, N, S)
    BY <1>4, <2>1, <2>2 DEF StepsIn
  <2>4. PICK g : Follows(g, F, N, S, base)
    BY <1>2, <2>3, Recursion
  <2>5. ASSUME NEW m \in 1 .. N PROVE g[m] = Next(g[m - 1], m)
    <3>1. g[m - 1] \in S
      BY <1>2, <2>4 DEF Follows
    <3> QED BY <2>2, <2>4, <3>1 DEF Follows
  <2>6. g = [n \in 0 .. N |-> g[n]]
    BY <2>4 DEF Follows
  <2>7. \A n \in 0 .. N : g[n] = IF n = 0 THEN <<>> ELSE Next(g[n - 1], n)
    <3>1. \A n \in 0 .. N : n # 0 => n \in 1 .. N
      BY <1>2
    <3> QED BY <2>1, <2>4, <2>5, <3>1 DEF Follows
  <2>8. g = [n \in 0 .. N |-> IF n = 0 THEN <<>> ELSE Next(g[n - 1], n)]
    BY <2>6, <2>7
  <2> QED BY <1>5, <2>8
<1>7. Good(f)
  BY <1>6
<1> HIDE DEF f
<1>8. f = [n \in 0 .. N |-> IF n = 0 THEN <<>> ELSE Next(f[n - 1], n)]
  BY <1>5, <1>7
<1>9. f[0] = <<>>
  BY <1>2, <1>8
<1>10. ASSUME NEW m \in 1 .. N PROVE f[m] = Next(f[m - 1], m)
  <2>1. m \in 0 .. N /\ m # 0
    BY <1>2
  <2>2. f[m] = [n \in 0 .. N |-> IF n = 0 THEN <<>> ELSE Next(f[n - 1], n)][m]
    BY <1>8
  <2> QED BY <2>1, <2>2
<1>11. \A m \in 0 .. N : f[m] \in Seq(Entries)
  <2>1. PICK S : S = Seq(Entries)
    OBVIOUS
  <2>2. f[0] \in S /\ \A m \in 1 .. N : f[m - 1] \in S => f[m] \in S
    BY <1>4, <1>9, <1>10, <2>1
  <2>3. \A m \in 0 .. N : f[m] \in S
    BY <1>2, <2>2, UpTo
  <2> QED BY <2>1, <2>3
<1>12. ASSUME NEW n \in 1 .. Len(found)
       PROVE  f[n] = Scored(f[n - 1], found[n], Contribution[n], "semantic")
  <2>1. n \in 1 .. N /\ n <= Len(found)
    BY <1>1, <1>2
  <2> QED BY <1>10, <2>1 DEF Next
<1>13. ASSUME NEW n \in 1 .. Len(hits)
       PROVE  f[Len(found) + n] = Scored(f[Len(found) + n - 1], hits[n], Contribution[n], "grep")
  <2>1. Len(found) + n \in 1 .. N /\ ~(Len(found) + n <= Len(found))
        /\ (Len(found) + n) - Len(found) = n
    BY <1>1, <1>2
  <2>2. f[Len(found) + n] = Next(f[Len(found) + n - 1], Len(found) + n)
    BY <1>10, <2>1
  <2> QED BY <2>1, <2>2 DEF Next
<1> QED BY <1>1, <1>3, <1>9, <1>11, <1>12, <1>13 DEF MapAt

FirstOf(list, n) == {list[i] : i \in 1 .. n}

\* What a search fuses: a chunk is found once, and a line that counts as a chunk
\* counts as one that was found.
Fusible(found, hits) ==
  /\ found \in Seq(Ids) /\ Len(found) <= MaxRank
  /\ hits \in Seq(Ids) /\ Len(hits) <= MaxRank
  /\ \A i, j \in 1 .. Len(found) : found[i] = found[j] => i = j
  /\ \A i, j \in 1 .. Len(hits) :
       i # j /\ hits[i] = hits[j] => hits[i] \in FirstOf(found, Len(found))

\* The score map after n found chunks and m hits.
MapFits(map, found, hits, n, m) ==
  /\ map \in Seq(Entries) /\ Distinct(map)
  /\ IdsOf(map) = FirstOf(found, n) \cup FirstOf(hits, m)
  /\ \A i \in DOMAIN map : \A f, h :
       Tally(map[i].id, found, f) /\ Tally(map[i].id, hits, h) => map[i].score = f[n] + h[m]
  /\ \A i \in DOMAIN map :
       map[i].source = "hybrid" <=> map[i].id \in FirstOf(found, n) /\ map[i].id \in FirstOf(hits, m)

LEMMA FirstOfOneMore ==
  ASSUME NEW list, NEW n \in Nat
  PROVE  FirstOf(list, n + 1) = FirstOf(list, n) \cup {list[n + 1]} /\ FirstOf(list, 0) = {}
<1>1. \A i \in 1 .. n + 1 : i \in 1 .. n \/ i = n + 1
  OBVIOUS
<1>2. 1 .. n \subseteq 1 .. n + 1 /\ n + 1 \in 1 .. n + 1
  OBVIOUS
<1>3. \A i : i \notin 1 .. 0
  OBVIOUS
<1> QED BY <1>1, <1>2, <1>3 DEF FirstOf

LEMMA TallyGoes ==
  ASSUME NEW id, NEW list, Len(list) \in Nat, NEW g, Tally(id, list, g), NEW n \in Nat,
         n + 1 <= Len(list)
  PROVE  /\ g[n] \in Nat
         /\ list[n + 1] = id => g[n + 1] = g[n] + Contribution[n + 1]
         /\ list[n + 1] # id => g[n + 1] = g[n]
<1>1. n \in 0 .. Len(list) /\ n + 1 \in 1 .. Len(list) /\ (n + 1) - 1 = n
  OBVIOUS
<1>2. g[n] \in Nat
  BY <1>1 DEF Tally
<1>3. g[n + 1] = g[n] + (IF list[n + 1] = id THEN Contribution[n + 1] ELSE 0)
  BY <1>1 DEF Tally
<1> QED BY <1>2, <1>3

LEMMA EntryTyped ==
  ASSUME NEW map \in Seq(Entries), NEW i \in DOMAIN map
  PROVE  map[i].id \in Ids /\ map[i].score \in Nat
<1>1. map[i] \in Entries
  OBVIOUS
<1>2. \A e \in Entries : e.id \in Ids /\ e.score \in Nat
  BY DEF Entries
<1> QED BY <1>1, <1>2

LEMMA FoundFits ==
  ASSUME NEW found, NEW hits, Fusible(found, hits), NEW n \in Nat, n + 1 <= Len(found),
         NEW map, MapFits(map, found, hits, n, 0),
         NEW r, ScoredOne(map, r, found[n + 1], Contribution[n + 1], "semantic")
  PROVE  MapFits(r, found, hits, n + 1, 0)
<1> DEFINE it == found[n + 1]
           score == Contribution[n + 1]
<1>1. Len(found) \in Nat /\ Len(hits) \in Nat /\ MaxRank \in Nat
  BY NumbersAssumption DEF Fusible
<1>2. n + 1 \in 1 .. MaxRank /\ score \in Nat
  BY <1>1, ContributionTyped DEF Fusible
<1>3. it \notin IdsOf(map)
  <2> SUFFICES ASSUME it \in IdsOf(map) PROVE FALSE
    OBVIOUS
  <2>1. FirstOf(hits, 0) = {}
    BY FirstOfOneMore
  <2>2. it \in FirstOf(found, n)
    BY <2>1 DEF MapFits
  <2>3. PICK i \in 1 .. n : found[i] = found[n + 1]
    BY <2>2 DEF FirstOf
  <2>4. i \in 1 .. Len(found) /\ n + 1 \in 1 .. Len(found) /\ i # n + 1
    BY <1>1
  <2> QED BY <2>3, <2>4 DEF Fusible
<1>4. r \in Seq(Entries) /\ Distinct(r) /\ IdsOf(r) = IdsOf(map) \cup {it}
  BY DEF ScoredOne, MapFits
<1>5. IdsOf(r) = FirstOf(found, n + 1) \cup FirstOf(hits, 0)
  BY <1>4, FirstOfOneMore DEF MapFits
<1>6. ASSUME NEW i \in DOMAIN r, r[i].id # it
      PROVE  i \in DOMAIN map /\ r[i] = map[i]
  BY <1>6 DEF ScoredOne
<1>7. ASSUME NEW i \in DOMAIN r, r[i].id = it
      PROVE  r[i] = [id |-> it, score |-> score, source |-> "semantic"]
  <2>1. ~(i \in DOMAIN map /\ map[i].id = it)
    BY <1>3 DEF IdsOf
  <2> QED BY <1>7, <2>1 DEF ScoredOne
<1>8. ASSUME NEW i \in DOMAIN r, NEW f, NEW h,
             Tally(r[i].id, found, f), Tally(r[i].id, hits, h)
      PROVE  r[i].score = f[n + 1] + h[0]
  <2>0. PICK x : x = r[i].id
    OBVIOUS
  <2>10. Tally(x, found, f) /\ Tally(x, hits, h)
    BY <1>8, <2>0
  <2>11. r[i].id = it <=> x = it
    BY <2>0
  <2>1. h[0] = 0
    BY <1>8 DEF Tally
  <2>2. CASE r[i].id = it
    <3>0. found[n + 1] = x
      BY <2>2, <2>11
    <3>1. f[n + 1] = f[n] + score /\ f[n] \in Nat
      BY <1>1, <2>10, <3>0, TallyGoes
    <3>2. \A m \in 1 .. n : found[m] # x
      <4>1. \A m \in 1 .. n : m \in 1 .. Len(found) /\ n + 1 \in 1 .. Len(found) /\ m # n + 1
        BY <1>1
      <4> QED BY <2>0, <2>2, <4>1 DEF Fusible
    <3>3. n \in 0 .. Len(found)
      BY <1>1
    <3>4. f[n] = 0
      BY <1>1, <2>10, <3>2, <3>3, TallyNothing
    <3>5. r[i].score = score
      BY <1>7, <2>2
    <3> HIDE DEF score
    <3> QED BY <1>2, <2>1, <3>1, <3>4, <3>5
  <2>3. CASE r[i].id # it
    <3>0. found[n + 1] # x
      BY <2>3, <2>11
    <3>1. f[n + 1] = f[n]
      BY <1>1, <2>10, <3>0, TallyGoes
    <3>2. map[i].score = f[n] + h[0]
      BY <1>6, <1>8, <2>3 DEF MapFits
    <3> QED BY <1>6, <2>3, <3>1, <3>2
  <2> QED BY <2>2, <2>3
<1>9. ASSUME NEW i \in DOMAIN r
      PROVE  r[i].source = "hybrid" <=>
               r[i].id \in FirstOf(found, n + 1) /\ r[i].id \in FirstOf(hits, 0)
  <2>1. FirstOf(hits, 0) = {}
    BY FirstOfOneMore
  <2>2. CASE r[i].id = it
    <3>1. r[i].source = "semantic"
      BY <1>7, <2>2
    <3> QED BY <2>1, <3>1
  <2>3. CASE r[i].id # it
    <3>1. map[i].source # "hybrid"
      BY <1>6, <2>1, <2>3 DEF MapFits
    <3> QED BY <1>6, <2>1, <2>3, <3>1
  <2> QED BY <2>2, <2>3
<1> QED BY <1>4, <1>5, <1>8, <1>9 DEF MapFits

LEMMA HitFits ==
  ASSUME NEW found, NEW hits, Fusible(found, hits), NEW n \in Nat, n + 1 <= Len(hits),
         NEW map, MapFits(map, found, hits, Len(found), n),
         NEW r, ScoredOne(map, r, hits[n + 1], Contribution[n + 1], "grep")
  PROVE  MapFits(r, found, hits, Len(found), n + 1)
<1> DEFINE it == hits[n + 1]
           score == Contribution[n + 1]
<1>1. Len(found) \in Nat /\ Len(hits) \in Nat /\ MaxRank \in Nat
  BY NumbersAssumption DEF Fusible
<1>2. n + 1 \in 1 .. MaxRank /\ score \in Nat
  BY <1>1, ContributionTyped DEF Fusible
<1>3. map \in Seq(Entries) /\ Distinct(map)
      /\ IdsOf(map) = FirstOf(found, Len(found)) \cup FirstOf(hits, n)
  BY DEF MapFits
<1>4. r \in Seq(Entries) /\ Distinct(r) /\ IdsOf(r) = IdsOf(map) \cup {it}
  BY <1>3 DEF ScoredOne
<1>0. FirstOf(hits, n + 1) = FirstOf(hits, n) \cup {it}
  BY FirstOfOneMore
<1>5. IdsOf(r) = FirstOf(found, Len(found)) \cup FirstOf(hits, n + 1)
  BY <1>0, <1>3, <1>4
<1>6. ASSUME NEW i \in DOMAIN r, r[i].id # it
      PROVE  i \in DOMAIN map /\ r[i] = map[i]
  BY <1>6 DEF ScoredOne
<1>7. ASSUME NEW i \in DOMAIN r, r[i].id = it
      PROVE  \/ /\ i \in DOMAIN map /\ map[i].id = it
                /\ r[i] = [id |-> it, score |-> map[i].score + score, source |-> "hybrid"]
             \/ /\ it \notin IdsOf(map)
                /\ r[i] = [id |-> it, score |-> score, source |-> "grep"]
  BY <1>7 DEF ScoredOne
<1>10. ASSUME NEW x, NEW h, Tally(x, hits, h)
       PROVE  /\ hits[n + 1] = x => h[n + 1] = h[n] + Contribution[n + 1]
              /\ hits[n + 1] # x => h[n + 1] = h[n]
  <2>1. n + 1 \in 1 .. Len(hits) /\ (n + 1) - 1 = n
    BY <1>1
  <2>2. h[n] \in Nat
    <3>1. n \in 0 .. Len(hits)
      BY <1>1
    <3> QED BY <1>10, <3>1 DEF Tally
  <2>3. h[n + 1] = h[(n + 1) - 1] + (IF hits[n + 1] = x THEN Contribution[n + 1] ELSE 0)
    BY <1>10, <2>1 DEF Tally
  <2> QED BY <2>1, <2>2, <2>3
<1>8. ASSUME NEW i \in DOMAIN r, NEW f, NEW h,
             Tally(r[i].id, found, f), Tally(r[i].id, hits, h)
      PROVE  r[i].score = f[Len(found)] + h[n + 1]
  <2>0. PICK x : x = r[i].id
    OBVIOUS
  <2>10. Tally(x, found, f) /\ Tally(x, hits, h)
    BY <1>8, <2>0
  <2>11. r[i].id = it <=> x = it
    BY <2>0
  <2>1. f[Len(found)] \in Nat /\ h[n] \in Nat
    BY <1>1, <1>8 DEF Tally
  <2>2. CASE r[i].id # it
    <3>0. hits[n + 1] # x
      BY <2>2, <2>11
    <3>1. h[n + 1] = h[n]
      BY <1>10, <2>10, <3>0
    <3>2. map[i].score = f[Len(found)] + h[n]
      BY <1>6, <1>8, <2>2 DEF MapFits
    <3> QED BY <1>6, <2>2, <3>1, <3>2
  <2>3. ASSUME r[i].id = it PROVE h[n + 1] = h[n] + score
    <3>0. hits[n + 1] = x
      BY <2>3, <2>11
    <3> QED BY <1>10, <2>10, <3>0
  <2>4. CASE /\ i \in DOMAIN map /\ map[i].id = it
             /\ r[i] = [id |-> it, score |-> map[i].score + score, source |-> "hybrid"]
    <3>1. r[i].id = it /\ r[i].score = map[i].score + score
      BY <2>4
    <3>2. map[i].score = f[Len(found)] + h[n]
      BY <1>8, <2>4, <3>1 DEF MapFits
    <3>3. h[n + 1] = h[n] + score
      BY <2>3, <3>1
    <3> HIDE DEF score
    <3> QED BY <1>2, <2>1, <3>1, <3>2, <3>3
  <2>5. CASE /\ it \notin IdsOf(map)
             /\ r[i] = [id |-> it, score |-> score, source |-> "grep"]
    <3>1. r[i].id = it /\ r[i].score = score
      BY <2>5
    <3>2. \A m \in 1 .. Len(found) : found[m] # x
      BY <1>3, <2>0, <2>5, <3>1 DEF FirstOf
    <3>3. \A m \in 1 .. n : hits[m] # x
      BY <1>3, <2>0, <2>5, <3>1 DEF FirstOf
    <3>4. Len(found) \in 0 .. Len(found) /\ n \in 0 .. Len(hits)
      BY <1>1
    <3>5. f[Len(found)] = 0
      BY <1>1, <2>10, <3>2, <3>4, TallyNothing
    <3>6. h[n] = 0
      BY <1>1, <2>10, <3>3, <3>4, TallyNothing
    <3>7. h[n + 1] = h[n] + score
      BY <2>3, <3>1
    <3> HIDE DEF score
    <3> QED BY <1>2, <3>1, <3>5, <3>6, <3>7
  <2> QED BY <1>7, <2>2, <2>4, <2>5
<1>9. ASSUME NEW i \in DOMAIN r
      PROVE  r[i].source = "hybrid" <=>
               r[i].id \in FirstOf(found, Len(found)) /\ r[i].id \in FirstOf(hits, n + 1)
  <2>1. CASE r[i].id # it
    <3>1. r[i].id \in FirstOf(hits, n + 1) <=> r[i].id \in FirstOf(hits, n)
      BY <1>0, <2>1
    <3>2. map[i].source = "hybrid" <=>
            map[i].id \in FirstOf(found, Len(found)) /\ map[i].id \in FirstOf(hits, n)
      BY <1>6, <2>1 DEF MapFits
    <3> QED BY <1>6, <2>1, <3>1, <3>2
  <2>2. CASE /\ i \in DOMAIN map /\ map[i].id = it
             /\ r[i] = [id |-> it, score |-> map[i].score + score, source |-> "hybrid"]
    <3>1. r[i].id = it /\ r[i].source = "hybrid" /\ it \in FirstOf(hits, n + 1)
      BY <1>0, <2>2
    <3>2. it \in FirstOf(found, Len(found)) \cup FirstOf(hits, n)
      BY <1>3, <2>2 DEF IdsOf
    <3>3. ASSUME it \in FirstOf(hits, n) PROVE it \in FirstOf(found, Len(found))
      <4>1. PICK m \in 1 .. n : hits[m] = hits[n + 1]
        BY <3>3 DEF FirstOf
      <4>2. m \in 1 .. Len(hits) /\ n + 1 \in 1 .. Len(hits) /\ m # n + 1
        BY <1>1
      <4> QED BY <4>1, <4>2 DEF Fusible
    <3> QED BY <3>1, <3>2, <3>3
  <2>3. CASE /\ it \notin IdsOf(map)
             /\ r[i] = [id |-> it, score |-> score, source |-> "grep"]
    <3>1. r[i].id = it /\ r[i].source = "grep" /\ it \notin FirstOf(found, Len(found))
      BY <1>3, <2>3
    <3> QED BY <3>1
  <2> QED BY <1>7, <2>1, <2>2, <2>3
<1> QED BY <1>4, <1>5, <1>8, <1>9 DEF MapFits

LEMMA MapAtEnd ==
  ASSUME NEW found, NEW hits, Fusible(found, hits)
  PROVE  MapFits(ScoreMap(found, hits), found, hits, Len(found), Len(hits))
<1>1. PICK g : MapAt(g, found, hits)
  BY MapBuilt DEF Fusible
<1>2. PICK a, b : a = Len(found) /\ b = Len(hits)
  OBVIOUS
<1>3. a \in Nat /\ b \in Nat /\ MaxRank \in Nat /\ a <= MaxRank /\ b <= MaxRank
  BY <1>2, NumbersAssumption DEF Fusible
<1>4. MapFits(g[0], found, hits, 0, 0)
  <2>1. g[0] = <<>> /\ DOMAIN g[0] = {} /\ <<>> \in Seq(Entries)
    BY <1>1 DEF MapAt
  <2> QED BY <2>1, FirstOfOneMore DEF MapFits, Distinct, IdsOf
<1>5. ASSUME NEW n \in Nat, n + 1 <= a, MapFits(g[n], found, hits, n, 0)
      PROVE  MapFits(g[n + 1], found, hits, n + 1, 0)
  <2>1. n + 1 \in 1 .. a /\ n + 1 \in 1 .. MaxRank /\ (n + 1) - 1 = n
    BY <1>3, <1>5
  <2>2. found[n + 1] \in Ids /\ Contribution[n + 1] \in Nat
    BY <1>2, <2>1, ContributionTyped DEF Fusible
  <2>3. g[n + 1] = Scored(g[n], found[n + 1], Contribution[n + 1], "semantic")
    BY <1>1, <1>2, <2>1 DEF MapAt
  <2>4. g[n] \in Seq(Entries) /\ "semantic" \in Sources
    BY <1>5 DEF MapFits, Sources
  <2>5. ScoredOne(g[n], g[n + 1], found[n + 1], Contribution[n + 1], "semantic")
    BY <2>2, <2>3, <2>4, ScoredFits
  <2> QED BY <1>2, <1>5, <2>5, FoundFits
<1>6. ASSUME NEW n \in Nat, n + 1 <= b, MapFits(g[a + n], found, hits, a, n)
      PROVE  MapFits(g[a + (n + 1)], found, hits, a, n + 1)
  <2>1. n + 1 \in 1 .. b /\ n + 1 \in 1 .. MaxRank /\ a + (n + 1) - 1 = a + n
    BY <1>3, <1>6
  <2>2. hits[n + 1] \in Ids /\ Contribution[n + 1] \in Nat
    BY <1>2, <2>1, ContributionTyped DEF Fusible
  <2>3. g[a + (n + 1)] = Scored(g[a + n], hits[n + 1], Contribution[n + 1], "grep")
    BY <1>1, <1>2, <2>1 DEF MapAt
  <2>4. g[a + n] \in Seq(Entries) /\ "grep" \in Sources
    BY <1>6 DEF MapFits, Sources
  <2>5. ScoredOne(g[a + n], g[a + (n + 1)], hits[n + 1], Contribution[n + 1], "grep")
    BY <2>2, <2>3, <2>4, ScoredFits
  <2> QED BY <1>2, <1>6, <2>5, HitFits
<1>7. MapFits(g[a], found, hits, a, 0)
  <2> DEFINE T == {n \in Nat : n <= a => MapFits(g[n], found, hits, n, 0)}
  <2>1. 0 \in T
    BY <1>4
  <2>2. \A n \in Nat : n \in T => n + 1 \in T
    BY <1>3, <1>5
  <2> HIDE DEF T
  <2>3. a \in T
    BY <1>3, <2>1, <2>2, Induct
  <2> QED BY <1>3, <2>3 DEF T
<1>8. MapFits(g[a + b], found, hits, a, b)
  <2> DEFINE T == {n \in Nat : n <= b => MapFits(g[a + n], found, hits, a, n)}
  <2>1. 0 \in T
    <3>1. a + 0 = a
      BY <1>3
    <3> QED BY <1>7, <3>1
  <2>2. \A n \in Nat : n \in T => n + 1 \in T
    BY <1>3, <1>6
  <2> HIDE DEF T
  <2>3. b \in T
    BY <1>3, <2>1, <2>2, Induct
  <2> QED BY <1>3, <2>3 DEF T
<1> QED BY <1>1, <1>2, <1>8 DEF MapAt

-----------------------------------------------------------------------------
(***************************************************************************)
(* The order of the entries and the best of them.                          *)
(***************************************************************************)
Sorts(p, map, ordered) ==
  /\ ordered \in Seq(Entries) /\ Len(ordered) = Len(map)
  /\ p \in [1 .. Len(map) -> 1 .. Len(map)]
  /\ \A k \in 1 .. Len(map) : ordered[k] = map[p[k]]
  /\ \A k, l \in 1 .. Len(map) : k < l => Ahead(map, p[k], p[l]) /\ p[k] # p[l]
  /\ \A i \in 1 .. Len(map) : \E k \in 1 .. Len(map) : p[k] = i

\* The order of a list of entries puts each of them at one place.
LEMMA OrderIs ==
  ASSUME NEW map \in Seq(Entries), absolute \in BOOLEAN
  PROVE  \E p : Sorts(p, map, InOrder(map))
<1>1. PICK N, D : N = Len(map) /\ D = 1 .. N
  OBVIOUS
<1>2. N \in Nat /\ DOMAIN map = D /\ D \subseteq Nat
  BY <1>1
<1>3. IsFiniteSet(D) /\ Cardinality(D) = N
  <2>1. IsFiniteSet(1 .. N) /\ Cardinality(1 .. N) = N
    BY <1>2, FS_Interval, SMTT(20)
  <2> QED BY <1>1, <2>1
<1>4. PICK R : \A i, j \in D : <<i, j>> \in R <=> Ahead(map, i, j)
  <2> DEFINE Q == {q \in D \X D : Ahead(map, q[1], q[2])}
  <2>1. \A i, j \in D : <<i, j>> \in Q <=> Ahead(map, i, j)
    OBVIOUS
  <2> QED BY <2>1
<1>5. PICK s, t : /\ s \in [D -> Nat] /\ t \in [D -> Nat]
                  /\ \A i \in D : s[i] = map[i].score /\ t[i] = Place(map[i].id)
  <2>1. \A i \in D : map[i].score \in Nat /\ map[i].id \in Ids
    BY <1>2, EntryTyped
  <2>2. \A id \in Ids : Place(id) \in Nat
    BY RankAssumption DEF Place, Ids
  <2> DEFINE ss == [i \in D |-> map[i].score]
             tt == [i \in D |-> Place(map[i].id)]
  <2>3. ss \in [D -> Nat] /\ tt \in [D -> Nat]
    BY <2>1, <2>2
  <2>4. \A i \in D : ss[i] = map[i].score /\ tt[i] = Place(map[i].id)
    OBVIOUS
  <2> HIDE DEF ss, tt
  <2> QED BY <2>3, <2>4
<1>6. \A i, j \in D : <<i, j>> \in R <=>
        \/ s[i] > s[j]
        \/ s[i] = s[j] /\ t[i] < t[j]
        \/ s[i] = s[j] /\ t[i] = t[j] /\ i < j
  <2> SUFFICES ASSUME NEW i \in D, NEW j \in D
               PROVE  <<i, j>> \in R <=>
                        \/ s[i] > s[j]
                        \/ s[i] = s[j] /\ t[i] < t[j]
                        \/ s[i] = s[j] /\ t[i] = t[j] /\ i < j
    OBVIOUS
  <2>1. /\ map[i].score = s[i] /\ Place(map[i].id) = t[i]
        /\ map[j].score = s[j] /\ Place(map[j].id) = t[j]
    BY <1>5
  <2>2. PICK a, b, c, d : /\ a = s[i] /\ b = t[i] /\ c = s[j] /\ d = t[j]
    OBVIOUS
  <2>3. Ahead(map, i, j) <=> a > c \/ (a = c /\ b < d) \/ (a = c /\ b = d /\ i < j)
    BY <2>1, <2>2, Zenon DEF Ahead
  <2> QED BY <1>4, <2>2, <2>3
<1>7. /\ \A i \in D : <<i, i>> \notin R
      /\ \A i, j, k \in D : <<i, j>> \in R /\ <<j, k>> \in R => <<i, k>> \in R
      /\ \A i, j \in D : i # j => <<i, j>> \in R \/ <<j, i>> \in R
  <2>1. \A i \in D : s[i] \in Nat /\ t[i] \in Nat /\ i \in Nat
    BY <1>2, <1>5
  <2>2. ASSUME NEW i \in D PROVE <<i, i>> \notin R
    BY <1>6, <2>1
  <2>3. ASSUME NEW i \in D, NEW j \in D, NEW k \in D, <<i, j>> \in R, <<j, k>> \in R
        PROVE  <<i, k>> \in R
    <3> DEFINE Before(a, b, c, x, y, z) == a > x \/ (a = x /\ b < y) \/ (a = x /\ b = y /\ c < z)
    <3>1. \A a, b, c, x, y, z, u, v, w \in Nat :
            Before(a, b, c, x, y, z) /\ Before(x, y, z, u, v, w) => Before(a, b, c, u, v, w)
      OBVIOUS
    <3>2. Before(s[i], t[i], i, s[j], t[j], j) /\ Before(s[j], t[j], j, s[k], t[k], k)
      BY <1>6, <2>3
    <3>3. Before(s[i], t[i], i, s[k], t[k], k) => <<i, k>> \in R
      BY <1>6
    <3> HIDE DEF Before
    <3> QED BY <2>1, <3>1, <3>2, <3>3
  <2>4. ASSUME NEW i \in D, NEW j \in D, i # j PROVE <<i, j>> \in R \/ <<j, i>> \in R
    BY <1>6, <2>1, <2>4
  <2> QED BY <2>2, <2>3, <2>4
<1>8. PICK p \in [1 .. N -> D] :
        /\ \A k \in 1 .. N :
             p[k] = CHOOSE i \in D : Cardinality({j \in D : <<j, i>> \in R}) = k - 1
        /\ \A k, l \in 1 .. N : k < l => <<p[k], p[l]>> \in R
        /\ \A i \in D : \E k \in 1 .. N : p[k] = i
  <2>1. \E p : Ranks(p, D, R, Cardinality(D))
    BY <1>3, <1>7, Ranking DEF Orders
  <2>2. Cardinality(D) = N
    BY <1>3
  <2> QED BY <2>1, <2>2 DEF Ranks
<1>9. ASSUME NEW i \in D PROVE {j \in D : <<j, i>> \in R} = {j \in D : Ahead(map, j, i)}
  BY <1>4
<1>10. ASSUME NEW k \in 1 .. N
       PROVE  p[k] = CHOOSE i \in D : Cardinality({j \in D : Ahead(map, j, i)}) = k - 1
  BY <1>8, <1>9
<1>11. InOrder(map) = [k \in 1 .. N |-> map[p[k]]]
  <2>1. InOrder(map) =
          [k \in 1 .. N |->
             map[CHOOSE i \in D : Cardinality({j \in D : Ahead(map, j, i)}) = k - 1]]
    BY <1>1, <1>2 DEF InOrder
  <2> QED BY <1>10, <2>1, Zenon
<1>12. \A k \in 1 .. N : map[p[k]] \in Entries
  BY <1>1, <1>2, <1>8
<1>13. InOrder(map) \in Seq(Entries) /\ Len(InOrder(map)) = N
  BY <1>2, <1>11, <1>12
<1>14. \A k, l \in 1 .. N : k < l => Ahead(map, p[k], p[l]) /\ p[k] # p[l]
  BY <1>4, <1>7, <1>8
<1>15. \A k \in 1 .. N : InOrder(map)[k] = map[p[k]]
  BY <1>11
<1>16. p \in [1 .. N -> 1 .. N] /\ \A i \in 1 .. N : \E k \in 1 .. N : p[k] = i
  BY <1>1, <1>8
<1>17. PICK ordered : ordered = InOrder(map)
  OBVIOUS
<1>18. Sorts(p, map, ordered)
  <2>1. N = Len(map)
    BY <1>1
  <2>2. ordered \in Seq(Entries) /\ Len(ordered) = Len(map)
    BY <1>13, <1>17, <2>1
  <2>3. p \in [1 .. Len(map) -> 1 .. Len(map)]
        /\ \A i \in 1 .. Len(map) : \E k \in 1 .. Len(map) : p[k] = i
    BY <1>16, <2>1
  <2>4. \A k \in 1 .. Len(map) : ordered[k] = map[p[k]]
    BY <1>15, <1>17, <2>1
  <2>5. \A k, l \in 1 .. Len(map) : k < l => Ahead(map, p[k], p[l]) /\ p[k] # p[l]
    BY <1>14, <2>1
  <2> QED BY <2>2, <2>3, <2>4, <2>5 DEF Sorts
<1> QED BY <1>17, <1>18

\* A list that holds nothing twice has as many elements as places.
Once(f, n) == \A i, j \in 1 .. n : f[i] = f[j] => i = j

LEMMA AsManyAsPlaces ==
  ASSUME NEW n \in Nat, NEW f, Once(f, n)
  PROVE  Cardinality(FirstOf(f, n)) = n
<1> DEFINE T == {f[i] : i \in 1 .. n}
           g == [i \in 1 .. n |-> f[i]]
<1>1. IsFiniteSet(1 .. n) /\ Cardinality(1 .. n) = n
  BY FS_Interval, SMTT(20)
<1>2. g \in Surjection(1 .. n, T)
  BY DEF Surjection
<1>3. g \in Bijection(1 .. n, T)
  BY <1>2 DEF Bijection, Injection, IsInjective, Surjection, Once
<1> HIDE DEF g, T
<1>4. IsFiniteSet(T) /\ Cardinality(T) = n
  BY <1>1, <1>3, FS_Bijection DEF ExistsBijection
<1> QED BY <1>4 DEF T, FirstOf

\* What AnswersAreFused says of one answer.
IsFusion(results, found, hits) ==
  LET all == Range(found) \cup Range(hits)
      ids == {results[i].id : i \in DOMAIN results}
      score(id) == ReferenceScore(id, found, hits)
  IN  /\ Len(results) = Cardinality(ids)
      /\ Len(results) = (IF Cardinality(all) < TopK THEN Cardinality(all) ELSE TopK)
      /\ \A i \in DOMAIN results :
            /\ results[i].score = score(results[i].id)
            /\ (results[i].source = "hybrid") <=>
                 (results[i].id \in Range(found) \cap Range(hits))
            /\ i > 1 => results[i - 1].score >= results[i].score
            /\ \A id \in all \ ids : score(id) <= results[i].score

LEMMA RangeIsAll ==
  ASSUME NEW list \in Seq(Ids)
  PROVE  Range(list) = FirstOf(list, Len(list))
<1>1. DOMAIN list = 1 .. Len(list)
  OBVIOUS
<1> QED BY <1>1 DEF Range, FirstOf

\* The scores of the map are the reference scores.
LEMMA ScoresAreRight ==
  ASSUME NEW found, NEW hits, Fusible(found, hits),
         NEW map, MapFits(map, found, hits, Len(found), Len(hits)), NEW i \in DOMAIN map
  PROVE  map[i].score = ReferenceScore(map[i].id, found, hits)
<1>1. Len(found) \in 0 .. MaxRank /\ Len(hits) \in 0 .. MaxRank
  BY NumbersAssumption DEF Fusible
<1>2. PICK id : id = map[i].id
  OBVIOUS
<1>3. PICK f : Tally(id, found, f)
  BY <1>1, ScoreTallied
<1>4. PICK h : Tally(id, hits, h)
  BY <1>1, ScoreTallied
<1>5. map[i].score = f[Len(found)] + h[Len(hits)]
  BY <1>2, <1>3, <1>4 DEF MapFits
<1>6. ScoreIn(id, found) = f[Len(found)] /\ ScoreIn(id, hits) = h[Len(hits)]
  BY <1>3, <1>4 DEF Tally
<1> QED BY <1>2, <1>5, <1>6 DEF ReferenceScore

LEMMA FusedRight ==
  ASSUME NEW found, NEW hits, Fusible(found, hits), absolute \in BOOLEAN
  PROVE  IsFusion(FuseResults(found, hits), found, hits)
<1>1. PICK map : map = ScoreMap(found, hits)
  OBVIOUS
<1>2. MapFits(map, found, hits, Len(found), Len(hits))
  BY <1>1, MapAtEnd
<1>3. map \in Seq(Entries) /\ Distinct(map)
  BY <1>2 DEF MapFits
<1>4. PICK ordered : ordered = InOrder(map)
  OBVIOUS
<1>5. PICK p : Sorts(p, map, ordered)
  BY <1>3, <1>4, OrderIs
<1>6. PICK N, all : N = Len(map) /\ all = Range(found) \cup Range(hits)
  OBVIOUS
<1>7. N \in Nat /\ DOMAIN map = 1 .. N
  BY <1>3, <1>6
<1>8. all = {map[i].id : i \in 1 .. N}
  <2>1. IdsOf(map) = all
    BY <1>2, <1>6, RangeIsAll DEF MapFits, Fusible
  <2> QED BY <1>7, <2>1 DEF IdsOf
<1>9. Cardinality(all) = N
  <2>1. PICK f : f = [i \in 1 .. N |-> map[i].id]
    OBVIOUS
  <2>2. Once(f, N)
    BY <1>3, <1>7, <2>1 DEF Distinct, Once
  <2>3. all = FirstOf(f, N)
    BY <1>8, <2>1 DEF FirstOf
  <2> QED BY <1>7, <2>2, <2>3, AsManyAsPlaces
<1>10. PICK M : M = IF N < TopK THEN N ELSE TopK
  OBVIOUS
<1>11. M \in 0 .. N /\ M \in Nat /\ M = IF TopK < N THEN TopK ELSE N
  BY <1>7, <1>10, NumbersAssumption
<1>12. PICK results : results = FuseResults(found, hits)
  OBVIOUS
<1>13. ordered \in Seq(Entries) /\ Len(ordered) = N
  BY <1>5, <1>6 DEF Sorts
<1>14. results = [k \in 1 .. M |-> ordered[k]]
  <2>1. results = SubSeq(ordered, 1, M)
    BY <1>1, <1>4, <1>11, <1>12, <1>13 DEF FuseResults, Take
  <2> QED BY <1>11, <1>13, <2>1
<1>15. DOMAIN results = 1 .. M /\ Len(results) = M
  BY <1>11, <1>14
<1>16. /\ p \in [1 .. N -> 1 .. N]
       /\ \A k \in 1 .. N : ordered[k] = map[p[k]]
       /\ \A k, l \in 1 .. N : k < l => Ahead(map, p[k], p[l]) /\ p[k] # p[l]
       /\ \A i \in 1 .. N : \E k \in 1 .. N : p[k] = i
  BY <1>5, <1>6 DEF Sorts
<1>17. ASSUME NEW k \in 1 .. M
       PROVE  k \in 1 .. N /\ p[k] \in 1 .. N /\ results[k] = map[p[k]]
  <2>1. k \in 1 .. N
    BY <1>7, <1>11
  <2>2. results[k] = ordered[k] /\ ordered[k] = map[p[k]]
    BY <1>14, <1>16, <2>1
  <2> QED BY <1>16, <2>1, <2>2
<1> DEFINE ids == {results[i].id : i \in DOMAIN results}
<1>18. Len(results) = Cardinality(ids)
  <2>1. PICK f : f = [i \in 1 .. M |-> results[i].id]
    OBVIOUS
  <2>2. ASSUME NEW i \in 1 .. M, NEW j \in 1 .. M, f[i] = f[j] PROVE i = j
    <3>1. map[p[i]].id = map[p[j]].id
      BY <1>17, <2>1, <2>2
    <3>2. p[i] = p[j]
      BY <1>3, <1>7, <1>17, <3>1 DEF Distinct
    <3>3. i \in 1 .. N /\ j \in 1 .. N
      BY <1>17
    <3>4. ~(i < j) /\ ~(j < i)
      BY <1>16, <3>2, <3>3
    <3> QED BY <1>11, <3>4
  <2>3. ids = FirstOf(f, M)
    BY <1>15, <2>1 DEF FirstOf
  <2>4. Once(f, M)
    BY <2>2 DEF Once
  <2> HIDE DEF ids
  <2> QED BY <1>11, <1>15, <2>3, <2>4, AsManyAsPlaces
<1>19. Len(results) = (IF Cardinality(all) < TopK THEN Cardinality(all) ELSE TopK)
  BY <1>9, <1>10, <1>15
<1>20. \A i \in 1 .. N : map[i].score = ReferenceScore(map[i].id, found, hits)
                         /\ map[i].score \in Nat
  BY <1>2, <1>3, <1>7, ScoresAreRight, EntryTyped
<1>21. ASSUME NEW k \in 1 .. N, NEW l \in 1 .. N, k < l
       PROVE  map[p[k]].score >= map[p[l]].score
  <2>1. Ahead(map, p[k], p[l]) /\ p[k] \in 1 .. N /\ p[l] \in 1 .. N
    BY <1>16, <1>21
  <2>2. map[p[k]].score > map[p[l]].score \/ map[p[k]].score = map[p[l]].score
    BY <2>1 DEF Ahead
  <2>3. PICK a, b \in Nat : a = map[p[k]].score /\ b = map[p[l]].score
    BY <1>20, <2>1
  <2> QED BY <2>2, <2>3
<1>22. ASSUME NEW i \in DOMAIN results
       PROVE  results[i].score = ReferenceScore(results[i].id, found, hits)
  BY <1>15, <1>17, <1>20
<1>23. ASSUME NEW i \in DOMAIN results
       PROVE  (results[i].source = "hybrid") <=>
                (results[i].id \in Range(found) \cap Range(hits))
  <2>1. Range(found) = FirstOf(found, Len(found)) /\ Range(hits) = FirstOf(hits, Len(hits))
    BY RangeIsAll DEF Fusible
  <2>2. results[i] = map[p[i]] /\ p[i] \in DOMAIN map
    BY <1>7, <1>15, <1>17
  <2> QED BY <1>2, <2>1, <2>2 DEF MapFits
<1>24. ASSUME NEW i \in DOMAIN results, i > 1
       PROVE  results[i - 1].score >= results[i].score
  <2>1. i \in 1 .. M /\ i - 1 \in 1 .. M /\ i - 1 < i
    BY <1>11, <1>15, <1>24
  <2> QED BY <1>17, <1>21, <2>1
<1>25. ASSUME NEW i \in DOMAIN results, NEW id \in all \ ids
       PROVE  ReferenceScore(id, found, hits) <= results[i].score
  <2>1. PICK n \in 1 .. N : id = map[n].id
    BY <1>8
  <2>2. PICK l \in 1 .. N : p[l] = n
    BY <1>16
  <2>3. l \notin 1 .. M
    BY <1>15, <1>17, <2>1, <2>2
  <2>4. i \in 1 .. M /\ i \in 1 .. N /\ i < l
    BY <1>7, <1>11, <1>15, <1>17, <2>3
  <2>5. map[p[i]].score >= map[p[l]].score
    BY <1>21, <2>4
  <2>6. results[i].score = map[p[i]].score /\ p[i] \in 1 .. N
    BY <1>17, <2>4
  <2>7. ReferenceScore(id, found, hits) = map[n].score
    BY <1>20, <2>1
  <2>8. PICK a, b \in Nat : a = map[p[i]].score /\ b = map[p[l]].score
    BY <1>20, <2>2, <2>6
  <2> QED BY <2>2, <2>5, <2>6, <2>7, <2>8
<1>26. IsFusion(results, found, hits)
  <2> HIDE DEF ids
  <2> QED BY <1>6, <1>18, <1>19, <1>22, <1>23, <1>24, <1>25 DEF IsFusion, ids
<1> QED BY <1>12, <1>26

-----------------------------------------------------------------------------
(***************************************************************************)
(* What the branches find is fusible: a chunk is found once, a line is     *)
(* reported once, and only lines of a chunk that was found count as one.   *)
(***************************************************************************)
\* A list without repetition.
ListOf(list, S, bound) ==
  /\ list \in Seq(S) /\ Len(list) <= bound
  /\ \A i, j \in 1 .. Len(list) : list[i] = list[j] => i = j

\* Rows of different chunks.
RowList(rows, bound) ==
  /\ rows \in Seq(Rows) /\ Len(rows) <= bound
  /\ \A i, j \in 1 .. Len(rows) : rows[i][1] = rows[j][1] => i = j

HitsOf(list, found) == [i \in DOMAIN list |-> HitOf(list[i], found)]

LEMMA ListsAreLists ==
  ASSUME NEW S, NEW bound \in Nat, NEW list \in Lists(S, bound)
  PROVE  ListOf(list, S, bound)
<1>1. PICK n \in 0 .. bound : list \in [1 .. n -> S]
  BY DEF Lists
<1>2. list \in Seq(S) /\ Len(list) = n /\ DOMAIN list = 1 .. n
  BY <1>1
<1>3. \A i, j \in DOMAIN list : list[i] = list[j] => i = j
  BY DEF Lists
<1> QED BY <1>2, <1>3 DEF ListOf

LEMMA TakeIs ==
  ASSUME NEW S, NEW list \in Seq(S), NEW n \in Nat
  PROVE  /\ Take(n, list) \in Seq(S) /\ Len(Take(n, list)) <= Len(list)
         /\ \A i \in 1 .. Len(Take(n, list)) : i \in 1 .. Len(list) /\ Take(n, list)[i] = list[i]
<1>1. PICK m : m = IF n < Len(list) THEN n ELSE Len(list)
  OBVIOUS
<1>2. m \in 0 .. Len(list) /\ Len(list) \in Nat
  BY <1>1
<1>3. PICK r : r = Take(n, list)
  OBVIOUS
<1>4. r = SubSeq(list, 1, m)
  BY <1>1, <1>3 DEF Take
<1>5. r \in Seq(S) /\ Len(r) = m /\ \A i \in 1 .. m : r[i] = list[i]
  BY <1>2, <1>4
<1> QED BY <1>2, <1>3, <1>5

\* Merging leaves one row of each chunk.
LEMMA MergedFits ==
  ASSUME NEW bound \in Nat, NEW rows \in Seq(Rows), Len(rows) <= bound
  PROVE  RowList(Merged(rows), bound)
<1>1. PICK places : places = {n \in DOMAIN rows : IsFirst(rows, n)}
  OBVIOUS
<1>2. places \in SUBSET (1 .. Len(rows)) /\ Len(rows) \in Nat
  BY <1>1
<1>0. PICK part, p : part = PartAt(rows, places) /\ part \in Seq(Rows) /\ Parts(p, rows, places, part)
  BY <1>2, PartIs
<1>3. PICK m :
        /\ Len(part) = m
        /\ m \in 0 .. Len(rows) /\ p \in [1 .. m -> places]
        /\ \A k \in 1 .. m : part[k] = rows[p[k]]
        /\ \A k, l \in 1 .. m : k < l => p[k] < p[l]
  BY <1>0 DEF Parts
<1>4. ASSUME NEW k \in 1 .. m, NEW l \in 1 .. m, k < l PROVE part[k][1] # part[l][1]
  <2>1. p[k] \in 1 .. Len(rows) /\ p[l] \in places /\ p[l] \in 1 .. Len(rows) /\ p[k] < p[l]
    BY <1>2, <1>3, <1>4
  <2>2. p[k] \in 1 .. p[l] - 1
    BY <2>1
  <2>3. rows[p[k]][1] # rows[p[l]][1]
    BY <1>1, <2>1, <2>2 DEF IsFirst
  <2> QED BY <1>3, <2>3
<1>5. PICK r : r = Take(TopK, part)
  OBVIOUS
<1>6. /\ r \in Seq(Rows) /\ Len(r) <= m
      /\ \A i \in 1 .. Len(r) : i \in 1 .. m /\ r[i] = part[i]
  BY <1>0, <1>3, <1>5, TakeIs, NumbersAssumption
<1>7. ASSUME NEW i \in 1 .. Len(r), NEW j \in 1 .. Len(r), r[i][1] = r[j][1] PROVE i = j
  <2>1. i \in 1 .. m /\ j \in 1 .. m /\ part[i][1] = part[j][1]
    BY <1>6, <1>7
  <2>2. ~(i < j) /\ ~(j < i)
    BY <1>4, <2>1
  <2> QED BY <2>1, <2>2
<1>8. r = Merged(rows)
  BY <1>0, <1>1, <1>5 DEF Merged
<1>9. Len(r) \in Nat /\ Len(r) <= bound
  BY <1>2, <1>3, <1>6
<1>10. RowList(r, bound)
  BY <1>6, <1>7, <1>9 DEF RowList
<1> QED BY <1>8, <1>10

\* The rows that count are different chunks.
LEMMA ResolvedFits ==
  ASSUME NEW bound \in Nat, NEW rows, RowList(rows, bound), NEW kept,
         kept = PartAt(rows, {i \in DOMAIN rows : rows[i][2] # "former"})
  PROVE  ListOf([i \in DOMAIN kept |-> kept[i][1]], Chunks, bound)
<1>1. PICK places : places = {i \in DOMAIN rows : rows[i][2] # "former"}
  OBVIOUS
<1>2. rows \in Seq(Rows) /\ places \in SUBSET (1 .. Len(rows)) /\ Len(rows) \in Nat
  BY <1>1 DEF RowList
<1>0. PICK p : kept \in Seq(Rows) /\ Parts(p, rows, places, kept)
  BY <1>1, <1>2, PartIs
<1>3. PICK m :
        /\ Len(kept) = m
        /\ m \in 0 .. Len(rows) /\ p \in [1 .. m -> places]
        /\ \A k \in 1 .. m : kept[k] = rows[p[k]]
        /\ \A k, l \in 1 .. m : k < l => p[k] < p[l]
  BY <1>0 DEF Parts
<1>4. PICK r : r = [i \in DOMAIN kept |-> kept[i][1]]
  OBVIOUS
<1>5. ASSUME NEW k \in 1 .. m PROVE r[k] = kept[k][1] /\ r[k] \in Chunks
  <2>1. kept[k] \in Rows /\ r[k] = kept[k][1]
    BY <1>0, <1>3, <1>4
  <2>2. \A row \in Rows : row[1] \in Chunks
    BY DEF Rows
  <2> QED BY <2>1, <2>2
<1>6. r \in Seq(Chunks) /\ Len(r) = m
  <2>1. DOMAIN kept = 1 .. m /\ m \in Nat
    BY <1>0, <1>2, <1>3
  <2>2. r = [k \in 1 .. m |-> r[k]]
    BY <1>4, <2>1
  <2>3. \A k \in 1 .. m : r[k] \in Chunks
    BY <1>5
  <2>4. r \in [1 .. m -> Chunks]
    BY <2>2, <2>3
  <2> QED BY <2>1, <2>4
<1>7. ASSUME NEW k \in 1 .. m, NEW l \in 1 .. m, r[k] = r[l] PROVE k = l
  <2>1. p[k] \in 1 .. Len(rows) /\ p[l] \in 1 .. Len(rows)
    BY <1>2, <1>3
  <2>2. rows[p[k]][1] = rows[p[l]][1]
    BY <1>3, <1>5, <1>7
  <2>3. p[k] = p[l]
    BY <2>1, <2>2 DEF RowList
  <2>4. ~(k < l) /\ ~(l < k)
    BY <1>3, <2>1, <2>3
  <2> QED BY <1>2, <1>3, <2>4
<1>8. m <= bound
  BY <1>2, <1>3 DEF RowList
<1>9. ListOf(r, Chunks, bound)
  BY <1>6, <1>7, <1>8 DEF ListOf
<1> QED BY <1>4, <1>9

\* What a search fuses is fusible.
LEMMA HitsAreFusible ==
  ASSUME NEW s \in Searches, NEW found, ListOf(found, Chunks, MaxHits[s]),
         NEW list, ListOf(list, Lines, MaxHits[s])
  PROVE  Fusible(found, HitsOf(list, found))
<1>1. MaxHits[s] \in 0 .. MaxRank /\ MaxRank \in Nat
  BY NumbersAssumption
<1>2. /\ found \in Seq(Ids) /\ Len(found) \in Nat /\ Len(found) <= MaxRank
      /\ \A i, j \in 1 .. Len(found) : found[i] = found[j] => i = j
  BY <1>1 DEF ListOf, Ids
<1>3. PICK hits : hits = HitsOf(list, found)
  OBVIOUS
<1>4. DOMAIN list = 1 .. Len(list) /\ Len(list) \in Nat /\ Len(list) <= MaxRank
  BY <1>1 DEF ListOf
<1>5. ASSUME NEW i \in 1 .. Len(list)
      PROVE  /\ hits[i] \in Ids
             /\ hits[i] = list[i] \/ hits[i] \in FirstOf(found, Len(found))
  <2>1. hits[i] = HitOf(list[i], found) /\ list[i] \in Lines
    BY <1>3, <1>4 DEF HitsOf, ListOf
  <2>2. DOMAIN found = 1 .. Len(found)
    BY <1>2
  <2> QED BY <2>1, <2>2, WithinAssumption DEF HitOf, Ids, FirstOf, Range
<1>6. hits = [i \in 1 .. Len(list) |-> hits[i]]
  BY <1>3, <1>4 DEF HitsOf
<1>7. hits \in Seq(Ids) /\ Len(hits) = Len(list)
  BY <1>4, <1>5, <1>6
<1>8. ASSUME NEW i \in 1 .. Len(hits), NEW j \in 1 .. Len(hits), i # j, hits[i] = hits[j]
      PROVE  hits[i] \in FirstOf(found, Len(found))
  <2>1. list[i] # list[j]
    BY <1>7, <1>8 DEF ListOf
  <2> QED BY <1>5, <1>7, <1>8, <2>1
<1>9. Fusible(found, hits)
  BY <1>2, <1>4, <1>7, <1>8 DEF Fusible
<1> QED BY <1>3, <1>9

\* The shapes that no step changes.
SearchShape ==
  /\ absolute \in BOOLEAN
  /\ semantic \in [Searches -> {"none", "embedding", "reading", "resolving", "done", "failed"}]
  /\ grep \in [Searches -> {"none", "waiting", "running", "done", "failed"}]
  /\ outcome \in [Searches -> {"none", "answered", "failed"}]
  /\ DOMAIN chunks = Searches /\ DOMAIN lines = Searches /\ DOMAIN answer = Searches
  /\ chunks = [s \in Searches |-> chunks[s]] /\ lines = [s \in Searches |-> lines[s]]
  /\ answer = [s \in Searches |-> answer[s]]

\* A search waits for a slot once.
WaitsOnce ==
  /\ queue \in Seq(Searches)
  /\ \A i \in 1 .. Len(queue) : grep[queue[i]] = "waiting"
  /\ \A i, j \in 1 .. Len(queue) : queue[i] = queue[j] => i = j

BothOver(s) == semantic[s] \in {"done", "failed"} /\ grep[s] \in {"done", "failed"}

\* What the branches of one search have found, and what was made of it.
BranchFits(s) ==
  /\ semantic[s] = "none" => grep[s] = "none"
  /\ semantic[s] \in {"none", "embedding", "reading"} => chunks[s] = <<>>
  /\ semantic[s] = "resolving" => RowList(chunks[s], MaxHits[s])
  /\ semantic[s] \in {"done", "failed"} => ListOf(chunks[s], Chunks, MaxHits[s])
  /\ ListOf(lines[s], Lines, MaxHits[s])
  /\ outcome[s] = "answered" =>
       BothOver(s) /\ IsFusion(answer[s], chunks[s], HitsOf(lines[s], chunks[s]))

FusionInv == SearchShape /\ WaitsOnce /\ \A s \in Searches : BranchFits(s)

LEMMA NothingIsAList ==
  ASSUME NEW S, NEW bound \in Nat
  PROVE  ListOf(<<>>, S, bound)
<1>1. <<>> \in Seq(S) /\ Len(<<>>) = 0
  OBVIOUS
<1> QED BY <1>1 DEF ListOf

LEMMA FusionInit == SearchInit => FusionInv
<1> SUFFICES ASSUME SearchInit PROVE FusionInv
  OBVIOUS
<1>1. SearchShape
  BY FormsAssumption DEF SearchInit, SearchShape
<1>2. WaitsOnce
  BY DEF SearchInit, WaitsOnce
<1>3. ASSUME NEW s \in Searches PROVE BranchFits(s)
  <2>1. MaxHits[s] \in Nat
    BY NumbersAssumption
  <2>2. /\ semantic[s] = "none" /\ grep[s] = "none" /\ outcome[s] = "none"
        /\ chunks[s] = <<>> /\ lines[s] = <<>>
    BY DEF SearchInit
  <2> QED BY <2>1, <2>2, NothingIsAList DEF BranchFits
<1> QED BY <1>1, <1>2, <1>3 DEF FusionInv

\* Nothing of another search changes.
Alone(s) ==
  \A t \in Searches \ {s} :
    /\ semantic'[t] = semantic[t] /\ grep'[t] = grep[t] /\ outcome'[t] = outcome[t]
    /\ chunks'[t] = chunks[t] /\ lines'[t] = lines[t] /\ answer'[t] = answer[t]

LEMMA OthersFit ==
  ASSUME NEW s \in Searches, Alone(s), absolute' = absolute, FusionInv,
         NEW t \in Searches, t # s
  PROVE  BranchFits(t)'
<1>1. /\ semantic'[t] = semantic[t] /\ grep'[t] = grep[t] /\ outcome'[t] = outcome[t]
      /\ chunks'[t] = chunks[t] /\ lines'[t] = lines[t] /\ answer'[t] = answer[t]
  BY DEF Alone
<1>2. HitsOf(lines[t], chunks[t])' = HitsOf(lines[t], chunks[t])
  BY <1>1 DEF HitsOf, HitOf
<1>3. BranchFits(t)
  BY DEF FusionInv
<1> QED BY <1>1, <1>2, <1>3 DEF BranchFits, BothOver

LEMMA FusionStays ==
  ASSUME FusionInv, NEW s \in Searches, absolute' = absolute, Alone(s),
         SearchShape', WaitsOnce', BranchFits(s)'
  PROVE  FusionInv'
<1>1. \A t \in Searches : BranchFits(t)'
  BY OthersFit
<1> QED BY <1>1 DEF FusionInv

\* A step of a branch leaves the queue as it was.
LEMMA QueueStays ==
  ASSUME WaitsOnce, UNCHANGED queue, NEW s \in Searches, SearchShape,
         grep[s] # "waiting" \/ UNCHANGED grep,
         \A t \in Searches \ {s} : grep'[t] = grep[t]
  PROVE  WaitsOnce'
<1>1. \A i \in 1 .. Len(queue) : queue[i] \in Searches
  BY DEF WaitsOnce
<1>2. ASSUME NEW i \in 1 .. Len(queue) PROVE grep'[queue[i]] = "waiting"
  BY <1>1 DEF WaitsOnce
<1> QED BY <1>2 DEF WaitsOnce

\* A search that is asked waits for a slot.
LEMMA AskKeeps ==
  ASSUME FusionInv, NEW s \in Searches, Ask(s)
  PROVE  FusionInv'
<1>1. SearchShape /\ WaitsOnce /\ BranchFits(s)
  BY DEF FusionInv
<1>2. absolute' = absolute /\ Alone(s)
  BY <1>1 DEF Ask, Alone, SearchShape
<1>3. SearchShape'
  BY <1>1 DEF Ask, SearchShape
<1>4. WaitsOnce'
  <2>1. queue' = Append(queue, s) /\ grep[s] = "none" /\ queue \in Seq(Searches)
        /\ grep' = [grep EXCEPT ![s] = "waiting"]
    BY <1>1 DEF Ask, BranchFits, WaitsOnce
  <2>2. PICK n \in Nat : n = Len(queue)
    BY <2>1
  <2>3. /\ queue' \in Seq(Searches) /\ Len(queue') = n + 1 /\ queue'[n + 1] = s
        /\ \A i \in 1 .. n : queue'[i] = queue[i] /\ queue[i] \in Searches
    BY <2>1, <2>2
  <2>4. \A i \in 1 .. n : queue[i] # s /\ grep'[queue[i]] = "waiting"
    BY <1>1, <2>1, <2>2, <2>3 DEF WaitsOnce, SearchShape
  <2>5. grep'[s] = "waiting" /\ \A i \in 1 .. n + 1 : i \in 1 .. n \/ i = n + 1
    BY <1>1, <2>1 DEF SearchShape
  <2>6. \A i \in 1 .. Len(queue') : grep'[queue'[i]] = "waiting"
    BY <2>3, <2>4, <2>5
  <2>7. \A i, j \in 1 .. Len(queue') : queue'[i] = queue'[j] => i = j
    BY <1>1, <2>2, <2>3, <2>4, <2>5 DEF WaitsOnce
  <2> QED BY <2>3, <2>6, <2>7 DEF WaitsOnce
<1>5. BranchFits(s)'
  <2>1. outcome'[s] = outcome[s] /\ outcome[s] # "answered"
    BY <1>1 DEF Ask, BranchFits, BothOver
  <2>2. /\ semantic'[s] = "embedding" /\ semantic[s] = "none"
        /\ chunks'[s] = chunks[s] /\ lines'[s] = lines[s]
    BY <1>1 DEF Ask, SearchShape
  <2> QED BY <1>1, <2>1, <2>2 DEF BranchFits
<1> QED BY <1>2, <1>3, <1>4, <1>5, FusionStays

\* An aborted search goes on to its next check.
LEMMA AbortKeeps ==
  ASSUME FusionInv, NEW s \in Searches, Abort(s)
  PROVE  FusionInv'
<1>1. SearchShape /\ WaitsOnce /\ BranchFits(s)
  BY DEF FusionInv
<1>2. absolute' = absolute /\ Alone(s)
  BY <1>1 DEF Abort, Alone, SearchShape
<1>3. SearchShape'
  BY <1>1 DEF Abort, SearchShape
<1>4. WaitsOnce'
  <2>1. UNCHANGED queue /\ (grep[s] # "waiting" \/ UNCHANGED grep)
        /\ \A t \in Searches \ {s} : grep'[t] = grep[t]
    BY <1>2 DEF Abort, Alone
  <2> QED BY <1>1, <2>1, QueueStays
<1>5. BranchFits(s)'
  <2>1. UNCHANGED <<absolute, semantic, chunks, grep, lines, outcome, answer>>
    BY DEF Abort
  <2>2. HitsOf(lines[s], chunks[s])' = HitsOf(lines[s], chunks[s])
    BY <2>1 DEF HitsOf, HitOf
  <2> QED BY <1>1, <2>1, <2>2 DEF BranchFits, BothOver
<1> QED BY <1>2, <1>3, <1>4, <1>5, FusionStays

\* The query has its vector.
LEMMA EmbedsKeeps ==
  ASSUME FusionInv, NEW s \in Searches, Embeds(s)
  PROVE  FusionInv'
<1>1. SearchShape /\ WaitsOnce /\ BranchFits(s)
  BY DEF FusionInv
<1>2. absolute' = absolute /\ Alone(s)
  BY <1>1 DEF Embeds, Alone, SearchShape, SemanticReaches
<1>3. SearchShape'
  BY <1>1 DEF Embeds, SearchShape, SemanticReaches
<1>4. WaitsOnce'
  <2>1. UNCHANGED queue /\ (grep[s] # "waiting" \/ UNCHANGED grep)
        /\ \A t \in Searches \ {s} : grep'[t] = grep[t]
    BY <1>2 DEF Embeds, Alone
  <2> QED BY <1>1, <2>1, QueueStays
<1>5. BranchFits(s)'
  <2>1. outcome'[s] = outcome[s] /\ outcome[s] # "answered"
    BY <1>1 DEF Embeds, BranchFits, BothOver
  <2>2. /\ semantic'[s] \in {"done", "reading"} /\ chunks'[s] = <<>> /\ lines'[s] = lines[s]
    BY <1>1 DEF Embeds, SemanticReaches, SearchShape, BranchFits
  <2>3. ListOf(<<>>, Chunks, MaxHits[s])
    BY NothingIsAList, NumbersAssumption
  <2> QED BY <1>1, <2>1, <2>2, <2>3 DEF BranchFits
<1> QED BY <1>2, <1>3, <1>4, <1>5, FusionStays

\* The rows of a search are of different chunks.
LEMMA ReadsRowsKeeps ==
  ASSUME FusionInv, NEW s \in Searches, ReadsRows(s)
  PROVE  FusionInv'
<1>1. SearchShape /\ WaitsOnce /\ BranchFits(s)
  BY DEF FusionInv
<1>2. absolute' = absolute /\ Alone(s)
  BY <1>1 DEF ReadsRows, Alone, SearchShape, SemanticReaches
<1>3. SearchShape'
  BY <1>1 DEF ReadsRows, SearchShape, SemanticReaches
<1>4. WaitsOnce'
  <2>1. UNCHANGED queue /\ (grep[s] # "waiting" \/ UNCHANGED grep)
        /\ \A t \in Searches \ {s} : grep'[t] = grep[t]
    BY <1>2 DEF ReadsRows, Alone
  <2> QED BY <1>1, <2>1, QueueStays
<1>5. BranchFits(s)'
  <2>1. outcome'[s] = outcome[s] /\ outcome[s] # "answered"
    BY <1>1 DEF ReadsRows, BranchFits, BothOver
  <2>2. MaxHits[s] \in Nat /\ lines'[s] = lines[s]
    BY NumbersAssumption DEF ReadsRows
  <2>3. ListOf(<<>>, Chunks, MaxHits[s])
    BY <2>2, NothingIsAList
  <2>4. CASE s \in cancelled
    <3>1. semantic'[s] = "done" /\ chunks'[s] = <<>>
      BY <1>1, <2>4 DEF ReadsRows, SemanticReaches, SearchShape
    <3> QED BY <1>1, <2>1, <2>2, <2>3, <3>1 DEF BranchFits
  <2>5. CASE s \notin cancelled
    <3>1. PICK rows \in Lists(Rows, MaxHits[s]) : chunks' = [chunks EXCEPT ![s] = Merged(rows)]
      BY <2>5 DEF ReadsRows
    <3>2. semantic'[s] = "resolving" /\ chunks'[s] = Merged(rows)
      BY <1>1, <2>5, <3>1 DEF ReadsRows, SemanticReaches, SearchShape
    <3>3. rows \in Seq(Rows) /\ Len(rows) <= MaxHits[s]
      BY <2>2, ListsAreLists DEF ListOf
    <3>4. RowList(Merged(rows), MaxHits[s])
      BY <2>2, <3>3, MergedFits
    <3> QED BY <1>1, <2>1, <2>2, <3>2, <3>4 DEF BranchFits
  <2> QED BY <2>4, <2>5
<1> QED BY <1>2, <1>3, <1>4, <1>5, FusionStays

\* The rows that count give a list of chunks.
LEMMA ResolvesKeeps ==
  ASSUME FusionInv, NEW s \in Searches, ResolvesGenerations(s)
  PROVE  FusionInv'
<1>1. SearchShape /\ WaitsOnce /\ BranchFits(s)
  BY DEF FusionInv
<1>2. absolute' = absolute /\ Alone(s)
  BY <1>1 DEF ResolvesGenerations, Alone, SearchShape, SemanticReaches
<1>3. SearchShape'
  BY <1>1 DEF ResolvesGenerations, SearchShape, SemanticReaches
<1>4. WaitsOnce'
  <2>1. UNCHANGED queue /\ (grep[s] # "waiting" \/ UNCHANGED grep)
        /\ \A t \in Searches \ {s} : grep'[t] = grep[t]
    BY <1>2 DEF ResolvesGenerations, Alone
  <2> QED BY <1>1, <2>1, QueueStays
<1>5. BranchFits(s)'
  <2>1. outcome'[s] = outcome[s] /\ outcome[s] # "answered"
    BY <1>1 DEF ResolvesGenerations, BranchFits, BothOver
  <2>2. PICK kept : /\ kept = PartAt(chunks[s], {i \in DOMAIN chunks[s] : chunks[s][i][2] # "former"})
                    /\ chunks' = [chunks EXCEPT ![s] = [i \in DOMAIN kept |-> kept[i][1]]]
    BY DEF ResolvesGenerations
  <2>3. PICK rows : rows = chunks[s]
    OBVIOUS
  <2>4. semantic'[s] = "done" /\ chunks'[s] = [i \in DOMAIN kept |-> kept[i][1]]
        /\ lines'[s] = lines[s] /\ semantic[s] = "resolving"
    BY <1>1, <2>2 DEF ResolvesGenerations, SemanticReaches, SearchShape
  <2>5. RowList(rows, MaxHits[s]) /\ MaxHits[s] \in Nat
        /\ kept = PartAt(rows, {i \in DOMAIN rows : rows[i][2] # "former"})
    BY <1>1, <2>2, <2>3, <2>4, NumbersAssumption DEF BranchFits
  <2>6. ListOf([i \in DOMAIN kept |-> kept[i][1]], Chunks, MaxHits[s])
    BY <2>5, ResolvedFits
  <2> QED BY <1>1, <2>1, <2>4, <2>6 DEF BranchFits
<1> QED BY <1>2, <1>3, <1>4, <1>5, FusionStays

\* A branch that fails has found nothing.
LEMMA SemanticFailsKeeps ==
  ASSUME FusionInv, NEW s \in Searches, SemanticFails(s)
  PROVE  FusionInv'
<1>1. SearchShape /\ WaitsOnce /\ BranchFits(s)
  BY DEF FusionInv
<1>2. absolute' = absolute /\ Alone(s)
  BY <1>1 DEF SemanticFails, Alone, SearchShape, SemanticReaches
<1>3. SearchShape'
  BY <1>1 DEF SemanticFails, SearchShape, SemanticReaches
<1>4. WaitsOnce'
  <2>1. UNCHANGED queue /\ (grep[s] # "waiting" \/ UNCHANGED grep)
        /\ \A t \in Searches \ {s} : grep'[t] = grep[t]
    BY <1>2 DEF SemanticFails, Alone
  <2> QED BY <1>1, <2>1, QueueStays
<1>5. BranchFits(s)'
  <2>1. outcome'[s] = outcome[s] /\ outcome[s] # "answered"
    BY <1>1 DEF SemanticFails, BranchFits, BothOver
  <2>2. semantic'[s] = "failed" /\ chunks'[s] = <<>> /\ lines'[s] = lines[s]
    BY <1>1 DEF SemanticFails, SemanticReaches, SearchShape
  <2>3. ListOf(<<>>, Chunks, MaxHits[s])
    BY NothingIsAList, NumbersAssumption
  <2> QED BY <1>1, <2>1, <2>2, <2>3 DEF BranchFits
<1> QED BY <1>2, <1>3, <1>4, <1>5, FusionStays

\* The first that waits gives up its place.
LEMMA HeadWaits ==
  ASSUME WaitsOnce, queue # <<>>
  PROVE  /\ grep[Head(queue)] = "waiting" /\ Tail(queue) \in Seq(Searches)
         /\ \A i \in 1 .. Len(Tail(queue)) :
              i + 1 \in 1 .. Len(queue) /\ Tail(queue)[i] = queue[i + 1] /\ queue[i + 1] # Head(queue)
<1>1. queue \in Seq(Searches) /\ Len(queue) \in Nat /\ Len(queue) # 0
  BY DEF WaitsOnce
<1>2. Head(queue) = queue[1] /\ 1 \in 1 .. Len(queue)
  BY <1>1
<1>3. Tail(queue) \in Seq(Searches) /\ Len(Tail(queue)) = Len(queue) - 1
      /\ \A i \in 1 .. Len(queue) - 1 : Tail(queue)[i] = queue[i + 1]
  BY <1>1
<1>4. ASSUME NEW i \in 1 .. Len(Tail(queue))
      PROVE  i + 1 \in 1 .. Len(queue) /\ Tail(queue)[i] = queue[i + 1] /\ queue[i + 1] # queue[1]
  <2>1. i \in 1 .. Len(queue) - 1 /\ i + 1 \in 1 .. Len(queue) /\ i + 1 # 1
    BY <1>1, <1>3
  <2> QED BY <1>2, <1>3, <2>1 DEF WaitsOnce
<1> QED BY <1>2, <1>3, <1>4 DEF WaitsOnce

\* A slot goes to the first that waits.
LEMMA StartsGrepKeeps ==
  ASSUME FusionInv, NEW s \in Searches, StartsGrep(s)
  PROVE  FusionInv'
<1>1. SearchShape /\ WaitsOnce /\ BranchFits(s)
  BY DEF FusionInv
<1>2. absolute' = absolute /\ Alone(s)
  BY <1>1 DEF StartsGrep, Alone, SearchShape
<1>3. SearchShape'
  BY <1>1 DEF StartsGrep, SearchShape
<1>4. WaitsOnce'
  <2>1. queue # <<>> /\ s = Head(queue) /\ queue' = Tail(queue)
        /\ grep' = [grep EXCEPT ![s] = IF s \in cancelled THEN "done" ELSE "running"]
    BY DEF StartsGrep
  <2>2. queue \in Seq(Searches) /\ \A i \in 1 .. Len(queue) : queue[i] \in Searches
    BY <1>1 DEF WaitsOnce
  <2>3. /\ queue' \in Seq(Searches)
        /\ \A i \in 1 .. Len(queue') :
             i + 1 \in 1 .. Len(queue) /\ queue'[i] = queue[i + 1] /\ queue[i + 1] # s
    BY <1>1, <2>1, HeadWaits
  <2>4. \A t \in Searches \ {s} : grep'[t] = grep[t]
    BY <1>1, <2>1 DEF SearchShape
  <2>5. \A i \in 1 .. Len(queue') : grep'[queue'[i]] = "waiting"
    BY <1>1, <2>2, <2>3, <2>4 DEF WaitsOnce
  <2>6. ASSUME NEW i \in 1 .. Len(queue'), NEW j \in 1 .. Len(queue'), queue'[i] = queue'[j]
        PROVE  i = j
    <3>1. i + 1 \in 1 .. Len(queue) /\ j + 1 \in 1 .. Len(queue) /\ queue[i + 1] = queue[j + 1]
      BY <2>3, <2>6
    <3>2. i + 1 = j + 1
      BY <1>1, <3>1 DEF WaitsOnce
    <3> QED BY <3>2
  <2> QED BY <2>3, <2>5, <2>6 DEF WaitsOnce
<1>5. BranchFits(s)'
  <2>0. grep[s] = "waiting"
    BY <1>1, HeadWaits DEF StartsGrep
  <2>1. outcome'[s] = outcome[s] /\ outcome[s] # "answered"
    BY <1>1, <2>0 DEF StartsGrep, BranchFits, BothOver
  <2>2. semantic[s] # "none" /\ semantic'[s] = semantic[s]
        /\ chunks'[s] = chunks[s] /\ lines'[s] = lines[s]
    BY <1>1, <2>0 DEF StartsGrep, BranchFits
  <2> QED BY <1>1, <2>1, <2>2 DEF BranchFits
<1> QED BY <1>2, <1>3, <1>4, <1>5, FusionStays

\* ripgrep reports lines.
LEMMA MatchesKeeps ==
  ASSUME FusionInv, NEW s \in Searches, Matches(s)
  PROVE  FusionInv'
<1>1. SearchShape /\ WaitsOnce /\ BranchFits(s)
  BY DEF FusionInv
<1>2. absolute' = absolute /\ Alone(s)
  BY <1>1 DEF Matches, Alone, SearchShape
<1>3. SearchShape'
  BY <1>1 DEF Matches, SearchShape
<1>4. WaitsOnce'
  <2>1. UNCHANGED queue /\ (grep[s] # "waiting" \/ UNCHANGED grep)
        /\ \A t \in Searches \ {s} : grep'[t] = grep[t]
    BY <1>2 DEF Matches, Alone
  <2> QED BY <1>1, <2>1, QueueStays
<1>5. BranchFits(s)'
  <2>1. outcome'[s] = outcome[s] /\ outcome[s] # "answered"
    BY <1>1 DEF Matches, BranchFits, BothOver
  <2>2. semantic[s] # "none" /\ semantic'[s] = semantic[s] /\ chunks'[s] = chunks[s]
    BY <1>1 DEF Matches, BranchFits
  <2>3. PICK found \in Lists(Lines, MaxHits[s]) : lines' = [lines EXCEPT ![s] = found]
    BY DEF Matches
  <2>4. lines'[s] = found
    BY <1>1, <2>3 DEF SearchShape
  <2>5. ListOf(found, Lines, MaxHits[s])
    BY ListsAreLists, NumbersAssumption
  <2> QED BY <1>1, <2>1, <2>2, <2>4, <2>5 DEF BranchFits
<1> QED BY <1>2, <1>3, <1>4, <1>5, FusionStays

\* ripgrep fails.
LEMMA GrepFailsKeeps ==
  ASSUME FusionInv, NEW s \in Searches, GrepFails(s)
  PROVE  FusionInv'
<1>1. SearchShape /\ WaitsOnce /\ BranchFits(s)
  BY DEF FusionInv
<1>2. absolute' = absolute /\ Alone(s)
  BY <1>1 DEF GrepFails, Alone, SearchShape
<1>3. SearchShape'
  BY <1>1 DEF GrepFails, SearchShape
<1>4. WaitsOnce'
  <2>1. UNCHANGED queue /\ (grep[s] # "waiting" \/ UNCHANGED grep)
        /\ \A t \in Searches \ {s} : grep'[t] = grep[t]
    BY <1>2 DEF GrepFails, Alone
  <2> QED BY <1>1, <2>1, QueueStays
<1>5. BranchFits(s)'
  <2>1. outcome'[s] = outcome[s] /\ outcome[s] # "answered"
    BY <1>1 DEF GrepFails, BranchFits, BothOver
  <2>2. semantic[s] # "none" /\ semantic'[s] = semantic[s]
        /\ chunks'[s] = chunks[s] /\ lines'[s] = lines[s]
    BY <1>1 DEF GrepFails, BranchFits
  <2> QED BY <1>1, <2>1, <2>2 DEF BranchFits
<1> QED BY <1>2, <1>3, <1>4, <1>5, FusionStays

\* ripgrep is stopped.
LEMMA StopsKeeps ==
  ASSUME FusionInv, NEW s \in Searches, Stops(s)
  PROVE  FusionInv'
<1>1. SearchShape /\ WaitsOnce /\ BranchFits(s)
  BY DEF FusionInv
<1>2. absolute' = absolute /\ Alone(s)
  BY <1>1 DEF Stops, Alone, SearchShape
<1>3. SearchShape'
  BY <1>1 DEF Stops, SearchShape
<1>4. WaitsOnce'
  <2>1. UNCHANGED queue /\ (grep[s] # "waiting" \/ UNCHANGED grep)
        /\ \A t \in Searches \ {s} : grep'[t] = grep[t]
    BY <1>2 DEF Stops, Alone
  <2> QED BY <1>1, <2>1, QueueStays
<1>5. BranchFits(s)'
  <2>1. outcome'[s] = outcome[s] /\ outcome[s] # "answered"
    BY <1>1 DEF Stops, BranchFits, BothOver
  <2>2. semantic[s] # "none" /\ semantic'[s] = semantic[s]
        /\ chunks'[s] = chunks[s] /\ lines'[s] = lines[s]
    BY <1>1 DEF Stops, BranchFits
  <2> QED BY <1>1, <2>1, <2>2 DEF BranchFits
<1> QED BY <1>2, <1>3, <1>4, <1>5, FusionStays

\* An answer is the fusion of what was found.
LEMMA RespondsKeeps ==
  ASSUME FusionInv, NEW s \in Searches, Responds(s)
  PROVE  FusionInv'
<1>1. SearchShape /\ WaitsOnce /\ BranchFits(s)
  BY DEF FusionInv
<1>2. absolute' = absolute /\ Alone(s)
  BY <1>1 DEF Responds, Alone, SearchShape
<1>3. SearchShape'
  BY <1>1 DEF Responds, SearchShape
<1>4. WaitsOnce'
  <2>1. UNCHANGED queue /\ (grep[s] # "waiting" \/ UNCHANGED grep)
        /\ \A t \in Searches \ {s} : grep'[t] = grep[t]
    BY <1>2 DEF Responds, Alone
  <2> QED BY <1>1, <2>1, QueueStays
<1>5. BranchFits(s)'
  <2>1. UNCHANGED <<absolute, semantic, chunks, grep, lines>> /\ BothOver(s)
    BY DEF Responds, BothOver
  <2>2. HitsOf(lines[s], chunks[s])' = HitsOf(lines[s], chunks[s])
    BY <2>1 DEF HitsOf, HitOf
  <2>3. outcome'[s] = "answered" => answer'[s] = FuseResults(chunks[s], HitsOf(lines[s], chunks[s]))
    BY <1>1 DEF Responds, SearchShape, HitsOf
  <2>4. PICK found, list : found = chunks[s] /\ list = lines[s]
    OBVIOUS
  <2>5. ListOf(found, Chunks, MaxHits[s]) /\ ListOf(list, Lines, MaxHits[s]) /\ absolute \in BOOLEAN
    BY <1>1, <2>1, <2>4 DEF BranchFits, BothOver, SearchShape
  <2>6. PICK hits : hits = HitsOf(list, found)
    OBVIOUS
  <2>7. Fusible(found, hits)
    BY <2>5, <2>6, HitsAreFusible
  <2>8. IsFusion(FuseResults(found, hits), found, hits)
    BY <2>5, <2>7, FusedRight
  <2>9. outcome'[s] = "answered" => IsFusion(answer'[s], chunks'[s], HitsOf(lines[s], chunks[s])')
    BY <2>1, <2>2, <2>3, <2>4, <2>6, <2>8
  <2> QED BY <1>1, <2>1, <2>9 DEF BranchFits, BothOver
<1> QED BY <1>2, <1>3, <1>4, <1>5, FusionStays

\* No step of any search disturbs the invariant.
LEMMA FusionNext == FusionInv /\ [SearchNext]_searchVars => FusionInv'
<1> SUFFICES ASSUME FusionInv, [SearchNext]_searchVars PROVE FusionInv'
  OBVIOUS
<1>1. CASE UNCHANGED searchVars
  <2>1. UNCHANGED <<absolute, semantic, chunks, grep, lines, queue, outcome, answer>>
    BY <1>1 DEF searchVars
  <2>2. SearchShape' /\ WaitsOnce'
    BY <2>1 DEF FusionInv, SearchShape, WaitsOnce
  <2>3. ASSUME NEW s \in Searches PROVE BranchFits(s)'
    <3>1. HitsOf(lines[s], chunks[s])' = HitsOf(lines[s], chunks[s])
      BY <2>1 DEF HitsOf, HitOf
    <3>2. BranchFits(s)
      BY DEF FusionInv
    <3> QED BY <2>1, <3>1, <3>2 DEF BranchFits, BothOver
  <2> QED BY <2>2, <2>3 DEF FusionInv
<1>2. CASE SearchNext
  <2>1. PICK s \in Searches :
          \/ Ask(s) \/ Abort(s) \/ SemanticStep(s) \/ SemanticFails(s)
          \/ StartsGrep(s) \/ Matches(s) \/ GrepFails(s) \/ Stops(s) \/ Responds(s)
    BY <1>2 DEF SearchNext
  <2>2. CASE SemanticStep(s)
    BY <2>2, EmbedsKeeps, ReadsRowsKeeps, ResolvesKeeps DEF SemanticStep
  <2> QED BY <2>1, <2>2, AskKeeps, AbortKeeps, SemanticFailsKeeps, StartsGrepKeeps,
             MatchesKeeps, GrepFailsKeeps, StopsKeeps, RespondsKeeps
<1> QED BY <1>1, <1>2

\* The invariant is what AnswersAreFused says, and more.
LEMMA FusionInvMeansFused == FusionInv => AnswersAreFused
<1> SUFFICES ASSUME FusionInv, NEW s \in Searches, outcome[s] = "answered"
             PROVE  IsFusion(answer[s], chunks[s], HitsOf(lines[s], chunks[s]))
  BY DEF AnswersAreFused, IsFusion, HitsOf
<1> QED BY DEF FusionInv, BranchFits

\* An answer is the reciprocal rank fusion of what both branches found
\* (orchestrator.ts, rrf.ts): no chunk twice, the true scores, best first, nothing
\* better left out, and "hybrid" is what both have found; for any searches, rows,
\* lines, files, aborts and failures, and any TopK and K.
THEOREM AnswersAlwaysFused == SearchSpec => []AnswersAreFused
<1>1. SearchInit => FusionInv
  BY FusionInit
<1>2. FusionInv /\ [SearchNext]_searchVars => FusionInv'
  BY FusionNext
<1>3. FusionInv => AnswersAreFused
  BY FusionInvMeansFused
<1> QED BY <1>1, <1>2, <1>3, PTL DEF SearchSpec

-----------------------------------------------------------------------------
\* The slots of ripgrep: no more run than there are, and who waits is in the queue.
SlotsFit ==
  /\ IsFiniteSet(Running) /\ Cardinality(Running) <= Slots
  /\ \A s \in Searches : grep[s] = "waiting" => \E i \in 1 .. Len(queue) : queue[i] = s
  /\ cancelled \subseteq Searches

SlotsInv == FusionInv /\ SlotsFit

LEMMA SlotsInitially == SearchInit => SlotsInv
<1> SUFFICES ASSUME SearchInit PROVE SlotsInv
  OBVIOUS
<1>1. Running = {} /\ cancelled = {} /\ \A s \in Searches : grep[s] = "none"
  BY DEF SearchInit, Running
<1>2. IsFiniteSet(Running) /\ Cardinality(Running) <= Slots
  BY <1>1, FS_EmptySet, NumbersAssumption
<1> QED BY <1>1, <1>2, FusionInit DEF SlotsInv, SlotsFit

\* No search starts to run.
LEMMA SlotsGivenBack ==
  ASSUME SlotsFit, Running' \subseteq Running
  PROVE  IsFiniteSet(Running') /\ Cardinality(Running') <= Slots
<1>1. IsFiniteSet(Running') /\ Cardinality(Running') <= Cardinality(Running)
  BY FS_Subset DEF SlotsFit
<1>2. Cardinality(Running) \in Nat /\ Cardinality(Running') \in Nat /\ Slots \in Nat
  BY <1>1, FS_CardinalityType, NumbersAssumption DEF SlotsFit
<1> QED BY <1>1, <1>2 DEF SlotsFit

\* One starts while a slot is free.
LEMMA SlotTaken ==
  ASSUME SlotsFit, NEW s, Running' \subseteq Running \cup {s}, Cardinality(Running) < Slots
  PROVE  IsFiniteSet(Running') /\ Cardinality(Running') <= Slots
<1> DEFINE T == Running
<1>1. IsFiniteSet(T) /\ Cardinality(T) \in Nat
  BY FS_CardinalityType DEF SlotsFit
<1>2. Running' \subseteq T \cup {s} /\ Cardinality(T) < Slots
  OBVIOUS
<1> HIDE DEF T
<1>3. IsFiniteSet(T \cup {s}) /\ Cardinality(T \cup {s}) <= Cardinality(T) + 1
  BY <1>1, FS_AddElement
<1>4. IsFiniteSet(Running') /\ Cardinality(Running') <= Cardinality(T \cup {s})
  BY <1>2, <1>3, FS_Subset
<1>5. Cardinality(T \cup {s}) \in Nat /\ Cardinality(Running') \in Nat /\ Slots \in Nat
  BY <1>3, <1>4, FS_CardinalityType, NumbersAssumption
<1> QED BY <1>1, <1>2, <1>3, <1>4, <1>5

LEMMA SlotsNext == SlotsInv /\ [SearchNext]_searchVars => SlotsInv'
<1> SUFFICES ASSUME SlotsInv, [SearchNext]_searchVars PROVE SlotsInv'
  OBVIOUS
<1>0. FusionInv /\ SlotsFit /\ SearchShape /\ WaitsOnce /\ FusionInv'
  BY FusionNext DEF SlotsInv, FusionInv
<1>1. CASE UNCHANGED searchVars
  <2>1. UNCHANGED <<grep, queue, cancelled>>
    BY <1>1 DEF searchVars
  <2>2. UNCHANGED Running
    BY <2>1 DEF Running
  <2> QED BY <1>0, <2>1, <2>2 DEF SlotsInv, SlotsFit
<1>2. CASE SearchNext
  <2>1. PICK s \in Searches :
          \/ Ask(s) \/ Abort(s) \/ SemanticStep(s) \/ SemanticFails(s)
          \/ StartsGrep(s) \/ Matches(s) \/ GrepFails(s) \/ Stops(s) \/ Responds(s)
    BY <1>2 DEF SearchNext
  <2>2. CASE SemanticStep(s) \/ SemanticFails(s) \/ Responds(s) \/ Abort(s)
    <3>1. UNCHANGED <<grep, queue>> /\ cancelled' \subseteq cancelled \cup {s}
      BY <2>2 DEF SemanticStep, SemanticFails, Responds, Abort, Embeds, ReadsRows,
         ResolvesGenerations
    <3>2. UNCHANGED Running
      BY <3>1 DEF Running
    <3> QED BY <1>0, <3>1, <3>2 DEF SlotsInv, SlotsFit
  <2>3. CASE Matches(s) \/ GrepFails(s) \/ Stops(s)
    <3>1. PICK step \in {"done", "failed"} : grep' = [grep EXCEPT ![s] = step]
      BY <2>3 DEF Matches, GrepFails, Stops
    <3>2. UNCHANGED <<queue, cancelled>>
      BY <2>3 DEF Matches, GrepFails, Stops
    <3>3. \A t \in Searches : grep'[t] = IF t = s THEN step ELSE grep[t]
      BY <1>0, <3>1 DEF SearchShape
    <3>4. Running' \subseteq Running
      BY <3>3 DEF Running
    <3>5. \A t \in Searches : grep'[t] = "waiting" => grep[t] = "waiting"
      BY <3>3
    <3>6. IsFiniteSet(Running') /\ Cardinality(Running') <= Slots
      BY <1>0, <3>4, SlotsGivenBack
    <3> QED BY <1>0, <3>2, <3>5, <3>6 DEF SlotsInv, SlotsFit
  <2>4. CASE Ask(s)
    <3>1. /\ grep' = [grep EXCEPT ![s] = "waiting"] /\ queue' = Append(queue, s)
          /\ cancelled' = cancelled
      BY <2>4 DEF Ask
    <3>2. \A t \in Searches : grep'[t] = IF t = s THEN "waiting" ELSE grep[t]
      BY <1>0, <3>1 DEF SearchShape
    <3>3. Running' \subseteq Running
      BY <3>2 DEF Running
    <3>4. PICK n \in Nat : n = Len(queue) /\ queue \in Seq(Searches)
      BY <1>0 DEF WaitsOnce
    <3>5. Len(queue') = n + 1 /\ queue'[n + 1] = s /\ \A i \in 1 .. n : queue'[i] = queue[i]
      BY <3>1, <3>4
    <3>6. ASSUME NEW t \in Searches, grep'[t] = "waiting"
          PROVE  \E i \in 1 .. Len(queue') : queue'[i] = t
      <4>1. CASE t = s
        <5>1. n + 1 \in 1 .. Len(queue')
          BY <3>5
        <5> QED BY <3>5, <4>1, <5>1
      <4>2. CASE t # s
        <5>1. PICK i \in 1 .. n : queue[i] = t
          BY <1>0, <3>2, <3>4, <3>6, <4>2 DEF SlotsFit
        <5>2. i \in 1 .. Len(queue')
          BY <3>5, <5>1
        <5> QED BY <3>5, <5>1, <5>2
      <4> QED BY <4>1, <4>2
    <3>7. IsFiniteSet(Running') /\ Cardinality(Running') <= Slots
      BY <1>0, <3>3, SlotsGivenBack
    <3> QED BY <1>0, <3>1, <3>6, <3>7 DEF SlotsInv, SlotsFit
  <2>5. CASE StartsGrep(s)
    <3>1. PICK step \in {"done", "running"} : grep' = [grep EXCEPT ![s] = step]
      BY <2>5 DEF StartsGrep
    <3>2. /\ queue # <<>> /\ s = Head(queue) /\ queue' = Tail(queue)
          /\ Cardinality(Running) < Slots /\ cancelled' = cancelled
      BY <2>5 DEF StartsGrep
    <3>3. \A t \in Searches : grep'[t] = IF t = s THEN step ELSE grep[t]
      BY <1>0, <3>1 DEF SearchShape
    <3>4. Running' \subseteq Running \cup {s}
      BY <3>3 DEF Running
    <3>5. PICK n \in Nat : n = Len(queue) /\ queue \in Seq(Searches)
      BY <1>0 DEF WaitsOnce
    <3>6. /\ n > 0 /\ s = queue[1] /\ Len(queue') = n - 1
          /\ \A i \in 1 .. n - 1 : queue'[i] = queue[i + 1]
      BY <3>2, <3>5
    <3>7. ASSUME NEW t \in Searches, grep'[t] = "waiting"
          PROVE  \E i \in 1 .. Len(queue') : queue'[i] = t
      <4>1. t # s /\ grep[t] = "waiting"
        BY <3>3, <3>7
      <4>2. PICK i \in 1 .. n : queue[i] = t
        BY <1>0, <3>5, <4>1 DEF SlotsFit
      <4>3. i # 1
        BY <3>6, <4>1, <4>2
      <4>4. i - 1 \in 1 .. n - 1 /\ (i - 1) + 1 = i
        BY <4>3
      <4> QED BY <3>6, <4>2, <4>4
    <3>8. IsFiniteSet(Running') /\ Cardinality(Running') <= Slots
      BY <1>0, <3>2, <3>4, SlotTaken
    <3> QED BY <1>0, <3>2, <3>7, <3>8 DEF SlotsInv, SlotsFit
  <2> QED BY <2>1, <2>2, <2>3, <2>4, <2>5
<1> QED BY <1>1, <1>2

\* However many searches are asked, aborted or time out: ripgrep runs for no more
\* of them than there are slots, and the queue of the limiter holds exactly those
\* that wait (pLimit() in grep.ts).
THEOREM SearchTyped == SearchSpec => []SearchTypeOK
<1>1. SlotsInv => SearchTypeOK
  <2> SUFFICES ASSUME SlotsInv PROVE SearchTypeOK
    OBVIOUS
  <2>1. SearchShape /\ WaitsOnce /\ SlotsFit
    BY DEF SlotsInv, FusionInv
  <2>2. ASSUME NEW s \in Range(queue) PROVE s \in Searches /\ grep[s] = "waiting"
    <3>1. PICK i \in 1 .. Len(queue) : queue[i] = s
      BY <2>1 DEF WaitsOnce, Range
    <3> QED BY <2>1, <3>1 DEF WaitsOnce
  <2>3. ASSUME NEW s \in Searches, grep[s] = "waiting" PROVE s \in Range(queue)
    <3>1. PICK i \in 1 .. Len(queue) : queue[i] = s
      BY <2>1, <2>3 DEF SlotsFit
    <3> QED BY <2>1, <3>1 DEF WaitsOnce, Range
  <2>4. Range(queue) = {s \in Searches : grep[s] = "waiting"}
    BY <2>2, <2>3
  <2> QED BY <2>1, <2>4 DEF SearchTypeOK, SearchShape, SlotsFit
<1> QED BY <1>1, SlotsInitially, SlotsNext, PTL DEF SearchSpec

-----------------------------------------------------------------------------
StoreInv == StoreTypeOK /\ WritesOrdered

\* What a call leaves behind when it settles is typed and ordered: nobody waits
\* for it any more.
LEMMA ForgetKeeps ==
  ASSUME NEW c \in Calls, StoreInv, Forget(c)
  PROVE  /\ pending' \subseteq Calls
         /\ writing' \subseteq pending'
         /\ started' \subseteq pending'
         /\ before' \in [Calls -> SUBSET writing']
         /\ WritesOrdered'
  BY DEF StoreInv, StoreTypeOK, WritesOrdered, Forget

\* The constructor makes a typed store without calls.
LEMMA StoreInitially == StoreInit => StoreInv
  BY DEF StoreInit, StoreInv, StoreTypeOK, WritesOrdered

LEMMA StoreStep == StoreInv /\ [StoreNext]_storeVars => StoreInv'
<1> SUFFICES ASSUME StoreInv, [StoreNext]_storeVars PROVE StoreInv'
  OBVIOUS
<1>1. ASSUME NEW c \in Calls, NEW type \in CallTypes, Admit(c, type) PROVE StoreInv'
  <2>1. StoreTypeOK'
    BY <1>1 DEF Admit, Accepting, StoreInv, StoreTypeOK
  <2>2. WritesOrdered'
    <3>1. CASE type = "write"
      BY <1>1, <3>1 DEF Admit, StoreInv, StoreTypeOK, WritesOrdered
    <3>2. CASE type # "write"
      BY <1>1, <3>2 DEF Admit, StoreInv, StoreTypeOK, WritesOrdered
    <3> QED BY <3>1, <3>2
  <2> QED BY <2>1, <2>2 DEF StoreInv
<1>2. ASSUME NEW c \in Calls, Start(c) PROVE StoreInv'
  BY <1>2 DEF Start, StoreInv, StoreTypeOK, WritesOrdered
<1>3. ASSUME NEW c \in Calls, Settle(c) PROVE StoreInv'
  BY <1>3, ForgetKeeps DEF Settle, StoreInv, StoreTypeOK
<1>4. ASSUME NEW c \in Calls, Opens(c) PROVE StoreInv'
  BY <1>4, ForgetKeeps DEF Opens, StoreInv, StoreTypeOK
<1>5. CASE StartClose \/ CloseQuietly \/ CloseByForce
  BY <1>5 DEF StartClose, CloseQuietly, CloseByForce, StoreInv, StoreTypeOK, WritesOrdered
<1>6. CASE Restarts
  BY <1>6 DEF Restarts, StoreInv, StoreTypeOK, WritesOrdered
<1>7. CASE UNCHANGED storeVars
  BY <1>7 DEF storeVars, StoreInv, StoreTypeOK, WritesOrdered
<1> QED BY <1>1, <1>2, <1>3, <1>4, <1>5, <1>6, <1>7 DEF StoreNext

-----------------------------------------------------------------------------
\* runInWriteLock() puts the writes in one order, whatever reads, failures and
\* closings come between, and trackOp() forgets nobody.
THEOREM StoreOrdered == StoreSpec => [](StoreTypeOK /\ WritesOrdered)
<1>1. StoreInv /\ [StoreNext]_storeVars => StoreInv'
  BY StoreStep
<1>2. StoreInv => StoreTypeOK /\ WritesOrdered
  BY DEF StoreInv
<1> QED BY StoreInitially, <1>1, <1>2, PTL DEF StoreSpec

\* Two writes are never at work on the tables at once.
THEOREM OneWriterAlways == StoreSpec => []OneWriter
<1>1. StoreTypeOK /\ WritesOrdered => OneWriter
  BY DEF StoreTypeOK, WritesOrdered, OneWriter
<1> QED BY StoreOrdered, <1>1, PTL

-----------------------------------------------------------------------------
USE CallsAssumption

\* How far close() has come.
InitAwaited == closing \in {"watcher", "reindex", "pipeline", "store", "loop", "log", "done"}
WatcherAwaited == closing \in {"reindex", "pipeline", "store", "loop", "log", "done"}
ReindexAwaited == closing \in {"pipeline", "store", "loop", "log", "done"}
StoreAwaited == closing \in {"loop", "log", "done"}
LoopAwaited == closing \in {"log", "done"}

-----------------------------------------------------------------------------
(***************************************************************************)
(* The lock.                                                               *)
(***************************************************************************)

\* An initialization that a tool asks for during close() plans no reindex.
NoLateScan == InitAwaited /\ init \notin {"none", "done"} => ~needsScan

\* The reindex is over when close() has waited for it, and none begins again.
ScanOver ==
  /\ reindexing => init = "done" /\ ~ReindexAwaited
  /\ Scan \in pending => reindexing

\* Handlers are over when close() has waited for the drain loop.
HandlersOver ==
  /\ Handler \in pending => busy
  /\ StoreAwaited => ~loop
  /\ LoopAwaited => ~busy

\* A store that is closed has no calls, unless it was closed by force.
StoreOver ==
  /\ StoreAwaited => life = "closed"
  /\ life = "closed" /\ ~forcedClose => pending = {}
  /\ pending \subseteq Calls

CoverInv ==
  /\ ~lock => closing = "done"
  /\ NoLateScan /\ ScanOver /\ HandlersOver /\ StoreOver

LEMMA CoverInitially == LifeInit => CoverInv
  BY DEF LifeInit, StoreInit, CoverInv, NoLateScan, ScanOver, HandlersOver, StoreOver,
         InitAwaited, ReindexAwaited, StoreAwaited, LoopAwaited

\* The steps of initialize() and of its rollback.
LEMMA CoverInitialize ==
  ASSUME CoverInv, Initialize \/ InitializeStep
  PROVE  CoverInv'
<1> USE DEF CoverInv, NoLateScan, ScanOver, HandlersOver, StoreOver, InitAwaited,
            ReindexAwaited, StoreAwaited, LoopAwaited, InitReaches, InitRejects, InitFrame,
            queueVars, pipelineVars, lifeHistory, storeVars, Accepting
<1>1. CASE Initialize
  BY <1>1 DEF Initialize, ShuttingDown
<1>2. CASE MetadataOpens
  BY <1>2 DEF MetadataOpens, Admit
<1>3. CASE StoreOpens
  BY <1>3 DEF StoreOpens, Opens, Settle, Forget
<1>4. CASE StoresFail
  BY <1>4 DEF StoresFail, Settle, Forget
<1>5. CASE Reconciles
  BY <1>5 DEF Reconciles, ShuttingDown
<1>6. CASE WatcherStarts
  BY <1>6 DEF WatcherStarts
<1>7. CASE Starts
  BY <1>7 DEF Starts
<1>8. CASE RollsBack
  BY <1>8 DEF RollsBack
<1>9. CASE RollbackReleases
  BY <1>9 DEF RollbackReleases, StartClose
<1>10. CASE RollbackUnwatches
  BY <1>10 DEF RollbackUnwatches
<1>11. CASE RollbackEnds
  BY <1>11 DEF RollbackEnds
<1> QED BY <1>1, <1>2, <1>3, <1>4, <1>5, <1>6, <1>7, <1>8, <1>9, <1>10, <1>11
        DEF InitializeStep

\* The steps of the watcher, the queue, the handlers, the reindex, the timer and
\* the store.
LEMMA CoverWork ==
  ASSUME CoverInv,
         \/ WatcherWorks \/ FileChanges \/ DrainHands \/ HandlerEnds
         \/ \E c \in Calls : WriterCalls(c) \/ StoreWorks(c)
         \/ ReindexEnds \/ IdleTimerFires \/ IdleCompacts \/ StoreCloses
  PROVE  CoverInv'
<1> USE DEF CoverInv, NoLateScan, ScanOver, HandlersOver, StoreOver, InitAwaited,
            ReindexAwaited, StoreAwaited, LoopAwaited, WorkFrame, initVars, queueVars,
            pipelineVars, lifeHistory, storeVars, Accepting
<1>1. CASE WatcherWorks \/ FileChanges
  BY <1>1 DEF WatcherWorks, FileChanges
<1>2. CASE DrainHands
  BY <1>2 DEF DrainHands
<1>3. CASE HandlerEnds
  BY <1>3 DEF HandlerEnds
<1>4. ASSUME NEW c \in Calls, WriterCalls(c) PROVE CoverInv'
  BY <1>4 DEF WriterCalls, Allowed, Admit
<1>5. ASSUME NEW c \in Calls, StoreWorks(c) PROVE CoverInv'
  BY <1>5 DEF StoreWorks, Start, Settle, Forget
<1>6. CASE ReindexEnds
  BY <1>6 DEF ReindexEnds
<1>7. CASE IdleTimerFires
  BY <1>7 DEF IdleTimerFires
<1>8. CASE IdleCompacts
  BY <1>8 DEF IdleCompacts, Admit
<1>9. CASE StoreCloses
  BY <1>9 DEF StoreCloses, CloseQuietly, CloseByForce
<1> QED BY <1>1, <1>2, <1>3, <1>4, <1>5, <1>6, <1>7, <1>8, <1>9

\* The statements of close().
LEMMA CoverClose ==
  ASSUME CoverInv, Close \/ CloseStep
  PROVE  CoverInv'
<1> USE DEF CoverInv, NoLateScan, ScanOver, HandlersOver, StoreOver, InitAwaited,
            ReindexAwaited, StoreAwaited, LoopAwaited, CloseFrame, initVars, lifeHistory,
            storeVars, Accepting
<1>1. CASE Close
  BY <1>1 DEF Close
<1>2. CASE CloseStopsMetrics
  BY <1>2 DEF CloseStopsMetrics
<1>3. CASE CloseAwaitsReindex
  BY <1>3 DEF CloseAwaitsReindex
<1>4. CASE CloseStopsPipeline
  BY <1>4 DEF CloseStopsPipeline
<1>5. CASE CloseReleases
  BY <1>5 DEF CloseReleases, StartClose
<1>6. CASE CloseEndsLoop
  BY <1>6 DEF CloseEndsLoop
<1>7. CASE CloseEndsLog
  BY <1>7 DEF CloseEndsLog
<1>8. CASE CloseUnlocks
  BY <1>8 DEF CloseUnlocks
<1> QED BY <1>1, <1>2, <1>3, <1>4, <1>5, <1>6, <1>7, <1>8 DEF CloseStep

LEMMA CoverStep == CoverInv /\ [LifeNext]_lifeVars => CoverInv'
<1> SUFFICES ASSUME CoverInv, [LifeNext]_lifeVars PROVE CoverInv'
  OBVIOUS
<1>1. CASE LifeNext
  BY <1>1, CoverInitialize, CoverWork, CoverClose DEF LifeNext
<1>2. CASE UNCHANGED lifeVars
  BY <1>2 DEF lifeVars, storeVars, initVars, queueVars, pipelineVars, lifeHistory, CoverInv,
              NoLateScan, ScanOver, HandlersOver, StoreOver, InitAwaited, ReindexAwaited,
              StoreAwaited, LoopAwaited
<1> QED BY <1>1, <1>2

\* The project lock is given up only when no handler and no reindex is at work
\* and no call that writes is left in the store, unless the store was released
\* under a compaction: the order of the statements of close() and onClose().
THEOREM LockCoversWritesAlways == LifeSpec => []LockCoversWrites
<1>1. CoverInv => LockCoversWrites
  BY DEF CoverInv, ScanOver, HandlersOver, StoreOver, ReindexAwaited, StoreAwaited,
         LoopAwaited, LockCoversWrites
<1> QED BY CoverInitially, CoverStep, <1>1, PTL DEF LifeSpec

-----------------------------------------------------------------------------
(***************************************************************************)
(* What is stopped stays stopped.                                          *)
(***************************************************************************)

\* A watcher that watches has not been told to stop.
WatcherFormed ==
  /\ watching \in WatcherStates
  /\ watching = "watching" => ~isStopped

\* Nobody initializes any more; then watcher, pipeline and store have ended.
ClosedInOrder ==
  /\ InitAwaited /\ ~lateInit =>
       init \in {"none", "done"} /\ isStopped /\ ~postScan /\ ~metrics
  /\ WatcherAwaited /\ ~lateInit => watching = "none"
  /\ ReindexAwaited /\ ~lateInit => ~running /\ idleTimer # "armed"
  /\ StoreAwaited => life = "closed"

\* After a rollback no attempt gets further than the store, which is closed.
RolledBackInOrder ==
  rolledBack =>
    /\ init \in {"none", "metadata", "stopping", "releasing", "unwatching"}
    /\ ~running /\ idleTimer # "armed"
    /\ init \in {"none", "metadata", "unwatching"} => life = "closed" /\ isStopped
    /\ init \in {"none", "metadata"} => watching = "none"

EndInv == WatcherFormed /\ ClosedInOrder /\ RolledBackInOrder

LEMMA EndInitially == LifeInit => EndInv
  BY DEF LifeInit, WatcherInit, EndInv, WatcherFormed, WatcherStates, ClosedInOrder,
         RolledBackInOrder, InitAwaited, WatcherAwaited, ReindexAwaited, StoreAwaited

LEMMA EndInitialize ==
  ASSUME EndInv, Initialize \/ InitializeStep
  PROVE  EndInv'
<1> USE DEF EndInv, WatcherFormed, WatcherStates, ClosedInOrder, RolledBackInOrder,
            InitAwaited, WatcherAwaited, ReindexAwaited, StoreAwaited, InitReaches,
            InitRejects, InitFrame, watcherVars, pipelineVars, lifeHistory, storeVars,
            Accepting
<1>1. CASE Initialize
  BY <1>1 DEF Initialize, ShuttingDown
<1>2. CASE MetadataOpens
  BY <1>2 DEF MetadataOpens, Admit
<1>3. CASE StoreOpens
  BY <1>3 DEF StoreOpens, Opens, Settle, Forget
<1>4. CASE StoresFail
  BY <1>4 DEF StoresFail, Settle, Forget
<1>5. CASE Reconciles
  BY <1>5 DEF Reconciles, StartWatcher
<1>6. CASE WatcherStarts
  BY <1>6 DEF WatcherStarts
<1>7. CASE Starts
  BY <1>7 DEF Starts
<1>8. CASE RollsBack
  BY <1>8 DEF RollsBack
<1>9. CASE RollbackReleases
  BY <1>9 DEF RollbackReleases, StartClose
<1>10. CASE RollbackUnwatches
  BY <1>10 DEF RollbackUnwatches, StopWatcher
<1>11. CASE RollbackEnds
  BY <1>11 DEF RollbackEnds, WatcherStopped, IsStarting
<1> QED BY <1>1, <1>2, <1>3, <1>4, <1>5, <1>6, <1>7, <1>8, <1>9, <1>10, <1>11
        DEF InitializeStep

LEMMA EndWork ==
  ASSUME EndInv,
         \/ WatcherWorks \/ FileChanges \/ DrainHands \/ HandlerEnds
         \/ \E c \in Calls : WriterCalls(c) \/ StoreWorks(c)
         \/ ReindexEnds \/ IdleTimerFires \/ IdleCompacts \/ StoreCloses
  PROVE  EndInv'
<1> USE DEF EndInv, WatcherFormed, WatcherStates, ClosedInOrder, RolledBackInOrder,
            InitAwaited, WatcherAwaited, ReindexAwaited, StoreAwaited, WorkFrame, initVars,
            watcherVars, pipelineVars, lifeHistory, storeVars, Accepting
<1>1. CASE WatcherWorks
  BY <1>1 DEF WatcherWorks, WatcherStep, CreatesWatcher, BecomesReady, FailsToWatch,
              WatcherCloses
<1>2. CASE FileChanges \/ DrainHands \/ HandlerEnds
  BY <1>2 DEF FileChanges, DrainHands, HandlerEnds
<1>3. ASSUME NEW c \in Calls, WriterCalls(c) PROVE EndInv'
  BY <1>3 DEF WriterCalls, Admit
<1>4. ASSUME NEW c \in Calls, StoreWorks(c) PROVE EndInv'
  BY <1>4 DEF StoreWorks, Start, Settle, Forget
<1>5. CASE ReindexEnds
  BY <1>5 DEF ReindexEnds
<1>6. CASE IdleTimerFires
  BY <1>6 DEF IdleTimerFires
<1>7. CASE IdleCompacts
  BY <1>7 DEF IdleCompacts, Admit
<1>8. CASE StoreCloses
  BY <1>8 DEF StoreCloses, CloseQuietly, CloseByForce
<1> QED BY <1>1, <1>2, <1>3, <1>4, <1>5, <1>6, <1>7, <1>8

LEMMA EndClose ==
  ASSUME EndInv, Close \/ CloseStep
  PROVE  EndInv'
<1> USE DEF EndInv, WatcherFormed, WatcherStates, ClosedInOrder, RolledBackInOrder,
            InitAwaited, WatcherAwaited, ReindexAwaited, StoreAwaited, CloseFrame, initVars,
            watcherVars, lifeHistory, storeVars, Accepting
<1>1. CASE Close
  BY <1>1 DEF Close
<1>2. CASE CloseStopsMetrics
  BY <1>2 DEF CloseStopsMetrics, StopWatcher
<1>3. CASE CloseAwaitsReindex
  BY <1>3 DEF CloseAwaitsReindex, WatcherStopped, IsStarting
<1>4. CASE CloseStopsPipeline
  BY <1>4 DEF CloseStopsPipeline
<1>5. CASE CloseReleases
  BY <1>5 DEF CloseReleases, StartClose
<1>6. CASE CloseEndsLoop
  BY <1>6 DEF CloseEndsLoop
<1>7. CASE CloseEndsLog
  BY <1>7 DEF CloseEndsLog
<1>8. CASE CloseUnlocks
  BY <1>8 DEF CloseUnlocks
<1> QED BY <1>1, <1>2, <1>3, <1>4, <1>5, <1>6, <1>7, <1>8 DEF CloseStep

LEMMA EndStep == EndInv /\ [LifeNext]_lifeVars => EndInv'
<1> SUFFICES ASSUME EndInv, [LifeNext]_lifeVars PROVE EndInv'
  OBVIOUS
<1>1. CASE LifeNext
  BY <1>1, EndInitialize, EndWork, EndClose DEF LifeNext
<1>2. CASE UNCHANGED lifeVars
  BY <1>2 DEF lifeVars, storeVars, watcherVars, initVars, pipelineVars, lifeHistory, EndInv,
              WatcherFormed, ClosedInOrder, RolledBackInOrder, InitAwaited, WatcherAwaited,
              ReindexAwaited, StoreAwaited
<1> QED BY <1>1, <1>2

\* Nothing is at work in a runtime that was closed or rolled back: no watcher, no
\* timer, no metrics server and no open store (close() and the rollback of
\* initialize()), unless a tool asked for initialize() during close().
THEOREM EndsStoppedAlways == LifeSpec => []EndsStopped
<1>1. EndInv => EndsStopped
  BY DEF EndInv, ClosedInOrder, RolledBackInOrder, InitAwaited, WatcherAwaited,
         ReindexAwaited, StoreAwaited, EndsStopped, ClosedMeansStopped, RolledBackIsStopped
<1> QED BY EndInitially, EndStep, <1>1, PTL DEF LifeSpec

-----------------------------------------------------------------------------
(***************************************************************************)
(* Nobody waits for ever.                                                  *)
(***************************************************************************)

\* Who waits for a write waits for all that the write waits for, and nobody
\* waits for itself.
WaitsInLine ==
  /\ IsFiniteSet(pending)
  /\ \A c \in Calls : c \notin before[c]
  /\ \A c \in Calls : \A d \in before[c] : before[d] \subseteq before[c]

QueueInv == StoreInv /\ WaitsInLine

\* A call whose turn has come or can come, or one that waits for such a call.
CallGoesOn(c) == \E d \in before[c] \cup {c} : d \in pending /\ before[d] = {}
NoCallStuck == \A c \in pending : CallGoesOn(c)

LEMMA QueueInitially == StoreInit => QueueInv
<1> SUFFICES ASSUME StoreInit PROVE QueueInv
  OBVIOUS
<1>1. WaitsInLine
  BY FS_EmptySet DEF StoreInit, WaitsInLine
<1> QED BY <1>1, StoreInitially DEF QueueInv

LEMMA ForgetInLine ==
  ASSUME NEW c \in Calls, QueueInv, Forget(c)
  PROVE  WaitsInLine'
<1>1. IsFiniteSet(pending')
  BY FS_Subset DEF QueueInv, WaitsInLine, Forget
<1>2. \A d \in Calls : before'[d] = IF d = c THEN {} ELSE before[d] \ {c}
  BY DEF Forget
<1>3. \A d \in Calls : before[d] \subseteq Calls
  BY DEF QueueInv, StoreInv, StoreTypeOK
<1> QED BY <1>1, <1>2, <1>3 DEF QueueInv, WaitsInLine

LEMMA AdmitInLine ==
  ASSUME NEW c \in Calls, NEW type \in CallTypes, QueueInv, Admit(c, type)
  PROVE  WaitsInLine'
<1>1. IsFiniteSet(pending')
  BY FS_AddElement DEF QueueInv, WaitsInLine, Admit
<1>2. \A d \in Calls : before[d] \subseteq writing
  BY DEF QueueInv, StoreInv, StoreTypeOK
<1>3. writing \subseteq Calls /\ c \notin writing
  BY DEF QueueInv, StoreInv, StoreTypeOK, Admit
<1>4. /\ \A d \in Calls \ {c} : before'[d] = before[d]
      /\ before'[c] \subseteq writing
      /\ before'[c] = {} \/ before'[c] = writing
  BY DEF Admit, QueueInv, StoreInv, StoreTypeOK
<1> QED BY <1>1, <1>2, <1>3, <1>4 DEF QueueInv, WaitsInLine

LEMMA QueueStep == QueueInv /\ [StoreNext]_storeVars => QueueInv'
<1> SUFFICES ASSUME QueueInv, [StoreNext]_storeVars PROVE WaitsInLine'
  BY StoreStep DEF QueueInv
<1>1. ASSUME NEW c \in Calls, Settle(c) \/ Opens(c) PROVE WaitsInLine'
  BY <1>1, ForgetInLine DEF Settle, Opens
<1>2. ASSUME NEW c \in Calls, Start(c) PROVE WaitsInLine'
  BY <1>2 DEF Start, QueueInv, WaitsInLine
<1>3. CASE StartClose \/ CloseQuietly \/ CloseByForce \/ UNCHANGED storeVars
  BY <1>3 DEF StartClose, CloseQuietly, CloseByForce, storeVars, QueueInv, WaitsInLine
<1>4. CASE Restarts
  BY <1>4, FS_EmptySet DEF Restarts, WaitsInLine
<1> QED BY <1>1, <1>2, <1>3, <1>4, AdmitInLine DEF StoreNext

\* The one that has the fewest before it, among those a call waits for, waits
\* for nobody.
LEMMA LineMoves == QueueInv => NoCallStuck
<1> SUFFICES ASSUME QueueInv, NEW c \in pending PROVE CallGoesOn(c)
  BY DEF NoCallStuck
<1>1. CASE before[c] = {}
  BY <1>1 DEF CallGoesOn
<1>2. CASE before[c] # {}
  <2> DEFINE sizes == {Cardinality(before[d]) : d \in before[c]}
  <2>1. /\ c \in Calls
        /\ \A d \in Calls : before[d] \subseteq pending /\ before[d] \subseteq Calls
    BY DEF QueueInv, StoreInv, StoreTypeOK
  <2>2. \A d \in Calls : IsFiniteSet(before[d])
    BY <2>1, FS_Subset DEF QueueInv, WaitsInLine
  <2>3. sizes \subseteq Nat /\ sizes # {}
    BY <1>2, <2>1, <2>2, FS_CardinalityType
  <2>4. PICK n \in sizes : \A m \in sizes : n <= m
    BY <2>3, LeastNumber, Zenon
  <2>5. PICK d \in before[c] : n = Cardinality(before[d])
    OBVIOUS
  <2>6. ASSUME NEW e \in before[d] PROVE FALSE
    <3>1. d \in Calls /\ e \in Calls /\ e \in before[c]
      BY <2>1 DEF QueueInv, WaitsInLine
    <3>2. before[e] \subseteq before[d] /\ e \notin before[e]
      BY <3>1 DEF QueueInv, WaitsInLine
    <3>3. before[e] # before[d]
      BY <3>2
    <3>4. Cardinality(before[e]) < Cardinality(before[d])
      BY <2>2, <3>1, <3>2, <3>3, FS_Subset, FS_CardinalityType
    <3>5. Cardinality(before[e]) \in sizes
      BY <3>1
    <3>6. n <= Cardinality(before[e])
      BY <2>4, <3>5
    <3>7. n \in Nat /\ Cardinality(before[e]) \in Nat
      BY <2>3, <3>5
    <3> QED BY <2>5, <3>4, <3>6, <3>7
  <2>7. d \in pending
    BY <2>1
  <2> QED BY <2>6, <2>7 DEF CallGoesOn
<1> QED BY <1>1, <1>2

\* No call of the store waits for ever for others that wait: whoever waits in
\* runInWriteLock(), or to read behind the writes, has a write before it that
\* waits for nobody.
THEOREM WritesNeverStuck == StoreSpec => []NoCallStuck
  BY QueueInitially, QueueStep, LineMoves, PTL DEF StoreSpec

-----------------------------------------------------------------------------
\* What initialize(), the handlers, the reindex, the timer and close() do to the
\* vector store is a step that it promises.
LEMMA InitializeUsesStore ==
  Initialize \/ InitializeStep => [StoreNext]_storeVars
<1> SUFFICES ASSUME Initialize \/ InitializeStep PROVE [StoreNext]_storeVars
  OBVIOUS
<1>1. CASE MetadataOpens
  BY <1>1 DEF MetadataOpens, StoreNext, CallTypes
<1>2. CASE StoreOpens
  BY <1>2 DEF StoreOpens, StoreNext
<1>3. CASE StoresFail
  BY <1>3 DEF StoresFail, StoreNext
<1>4. CASE RollbackReleases
  BY <1>4 DEF RollbackReleases, StoreNext
<1>5. CASE \/ Initialize \/ Reconciles \/ WatcherStarts \/ Starts \/ RollsBack
           \/ RollbackUnwatches \/ RollbackEnds
  BY <1>5 DEF Initialize, Reconciles, WatcherStarts, Starts, RollsBack, RollbackUnwatches,
              RollbackEnds
<1> QED BY <1>1, <1>2, <1>3, <1>4, <1>5 DEF InitializeStep

LEMMA RuntimeUsesStore == [LifeNext]_lifeVars => [StoreNext]_storeVars
<1> SUFFICES ASSUME [LifeNext]_lifeVars PROVE [StoreNext]_storeVars
  OBVIOUS
<1>1. CASE Initialize \/ InitializeStep
  BY <1>1, InitializeUsesStore
<1>2. ASSUME NEW c \in Calls, WriterCalls(c) \/ StoreWorks(c) PROVE [StoreNext]_storeVars
  BY <1>2 DEF WriterCalls, StoreWorks, StoreNext, CallTypes
<1>3. CASE IdleCompacts
  BY <1>3 DEF IdleCompacts, StoreNext, CallTypes
<1>4. CASE StoreCloses
  BY <1>4 DEF StoreCloses, StoreNext
<1>5. CASE CloseReleases
  BY <1>5 DEF CloseReleases, StoreNext
<1>6. CASE \/ WatcherWorks \/ FileChanges \/ DrainHands \/ HandlerEnds \/ ReindexEnds
           \/ IdleTimerFires
  BY <1>6 DEF WatcherWorks, FileChanges, DrainHands, HandlerEnds, ReindexEnds, IdleTimerFires
<1>7. CASE \/ Close \/ CloseStopsMetrics \/ CloseAwaitsReindex \/ CloseStopsPipeline
           \/ CloseEndsLoop \/ CloseEndsLog \/ CloseUnlocks
  BY <1>7 DEF Close, CloseStopsMetrics, CloseAwaitsReindex, CloseStopsPipeline,
              CloseEndsLoop, CloseEndsLog, CloseUnlocks
<1>8. CASE UNCHANGED lifeVars
  BY <1>8 DEF lifeVars
<1> QED BY <1>1, <1>2, <1>3, <1>4, <1>5, <1>6, <1>7, <1>8 DEF LifeNext, CloseStep

\* The runtime uses the vector store as it may be used: every call of it, from
\* initialize() to the pipeline's stop(), is one that the store admits, and what
\* the store promises holds within a runtime.
THEOREM RuntimeUsesStoreRightly == LifeSpec => StoreSpec
<1>1. LifeInit => StoreInit
  BY DEF LifeInit
<1> QED BY <1>1, RuntimeUsesStore, PTL DEF LifeSpec, StoreSpec

-----------------------------------------------------------------------------
\* What close() waits for, and what that waits for in turn, can go on.
StoreServes(c) == c \in pending => CallGoesOn(c)
ReindexGoesOn == reindexing => StoreServes(Scan)
HandlerGoesOn == busy => StoreServes(Handler)

InitGoesOn ==
  /\ init = "store" => Opening \in pending /\ before[Opening] = {}
  /\ init = "watcher" => startResult \in {"resolved", "limit", "rejected"} \/ IsStarting
  /\ init = "stopping" => ReindexGoesOn
  /\ init = "releasing" => life \in {"closing", "closed"}

CloseGoesOn ==
  /\ closing = "init" => InitGoesOn
  /\ closing \in {"reindex", "pipeline"} => ReindexGoesOn
  /\ closing = "store" => life \in {"closing", "closed"}
  /\ closing = "loop" => HandlerGoesOn

\* initialize() waits for its own call, and for a watcher that is starting.
OpeningFits ==
  /\ Opening \notin writing
  /\ init = "store" => Opening \in pending /\ before[Opening] = {}
  /\ startResult \in {"none", "pending", "resolved", "limit", "rejected"}
  /\ startResult = "pending" => IsStarting
  /\ init = "watcher" => startResult # "none"

\* Whoever waits for the store to be closed has asked for it.
ReleaseAsked ==
  /\ life \in {"new", "open", "closing", "closed"}
  /\ init = "releasing" \/ closing = "store" => life \in {"closing", "closed"}

StuckInv == QueueInv /\ OpeningFits /\ ReleaseAsked

LEMMA StuckInitially == LifeInit => StuckInv
<1> SUFFICES ASSUME LifeInit PROVE StuckInv
  OBVIOUS
<1>1. QueueInv
  BY QueueInitially DEF LifeInit
<1> QED BY <1>1 DEF LifeInit, StoreInit, WatcherInit, StuckInv, OpeningFits, ReleaseAsked

\* A call of the store other than initialize() leaves that one alone.
LEMMA OpeningStays ==
  ASSUME StuckInv, NEW c \in Calls \ {Opening},
         Admit(c, "write") \/ Start(c) \/ Settle(c)
  PROVE  /\ Opening \notin writing'
         /\ Opening \in pending => Opening \in pending'
         /\ before[Opening] = {} => before'[Opening] = {}
         /\ UNCHANGED life
<1>1. Opening \in Calls /\ before \in [Calls -> SUBSET writing] /\ Opening \notin writing
  BY DEF StuckInv, OpeningFits, QueueInv, StoreInv, StoreTypeOK
<1> QED BY <1>1 DEF Admit, Start, Settle, Forget

LEMMA StuckInitialize ==
  ASSUME StuckInv, Initialize \/ InitializeStep
  PROVE  OpeningFits' /\ ReleaseAsked'
<1> USE DEF OpeningFits, ReleaseAsked, InitReaches, InitRejects, InitFrame, pipelineVars,
            watcherVars, storeVars, IsStarting
<1>0. /\ OpeningFits /\ ReleaseAsked /\ Opening \in Calls
      /\ before \in [Calls -> SUBSET writing]
  BY DEF StuckInv, QueueInv, StoreInv, StoreTypeOK
<1>1. CASE Initialize
  BY <1>0, <1>1 DEF Initialize
<1>2. CASE MetadataOpens
  BY <1>0, <1>2 DEF MetadataOpens, Admit, Accepting
<1>3. CASE StoreOpens
  BY <1>0, <1>3 DEF StoreOpens, Opens, Settle, Forget
<1>4. CASE StoresFail
  BY <1>0, <1>4 DEF StoresFail, Settle, Forget
<1>5. CASE Reconciles
  BY <1>0, <1>5 DEF Reconciles, StartWatcher
<1>6. CASE WatcherStarts
  BY <1>0, <1>6 DEF WatcherStarts
<1>7. CASE Starts
  BY <1>0, <1>7 DEF Starts
<1>8. CASE RollsBack
  BY <1>0, <1>8 DEF RollsBack
<1>9. CASE RollbackReleases
  BY <1>0, <1>9 DEF RollbackReleases, StartClose, Accepting
<1>10. CASE RollbackUnwatches
  BY <1>0, <1>10 DEF RollbackUnwatches, StopWatcher
<1>11. CASE RollbackEnds
  BY <1>0, <1>11 DEF RollbackEnds
<1> QED BY <1>1, <1>2, <1>3, <1>4, <1>5, <1>6, <1>7, <1>8, <1>9, <1>10, <1>11
        DEF InitializeStep

LEMMA StuckWork ==
  ASSUME StuckInv,
         \/ WatcherWorks \/ FileChanges \/ DrainHands \/ HandlerEnds
         \/ \E c \in Calls : WriterCalls(c) \/ StoreWorks(c)
         \/ ReindexEnds \/ IdleTimerFires \/ IdleCompacts \/ StoreCloses
  PROVE  OpeningFits' /\ ReleaseAsked'
<1> USE DEF OpeningFits, ReleaseAsked, WorkFrame, initVars, watcherVars, storeVars, IsStarting
<1>0. /\ OpeningFits /\ ReleaseAsked /\ Opening \in Calls
      /\ before \in [Calls -> SUBSET writing]
  BY DEF StuckInv, QueueInv, StoreInv, StoreTypeOK
<1>1. CASE WatcherWorks
  BY <1>0, <1>1 DEF WatcherWorks, WatcherStep, CreatesWatcher, BecomesReady, FailsToWatch,
                    WatcherCloses
<1>2. CASE FileChanges \/ DrainHands \/ HandlerEnds \/ ReindexEnds \/ IdleTimerFires
  BY <1>0, <1>2 DEF FileChanges, DrainHands, HandlerEnds, ReindexEnds, IdleTimerFires
<1>3. ASSUME NEW c \in Calls, WriterCalls(c) PROVE OpeningFits' /\ ReleaseAsked'
  <2>1. c # Opening /\ Admit(c, "write")
    BY <1>3 DEF WriterCalls, Allowed
  <2> QED BY <1>0, <1>3, <2>1, OpeningStays DEF WriterCalls
<1>4. ASSUME NEW c \in Calls, StoreWorks(c) PROVE OpeningFits' /\ ReleaseAsked'
  <2>1. CASE c = Opening
    BY <1>0, <1>4, <2>1 DEF StoreWorks, Start
  <2>2. CASE c # Opening
    BY <1>0, <1>4, <2>2, OpeningStays DEF StoreWorks
  <2> QED BY <2>1, <2>2
<1>5. CASE IdleCompacts
  BY <1>0, <1>5, OpeningStays DEF IdleCompacts
<1>6. CASE StoreCloses
  BY <1>0, <1>6 DEF StoreCloses, CloseQuietly, CloseByForce
<1> QED BY <1>1, <1>2, <1>3, <1>4, <1>5, <1>6

LEMMA StuckClose ==
  ASSUME StuckInv, Close \/ CloseStep
  PROVE  OpeningFits' /\ ReleaseAsked'
<1> USE DEF OpeningFits, ReleaseAsked, CloseFrame, initVars, watcherVars, storeVars, IsStarting
<1>0. OpeningFits /\ ReleaseAsked
  BY DEF StuckInv
<1>1. CASE Close
  BY <1>0, <1>1 DEF Close
<1>2. CASE CloseStopsMetrics
  BY <1>0, <1>2 DEF CloseStopsMetrics, StopWatcher
<1>3. CASE CloseAwaitsReindex \/ CloseStopsPipeline
  BY <1>0, <1>3 DEF CloseAwaitsReindex, CloseStopsPipeline
<1>4. CASE CloseReleases
  BY <1>0, <1>4 DEF CloseReleases, StartClose, Accepting
<1>5. CASE CloseEndsLoop \/ CloseEndsLog \/ CloseUnlocks
  BY <1>0, <1>5 DEF CloseEndsLoop, CloseEndsLog, CloseUnlocks
<1> QED BY <1>1, <1>2, <1>3, <1>4, <1>5 DEF CloseStep

LEMMA StuckStep == StuckInv /\ [LifeNext]_lifeVars => StuckInv'
<1> SUFFICES ASSUME StuckInv, [LifeNext]_lifeVars PROVE StuckInv'
  OBVIOUS
<1>1. QueueInv'
  BY RuntimeUsesStore, QueueStep DEF StuckInv
<1>2. CASE LifeNext
  BY <1>1, <1>2, StuckInitialize, StuckWork, StuckClose DEF LifeNext, StuckInv
<1>3. CASE UNCHANGED lifeVars
  BY <1>1, <1>3 DEF lifeVars, storeVars, initVars, watcherVars, StuckInv, OpeningFits,
                    ReleaseAsked, IsStarting
<1> QED BY <1>2, <1>3

\* close() is never stuck: each of its statements awaits something that has come
\* or that can go on, be it an initialization under way with its own waits, the
\* startup reindex or a handler with a call in the queue of the store, or the
\* store itself, which somebody has told to close.
THEOREM CloseNeverStuck == LifeSpec => []CloseGoesOn
<1>1. StuckInv => CloseGoesOn
  <2> SUFFICES ASSUME StuckInv PROVE CloseGoesOn
    OBVIOUS
  <2>1. ReindexGoesOn /\ HandlerGoesOn
    BY LineMoves DEF StuckInv, NoCallStuck, ReindexGoesOn, HandlerGoesOn, StoreServes
  <2>2. InitGoesOn
    BY <2>1 DEF StuckInv, OpeningFits, ReleaseAsked, InitGoesOn
  <2> QED BY <2>1, <2>2 DEF StuckInv, ReleaseAsked, CloseGoesOn
<1> QED BY StuckInitially, StuckStep, <1>1, PTL DEF LifeSpec

-----------------------------------------------------------------------------
\* Types.
LEMMA RuntimeTypes ==
  LifeTypeOK /\ StoreTypeOK' /\ [LifeNext]_lifeVars => LifeTypeOK'
<1> SUFFICES ASSUME LifeTypeOK, StoreTypeOK', [LifeNext]_lifeVars PROVE LifeTypeOK'
  OBVIOUS
<1> USE DEF LifeTypeOK, WatcherTypeOK, WatcherStates, InitSteps, CloseSteps
<1>1. CASE InitializeStep
  <2> USE DEF InitReaches, InitRejects, InitFrame, watcherVars, pipelineVars
  <2>1. CASE MetadataOpens \/ StoreOpens \/ StoresFail \/ WatcherStarts \/ RollbackReleases
    BY <2>1 DEF MetadataOpens, StoreOpens, StoresFail, WatcherStarts, RollbackReleases
  <2>2. CASE Reconciles
    BY <2>2 DEF Reconciles, StartWatcher
  <2>3. CASE Starts \/ RollsBack
    BY <2>3 DEF Starts, RollsBack
  <2>4. CASE RollbackUnwatches
    BY <2>4 DEF RollbackUnwatches, StopWatcher
  <2>5. CASE RollbackEnds
    BY <2>5 DEF RollbackEnds
  <2> QED BY <1>1, <2>1, <2>2, <2>3, <2>4, <2>5 DEF InitializeStep
<1>2. CASE Initialize
  BY <1>2, InitsAssumption DEF Initialize, watcherVars, pipelineVars
<1>3. CASE WatcherWorks
  BY <1>3 DEF WatcherWorks, WatcherStep, CreatesWatcher, BecomesReady, FailsToWatch,
              WatcherCloses, initVars, pipelineVars
<1>4. CASE \/ FileChanges \/ DrainHands \/ HandlerEnds \/ ReindexEnds \/ IdleTimerFires
           \/ IdleCompacts \/ StoreCloses
           \/ \E c \in Calls : WriterCalls(c) \/ StoreWorks(c)
  BY <1>4 DEF FileChanges, DrainHands, HandlerEnds, ReindexEnds, IdleTimerFires, IdleCompacts,
              StoreCloses, WriterCalls, StoreWorks, WorkFrame, initVars, watcherVars, pipelineVars
<1>5. CASE Close \/ CloseStep
  <2> USE DEF CloseFrame, initVars, watcherVars
  <2>1. CASE Close
    BY <2>1 DEF Close
  <2>2. CASE CloseStopsMetrics
    BY <2>2 DEF CloseStopsMetrics, StopWatcher
  <2>3. CASE CloseAwaitsReindex \/ CloseStopsPipeline \/ CloseReleases
    BY <2>3 DEF CloseAwaitsReindex, CloseStopsPipeline, CloseReleases
  <2>4. CASE CloseEndsLoop \/ CloseEndsLog \/ CloseUnlocks
    BY <2>4 DEF CloseEndsLoop, CloseEndsLog, CloseUnlocks
  <2> QED BY <1>5, <2>1, <2>2, <2>3, <2>4 DEF CloseStep
<1>6. CASE UNCHANGED lifeVars
  BY <1>6 DEF lifeVars, initVars, watcherVars, pipelineVars
<1> QED BY <1>1, <1>2, <1>3, <1>4, <1>5, <1>6 DEF LifeNext

\* The states of initialize(), close(), the watcher, the idle timer and the store
\* are those the code names.
THEOREM LifeTyped == LifeSpec => []LifeTypeOK
<1>1. LifeInit => LifeTypeOK
  <2> SUFFICES ASSUME LifeInit PROVE LifeTypeOK
    OBVIOUS
  <2>1. StoreTypeOK
    BY StoreInitially DEF LifeInit, StoreInv
  <2>2. inits \in 0 .. MaxInits
    BY InitsAssumption DEF LifeInit
  <2> QED BY <2>1, <2>2 DEF LifeInit, WatcherInit, LifeTypeOK, WatcherTypeOK, WatcherStates,
                            InitSteps, CloseSteps
<1>2. StuckInv => StoreTypeOK
  BY DEF StuckInv, QueueInv, StoreInv
<1> QED BY <1>1, <1>2, StuckInitially, StuckStep, RuntimeTypes, PTL DEF LifeSpec

-----------------------------------------------------------------------------
USE SessionsAssumption, InFlightAssumption

\* The entries a managed server has to count.
Counted == Open \cup leaving

\* After dispose() only what it could not see may still enter the map.
DisposedSeen ==
  disposal # "no" =>
    /\ sessions \subseteq overtaken
    /\ fresh \ (identified \cup closedEntries) \subseteq overtaken

HttpInv ==
  /\ HttpTypeOK
  /\ activeSessions = Cardinality(Counted)
  /\ sessions = Open
  /\ DisposedSeen

-----------------------------------------------------------------------------
LEMMA CountedFinite ==
  ASSUME HttpTypeOK
  PROVE  Counted \subseteq Sessions /\ IsFiniteSet(Counted) /\ Cardinality(Counted) \in Nat
<1>1. Counted \subseteq Sessions
  BY DEF HttpTypeOK, Counted, Open
<1> QED BY <1>1, FS_Subset, FS_CardinalityType

\* What onSessionClose does to the count when one entry leaves.
LEMMA OneLeaves ==
  ASSUME HttpTypeOK, activeSessions = Cardinality(Counted), NEW s \in Counted,
         OnSessionClose, Counted' = Counted \ {s}
  PROVE  activeSessions' \in Nat /\ activeSessions' = Cardinality(Counted')
<1>1. Cardinality(Counted \ {s}) = Cardinality(Counted) - 1
  BY CountedFinite, FS_RemoveElement
<1>2. Cardinality(Counted \ {s}) \in Nat
  BY CountedFinite, FS_RemoveElement, FS_CardinalityType
<1>3. Cardinality(Counted) \in Nat
  BY CountedFinite
<1>4. activeSessions > 0
  BY <1>1, <1>2, <1>3
<1> QED BY <1>1, <1>2, <1>4 DEF OnSessionClose

\* Nothing happens to the count when the counted entries stay.
LEMMA NoneLeaves ==
  ASSUME HttpInv, UNCHANGED activeSessions, Counted' = Counted
  PROVE  activeSessions' \in Nat /\ activeSessions' = Cardinality(Counted')
  BY DEF HttpInv, HttpTypeOK

LEMMA HttpInitially == HttpInit => HttpInv
<1> SUFFICES ASSUME HttpInit PROVE HttpInv
  OBVIOUS
<1>1. Counted = {} /\ Open = {}
  BY DEF HttpInit, Counted, Open
<1>2. Cardinality({}) = 0
  BY FS_EmptySet
<1>3. HttpTypeOK
  BY DEF HttpInit, HttpTypeOK
<1>4. DisposedSeen
  BY DEF HttpInit, DisposedSeen
<1> QED BY <1>1, <1>2, <1>3, <1>4 DEF HttpInit, HttpInv

-----------------------------------------------------------------------------
\* One lemma per method.
LEMMA CreateKeeps ==
  ASSUME HttpInv, NEW s \in Sessions, CreateSessionEntry(s)
  PROVE  HttpInv'
<1>1. Open' = Open /\ Counted' = Counted
  BY DEF CreateSessionEntry, Counted, Open
<1>2. activeSessions' \in Nat /\ activeSessions' = Cardinality(Counted')
  BY <1>1, NoneLeaves DEF CreateSessionEntry
<1>3. HttpTypeOK'
  BY <1>2 DEF HttpInv, HttpTypeOK, CreateSessionEntry, disposeVars
<1>4. DisposedSeen'
  BY DEF DisposedSeen, CreateSessionEntry, disposeVars
<1>5. sessions' = Open'
  BY <1>1 DEF HttpInv, CreateSessionEntry
<1> QED BY <1>2, <1>3, <1>4, <1>5 DEF HttpInv

LEMMA InitializedKeeps ==
  ASSUME HttpInv, NEW s \in Sessions, SessionInitialized(s)
  PROVE  HttpInv'
<1>1. Open' = Open \cup {s} /\ Counted' = Counted \cup {s} /\ s \notin Counted
  BY DEF SessionInitialized, Counted, Open, HttpInv, HttpTypeOK
<1>2. activeSessions' \in Nat /\ activeSessions' = Cardinality(Counted')
  <2>1. Cardinality(Counted \cup {s}) = Cardinality(Counted) + 1
    BY <1>1, CountedFinite, FS_AddElement DEF HttpInv
  <2>2. Cardinality(Counted) \in Nat
    BY CountedFinite DEF HttpInv
  <2> QED BY <1>1, <2>1, <2>2 DEF SessionInitialized, HttpInv
<1>3. HttpTypeOK'
  BY <1>2 DEF HttpInv, HttpTypeOK, SessionInitialized, disposeVars
<1>4. DisposedSeen'
  BY DEF DisposedSeen, HttpInv, SessionInitialized, disposeVars
<1>5. sessions' = Open'
  BY <1>1 DEF HttpInv, SessionInitialized
<1> QED BY <1>2, <1>3, <1>4, <1>5 DEF HttpInv

LEMMA HandleKeeps ==
  ASSUME HttpInv, NEW s \in Sessions, HandleRequest(s)
  PROVE  HttpInv'
<1>1. Open' = Open /\ Counted' = Counted
  BY DEF HandleRequest, Counted, Open
<1>2. activeSessions' \in Nat /\ activeSessions' = Cardinality(Counted')
  BY <1>1, NoneLeaves DEF HandleRequest
<1>3. HttpTypeOK'
  <2>1. inFlight' \in [Sessions -> 0 .. MaxInFlight]
    BY DEF HttpInv, HttpTypeOK, HandleRequest
  <2> QED BY <1>2, <2>1 DEF HttpInv, HttpTypeOK, HandleRequest, disposeVars
<1>4. DisposedSeen'
  BY DEF DisposedSeen, HttpInv, HandleRequest, disposeVars
<1>5. sessions' = Open'
  BY <1>1 DEF HttpInv, HandleRequest
<1> QED BY <1>2, <1>3, <1>4, <1>5 DEF HttpInv

LEMMA OverTyped ==
  ASSUME HttpTypeOK, NEW s \in Sessions, NEW first \in BOOLEAN, RequestOver(s, first)
  PROVE  /\ fresh' \subseteq fresh
         /\ inFlight' \in [Sessions -> 0 .. MaxInFlight]
         /\ idle' \subseteq idle
<1>1. inFlight[s] > 0
  BY DEF HttpTypeOK, RequestOver
<1> QED BY <1>1 DEF HttpTypeOK, RequestOver

LEMMA EndsKeeps ==
  ASSUME HttpInv, NEW s \in Sessions, NEW first \in BOOLEAN, RequestEnds(s, first)
  PROVE  HttpInv'
<1>1. Open' = Open /\ Counted' = Counted
  BY DEF RequestEnds, Counted, Open
<1>2. activeSessions' \in Nat /\ activeSessions' = Cardinality(Counted')
  BY <1>1, NoneLeaves DEF RequestEnds
<1>3. sessions' = sessions
  BY DEF RequestEnds, HttpInv
<1>4. HttpTypeOK'
  BY <1>2, <1>3, OverTyped DEF HttpInv, HttpTypeOK, RequestEnds, disposeVars
<1>5. DisposedSeen'
  BY <1>3, OverTyped DEF DisposedSeen, HttpInv, RequestEnds, disposeVars
<1> QED BY <1>1, <1>2, <1>3, <1>4, <1>5 DEF HttpInv

LEMMA FailsKeeps ==
  ASSUME HttpInv, NEW s \in Sessions, FirstRequestFails(s)
  PROVE  HttpInv'
<1>1. s \in made
  BY DEF FirstRequestFails, RequestOver, HttpInv, HttpTypeOK
<1>2. Open' = Open \ {s} /\ sessions' = sessions \ {s}
  BY DEF FirstRequestFails, Open, HttpInv
<1>3. activeSessions' \in Nat /\ activeSessions' = Cardinality(Counted')
  <2>1. CASE s \in Open
    <3>1. s \in Counted /\ Counted' = Counted \ {s}
      BY <1>2, <2>1 DEF FirstRequestFails, Counted, Open, HttpInv, HttpTypeOK
    <3> QED BY <2>1, <3>1, OneLeaves DEF FirstRequestFails, HttpInv
  <2>2. CASE s \notin Open
    <3>1. Counted' = Counted
      BY <1>2, <2>2 DEF FirstRequestFails, Counted
    <3> QED BY <2>2, <3>1, NoneLeaves DEF FirstRequestFails
  <2> QED BY <2>1, <2>2
<1>4. HttpTypeOK'
  BY <1>1, <1>2, <1>3, OverTyped DEF HttpInv, HttpTypeOK, FirstRequestFails, disposeVars
<1>5. DisposedSeen'
  BY <1>2, OverTyped DEF DisposedSeen, HttpInv, FirstRequestFails, disposeVars
<1>6. sessions' = Open'
  BY <1>2 DEF HttpInv
<1> QED BY <1>3, <1>4, <1>5, <1>6 DEF HttpInv

LEMMA OnCloseKeeps ==
  ASSUME HttpInv, NEW s \in Sessions, OnClose(s)
  PROVE  HttpInv'
<1>2. Open' = Open \ {s} /\ sessions' = sessions \ {s}
  BY DEF OnClose, Open, HttpInv
<1>3. activeSessions' \in Nat /\ activeSessions' = Cardinality(Counted')
  <2>1. CASE s \in identified
    <3>1. s \in Counted /\ Counted' = Counted \ {s}
      BY <1>2, <2>1 DEF OnClose, Counted, Open, HttpInv, HttpTypeOK
    <3> QED BY <2>1, <3>1, OneLeaves DEF OnClose, HttpInv
  <2>2. CASE s \notin identified
    <3>1. Counted' = Counted
      BY <1>2, <2>2 DEF OnClose, Counted, Open
    <3> QED BY <2>2, <3>1, NoneLeaves DEF OnClose
  <2> QED BY <2>1, <2>2
<1>4. HttpTypeOK'
  BY <1>2, <1>3 DEF HttpInv, HttpTypeOK, OnClose, disposeVars
<1>5. DisposedSeen'
  BY <1>2 DEF DisposedSeen, HttpInv, OnClose, disposeVars
<1>6. sessions' = Open'
  BY <1>2 DEF HttpInv
<1> QED BY <1>3, <1>4, <1>5, <1>6 DEF HttpInv

\* The entries that are closed at once go from the map to those that leave, and
\* stay counted until their server is closed.
LEMMA ClosingKeepsCount ==
  ASSUME HttpInv, NEW S \in SUBSET sessions, CloseEntries(S), UNCHANGED <<identified, activeSessions>>
  PROVE  /\ sessions' = Open'
         /\ activeSessions' \in Nat
         /\ activeSessions' = Cardinality(Counted')
<1>1. Open' = Open \ S /\ Counted' = Counted
  BY DEF CloseEntries, Open, Counted, HttpInv
<1> QED BY <1>1, NoneLeaves DEF CloseEntries, HttpInv

LEMMA CleansKeeps ==
  ASSUME HttpInv, CleansUp
  PROVE  HttpInv'
<1>1. Expired \in SUBSET sessions
  BY DEF Expired
<1>2. /\ sessions' = Open'
      /\ activeSessions' \in Nat
      /\ activeSessions' = Cardinality(Counted')
  BY <1>1, ClosingKeepsCount DEF CleansUp
<1>3. HttpTypeOK'
  BY <1>1, <1>2 DEF HttpInv, HttpTypeOK, CleansUp, CloseEntries, disposeVars
<1>4. DisposedSeen'
  BY DEF DisposedSeen, CleansUp, disposeVars
<1> QED BY <1>2, <1>3, <1>4 DEF HttpInv

LEMMA DisposeKeeps ==
  ASSUME HttpInv, Dispose
  PROVE  HttpInv'
<1>1. /\ sessions' = Open'
      /\ activeSessions' \in Nat
      /\ activeSessions' = Cardinality(Counted')
  BY ClosingKeepsCount DEF Dispose
<1>2. HttpTypeOK'
  BY <1>1 DEF HttpInv, HttpTypeOK, Dispose, CloseEntries
<1>3. DisposedSeen'
  BY DEF DisposedSeen, Dispose, CloseEntries
<1> QED BY <1>1, <1>2, <1>3 DEF HttpInv

LEMMA EntryClosedKeeps ==
  ASSUME HttpInv, NEW s \in Sessions, EntryClosed(s)
  PROVE  HttpInv'
<1>1. Open' = Open /\ s \in Counted /\ Counted' = Counted \ {s}
  BY DEF EntryClosed, entries, Open, Counted, HttpInv, HttpTypeOK
<1>2. activeSessions' \in Nat /\ activeSessions' = Cardinality(Counted')
  BY <1>1, OneLeaves DEF EntryClosed, HttpInv
<1>3. HttpTypeOK'
  BY <1>2 DEF HttpInv, HttpTypeOK, EntryClosed, entries, disposeVars
<1>4. DisposedSeen'
  BY DEF DisposedSeen, HttpInv, EntryClosed, entries, disposeVars
<1>5. sessions' = Open'
  BY <1>1 DEF HttpInv, EntryClosed, entries
<1> QED BY <1>2, <1>3, <1>4, <1>5 DEF HttpInv

LEMMA RestKeeps ==
  ASSUME HttpInv, \/ \E s \in Sessions : TimePasses(s)
                  \/ DisposeEnds
                  \/ UNCHANGED httpVars
  PROVE  HttpInv'
<1>1. /\ UNCHANGED <<sessions, made, fresh, identified, closedEntries, inFlight, leaving,
                     activeSessions, awaited, overtaken>>
      /\ idle' \subseteq Sessions
      /\ disposal' = disposal \/ (disposal = "closing" /\ disposal' = "done")
  <2>1. CASE \E s \in Sessions : TimePasses(s)
    BY <2>1 DEF TimePasses, disposeVars, HttpInv, HttpTypeOK
  <2>2. CASE DisposeEnds
    BY <2>2 DEF DisposeEnds, entries, HttpInv, HttpTypeOK
  <2>3. CASE UNCHANGED httpVars
    BY <2>3 DEF httpVars, entries, disposeVars, HttpInv, HttpTypeOK
  <2> QED BY <2>1, <2>2, <2>3
<1>2. Open' = Open /\ Counted' = Counted
  BY <1>1 DEF Open, Counted
<1>3. HttpTypeOK'
  BY <1>1 DEF HttpInv, HttpTypeOK
<1>4. DisposedSeen'
  BY <1>1 DEF HttpInv, DisposedSeen
<1> QED BY <1>1, <1>2, <1>3, <1>4 DEF HttpInv

LEMMA HttpStep == HttpInv /\ [HttpNext]_httpVars => HttpInv'
  BY CreateKeeps, InitializedKeeps, HandleKeeps, EndsKeeps, FailsKeeps, OnCloseKeeps,
     CleansKeeps, DisposeKeeps, EntryClosedKeeps, RestKeeps DEF HttpNext

-----------------------------------------------------------------------------
\* The count of the managed server and the transport's map agree with the
\* sessions in every order of requests, closings, expiry and disposal.
THEOREM SessionsAlwaysAccounted == HttpSpec => []SessionsAccounted
<1>1. HttpInv => SessionsAccounted
  BY DEF HttpInv, SessionsAccounted, CountMatchesSessions, MapHoldsOpenSessions, Counted,
         DisposedSeen
<1> QED BY HttpInitially, HttpStep, <1>1, PTL DEF HttpSpec

\* The fields of the transport and of the managed server keep their types.
THEOREM SessionsTyped == HttpSpec => []HttpTypeOK
<1>1. HttpInv => HttpTypeOK
  BY DEF HttpInv
<1> QED BY HttpInitially, HttpStep, <1>1, PTL DEF HttpSpec

-----------------------------------------------------------------------------
(***************************************************************************)
(* The metrics of servers: who listens where, and who says so.             *)
(***************************************************************************)

\* No port has two owners.
PortsHeldOnce ==
  \A s, t \in Servers : \A p \in Ports : Listens(s, p) /\ Listens(t, p) => s = t

\* The file of a server that is up says its port, and its heartbeats run if it
\* has one; they outlast neither close() nor the process.
AnnouncedFits ==
  \A s \in Servers :
    /\ stage[s] = "up" => portFile[s] = port[s] /\ (port[s] # NoPort => s \in beats)
    /\ stage[s] = "unfiled" => portFile[s] = NoPort
    /\ s \in beats => port[s] # NoPort /\ stage[s] \in {"up", "unbound", "unfiled"}

\* An aggregator that is gone has no node and asks none.
AggregatorFits == ~aggregator => registered = NoNodes /\ checks = NoChecks

MetricsInv == MetricsTypeOK /\ PortsHeldOnce /\ AnnouncedFits /\ AggregatorFits

LEMMA MetricsInitially == MetricsInit => MetricsInv
<1> SUFFICES ASSUME MetricsInit PROVE MetricsInv
  OBVIOUS
<1>1. MetricsTypeOK
  <2>1. 0 \in 0 .. MaxStarts /\ 0 \in 0 .. MaxAggregators /\ 0 \in 0 .. MaxTimeouts
    BY MetricsAssumption
  <2>2. /\ registered \in [Ports -> Servers \union {NoServer}]
        /\ checks \in [Ports -> {"none", "asked", "failed"}]
    BY DEF MetricsInit, NoNodes, NoChecks
  <2>3. /\ stage \in [Servers -> {"down", "bound", "up", "unbound", "unfiled"}]
        /\ port \in [Servers -> Ports \union {NoPort}]
        /\ portFile \in [Servers -> Ports \union {NoPort}]
    BY DEF MetricsInit
  <2>4. /\ beats = {} /\ posts = {} /\ aggregator = FALSE
        /\ starts = 0 /\ aggregators = 0 /\ timeouts = 0
    BY DEF MetricsInit
  <2> QED BY <2>1, <2>2, <2>3, <2>4 DEF MetricsTypeOK
<1>2. PortsHeldOnce /\ AnnouncedFits
  BY DEF MetricsInit, PortsHeldOnce, AnnouncedFits, Listens
<1>3. AggregatorFits
  BY DEF MetricsInit, AggregatorFits
<1> QED BY <1>1, <1>2, <1>3 DEF MetricsInv

\* Steps of the aggregator, and posts, leave the servers alone.
LEMMA ServersStay ==
  ASSUME PortsHeldOnce, AnnouncedFits, UNCHANGED <<stage, port, portFile, beats>>
  PROVE  PortsHeldOnce' /\ AnnouncedFits'
  BY DEF PortsHeldOnce, AnnouncedFits, Listens

LEMMA AggregatorStays ==
  ASSUME AggregatorFits, UNCHANGED <<aggregator, registered, checks>>
  PROVE  AggregatorFits'
  BY DEF AggregatorFits, NoNodes, NoChecks

LEMMA StartsServerKeeps ==
  ASSUME MetricsInv, NEW s \in Servers, StartsServer(s)
  PROVE  MetricsInv'
<1>1. PICK p \in Ports :
        /\ Preferred[s] \in {p, NoPort}
        /\ Preferred[s] = NoPort => ~Taken(p)
        /\ port' = [port EXCEPT ![s] = IF Taken(p) THEN NoPort ELSE p]
  BY DEF StartsServer
<1>2. /\ stage[s] = "down" /\ starts < MaxStarts
      /\ stage' = [stage EXCEPT ![s] = "bound"] /\ starts' = starts + 1
      /\ UNCHANGED <<portFile, beats, posts, timeouts, aggregator, registered, checks, aggregators>>
  BY DEF StartsServer, aggregatorVars
<1> PICK new : new = IF Taken(p) THEN NoPort ELSE p
  OBVIOUS
<1>3. new \in Ports \union {NoPort} /\ port' = [port EXCEPT ![s] = new]
  BY <1>1
<1>4. MetricsTypeOK'
  BY <1>2, <1>3, MetricsAssumption DEF MetricsInv, MetricsTypeOK
<1>5. /\ stage'[s] = "bound" /\ port'[s] = new
      /\ \A t \in Servers \ {s} : stage'[t] = stage[t] /\ port'[t] = port[t]
  BY <1>2, <1>3 DEF MetricsInv, MetricsTypeOK
<1>6. \A t \in Servers \ {s} : \A q \in Ports : Listens(t, q)' = Listens(t, q)
  BY <1>5 DEF Listens
<1>7. ASSUME NEW q \in Ports, Listens(s, q)' PROVE q = p /\ ~Taken(p)
  BY <1>5, <1>7, MetricsAssumption DEF Listens
<1>8. PortsHeldOnce'
  BY <1>6, <1>7 DEF MetricsInv, PortsHeldOnce, Taken
<1>9. AnnouncedFits'
  BY <1>2, <1>5 DEF MetricsInv, AnnouncedFits
<1>10. AggregatorFits'
  BY <1>2, AggregatorStays DEF MetricsInv
<1> QED BY <1>4, <1>8, <1>9, <1>10 DEF MetricsInv

\* A server keeps its port, or gives it up.
LEMMA NobodyBinds ==
  ASSUME PortsHeldOnce, NEW s \in Servers,
         \A t \in Servers : port'[t] = port[t],
         \A t \in Servers \ {s} : stage'[t] = stage[t],
         stage'[s] \in {"bound", "up"} => stage[s] \in {"bound", "up"}
  PROVE  PortsHeldOnce'
<1>1. \A t \in Servers, p \in Ports : Listens(t, p)' => Listens(t, p)
  BY DEF Listens
<1> QED BY <1>1 DEF PortsHeldOnce

LEMMA AnnouncesKeeps ==
  ASSUME MetricsInv, NEW s \in Servers, Announces(s)
  PROVE  MetricsInv'
<1>1. /\ stage[s] = "bound" /\ stage' = [stage EXCEPT ![s] = "up"]
      /\ portFile' = [portFile EXCEPT ![s] = port[s]]
      /\ UNCHANGED <<port, starts, timeouts, aggregator, registered, checks, aggregators>>
  BY DEF Announces, aggregatorVars
<1>2. /\ stage'[s] = "up" /\ portFile'[s] = port[s] /\ port' = port
      /\ \A t \in Servers \ {s} : stage'[t] = stage[t] /\ portFile'[t] = portFile[t]
  BY <1>1 DEF MetricsInv, MetricsTypeOK
<1>3. CASE port[s] = NoPort
  <2>1. UNCHANGED <<beats, posts>>
    BY <1>3 DEF Announces
  <2>2. MetricsTypeOK'
    BY <1>1, <2>1 DEF MetricsInv, MetricsTypeOK
  <2>3. AnnouncedFits'
    BY <1>1, <1>2, <1>3, <2>1 DEF MetricsInv, AnnouncedFits
  <2> QED BY <1>1, <1>2, <2>2, <2>3, NobodyBinds, AggregatorStays DEF MetricsInv
<1>4. CASE port[s] # NoPort
  <2>1. beats' = beats \union {s} /\ posts' = posts \union {[server |-> s, port |-> port[s]]}
    BY <1>4 DEF Announces
  <2>2. [server |-> s, port |-> port[s]] \in Registrations
    BY <1>4 DEF MetricsInv, MetricsTypeOK, Registrations
  <2>3. MetricsTypeOK'
    BY <1>1, <2>1, <2>2 DEF MetricsInv, MetricsTypeOK
  <2>4. AnnouncedFits'
    BY <1>1, <1>2, <1>4, <2>1 DEF MetricsInv, AnnouncedFits
  <2> QED BY <1>1, <1>2, <2>3, <2>4, NobodyBinds, AggregatorStays DEF MetricsInv
<1> QED BY <1>3, <1>4

\* The end of a server, orderly or not.
LEMMA EndingKeeps ==
  ASSUME MetricsInv, NEW s \in Servers,
         StopsMetrics(s) \/ RemovesPortFile(s) \/ StopsBeats(s) \/ Dies(s)
  PROVE  MetricsInv'
<1>1. PICK next \in {"unbound", "unfiled", "down"} : stage' = [stage EXCEPT ![s] = next]
  BY DEF StopsMetrics, RemovesPortFile, StopsBeats, Dies
<1>2. UNCHANGED <<port, starts, posts, timeouts, aggregator, registered, checks, aggregators>>
  BY DEF StopsMetrics, RemovesPortFile, StopsBeats, Dies, aggregatorVars
<1>3. stage'[s] = next /\ \A t \in Servers \ {s} : stage'[t] = stage[t]
  BY <1>1 DEF MetricsInv, MetricsTypeOK
<1>4. PortsHeldOnce' /\ AggregatorFits'
  BY <1>2, <1>3, NobodyBinds, AggregatorStays DEF MetricsInv
<1>5. CASE StopsMetrics(s) \/ StopsBeats(s) \/ Dies(s)
  <2>1. portFile' = portFile /\ beats' \subseteq beats /\ beats \ {s} \subseteq beats'
    BY <1>5 DEF StopsMetrics, StopsBeats, Dies
  <2>2. next = "unbound" \/ (next = "down" /\ s \notin beats')
    BY <1>3, <1>5 DEF StopsMetrics, StopsBeats, Dies, MetricsInv, MetricsTypeOK
  <2>3. AnnouncedFits'
    BY <1>2, <1>3, <2>1, <2>2 DEF MetricsInv, AnnouncedFits
  <2>4. MetricsTypeOK'
    BY <1>1, <1>2, <2>1 DEF MetricsInv, MetricsTypeOK
  <2> QED BY <1>4, <2>3, <2>4 DEF MetricsInv
<1>6. CASE RemovesPortFile(s)
  <2>1. stage' = [stage EXCEPT ![s] = "unfiled"]
        /\ portFile' = [portFile EXCEPT ![s] = NoPort] /\ beats' = beats
    BY <1>6 DEF RemovesPortFile
  <2>2. /\ stage'[s] = "unfiled" /\ portFile'[s] = NoPort
        /\ \A t \in Servers \ {s} : portFile'[t] = portFile[t]
    BY <2>1 DEF MetricsInv, MetricsTypeOK
  <2>3. AnnouncedFits'
    BY <1>2, <1>3, <2>1, <2>2 DEF MetricsInv, AnnouncedFits
  <2>4. MetricsTypeOK'
    BY <1>2, <2>1 DEF MetricsInv, MetricsTypeOK
  <2> QED BY <1>4, <2>3, <2>4 DEF MetricsInv
<1> QED BY <1>5, <1>6

\* Heartbeats, and what becomes of the posts.
LEMMA PostsKeep ==
  ASSUME MetricsInv,
         \/ \E s \in Servers : Beats(s)
         \/ \E m \in Registrations : Registers(m) \/ RegistrationFails(m)
  PROVE  MetricsInv'
<1>1. UNCHANGED <<stage, port, portFile, beats, starts>>
  BY DEF Beats, Registers, RegistrationFails, serverVars
<1>2. PortsHeldOnce' /\ AnnouncedFits'
  BY <1>1, ServersStay DEF MetricsInv
<1>3. ASSUME NEW s \in Servers, Beats(s) PROVE MetricsInv'
  <2>1. /\ s \in beats /\ posts' = posts \union {[server |-> s, port |-> port[s]]}
        /\ UNCHANGED <<timeouts, aggregator, registered, checks, aggregators>>
    BY <1>3 DEF Beats, aggregatorVars
  <2>2. port[s] \in Ports
    BY <2>1 DEF MetricsInv, AnnouncedFits, MetricsTypeOK
  <2>3. [server |-> s, port |-> port[s]] \in Registrations
    BY <2>2 DEF Registrations
  <2>4. MetricsTypeOK'
    BY <1>1, <2>1, <2>3 DEF MetricsInv, MetricsTypeOK
  <2> QED BY <1>2, <2>1, <2>4, AggregatorStays DEF MetricsInv
<1>4. ASSUME NEW m \in Registrations, Registers(m) PROVE MetricsInv'
  <2>1. /\ aggregator /\ posts' \subseteq posts
        /\ registered' = [registered EXCEPT ![m.port] = m.server]
        /\ UNCHANGED <<timeouts, aggregator, checks, aggregators>>
    BY <1>4 DEF Registers
  <2>2. m.server \in Servers
    BY DEF Registrations
  <2>3. MetricsTypeOK'
    BY <1>1, <2>1, <2>2 DEF MetricsInv, MetricsTypeOK
  <2>4. AggregatorFits'
    BY <2>1 DEF AggregatorFits
  <2> QED BY <1>2, <2>3, <2>4 DEF MetricsInv
<1>5. ASSUME NEW m \in Registrations, RegistrationFails(m) PROVE MetricsInv'
  <2>1. /\ posts' \subseteq posts
        /\ UNCHANGED <<aggregator, registered, checks, aggregators>>
        /\ (timeouts' = timeouts \/ (timeouts < MaxTimeouts /\ timeouts' = timeouts + 1))
    BY <1>5 DEF RegistrationFails, aggregatorVars
  <2>2. timeouts' \in 0 .. MaxTimeouts
    BY <2>1, MetricsAssumption DEF MetricsInv, MetricsTypeOK
  <2>3. MetricsTypeOK'
    BY <1>1, <2>1, <2>2 DEF MetricsInv, MetricsTypeOK
  <2> QED BY <1>2, <2>1, <2>3, AggregatorStays DEF MetricsInv
<1> QED BY <1>3, <1>4, <1>5

\* The aggregator and its checks.
LEMMA AggregatorKeeps ==
  ASSUME MetricsInv,
         StartsAggregator \/ StopsAggregator \/ ChecksAll \/ \E p \in Ports : CheckStep(p)
  PROVE  MetricsInv'
<1>1. UNCHANGED <<stage, port, portFile, beats, starts, posts>>
  BY DEF StartsAggregator, StopsAggregator, ChecksAll, CheckStep, NodeAnswers, CheckFails,
     Evicts, serverVars
<1>2. PortsHeldOnce' /\ AnnouncedFits'
  BY <1>1, ServersStay DEF MetricsInv
<1>3. CASE StartsAggregator \/ StopsAggregator
  <2>1. registered' = NoNodes /\ checks' = NoChecks /\ timeouts' = timeouts
        /\ aggregator' \in BOOLEAN
    BY <1>3 DEF StartsAggregator, StopsAggregator
  <2>2. aggregators' \in 0 .. MaxAggregators
    BY <1>3, MetricsAssumption DEF StartsAggregator, StopsAggregator, MetricsInv, MetricsTypeOK
  <2>3. NoNodes \in [Ports -> Servers \union {NoServer}]
        /\ NoChecks \in [Ports -> {"none", "asked", "failed"}]
    BY DEF NoNodes, NoChecks
  <2>4. MetricsTypeOK'
    BY <1>1, <2>1, <2>2, <2>3 DEF MetricsInv, MetricsTypeOK
  <2>5. AggregatorFits'
    BY <2>1 DEF AggregatorFits, NoNodes, NoChecks
  <2> QED BY <1>2, <2>4, <2>5 DEF MetricsInv
<1>4. CASE ChecksAll
  <2>1. /\ aggregator /\ checks' \in [Ports -> {"none", "asked", "failed"}]
        /\ UNCHANGED <<timeouts, aggregator, registered, aggregators>>
    BY <1>4 DEF ChecksAll
  <2>2. MetricsTypeOK'
    BY <1>1, <2>1 DEF MetricsInv, MetricsTypeOK
  <2>3. AggregatorFits'
    BY <2>1 DEF AggregatorFits
  <2> QED BY <1>2, <2>2, <2>3 DEF MetricsInv
<1>5. ASSUME NEW p \in Ports, CheckStep(p) PROVE MetricsInv'
  <2>1. checks[p] # "none" /\ UNCHANGED <<aggregator, aggregators>>
    BY <1>5 DEF CheckStep, NodeAnswers, CheckFails, Evicts
  <2>2. aggregator
    BY <2>1 DEF MetricsInv, AggregatorFits, NoChecks
  <2>3. PICK heard \in {"none", "failed"} : checks' = [checks EXCEPT ![p] = heard]
    BY <1>5 DEF CheckStep, NodeAnswers, CheckFails, Evicts
  <2>4. registered' \in [Ports -> Servers \union {NoServer}]
    BY <1>5 DEF CheckStep, NodeAnswers, CheckFails, Evicts, MetricsInv, MetricsTypeOK
  <2>5. timeouts' = timeouts \/ (timeouts < MaxTimeouts /\ timeouts' = timeouts + 1)
    BY <1>5 DEF CheckStep, NodeAnswers, CheckFails, Evicts
  <2>6. timeouts' \in 0 .. MaxTimeouts
    BY <2>5, MetricsAssumption DEF MetricsInv, MetricsTypeOK
  <2>7. MetricsTypeOK'
    BY <1>1, <2>1, <2>3, <2>4, <2>6 DEF MetricsInv, MetricsTypeOK
  <2>8. AggregatorFits'
    BY <2>1, <2>2 DEF AggregatorFits
  <2> QED BY <1>2, <2>7, <2>8 DEF MetricsInv
<1> QED BY <1>3, <1>4, <1>5

LEMMA MetricsKept == MetricsInv /\ [MetricsNext]_metricsVars => MetricsInv'
<1> SUFFICES ASSUME MetricsInv, [MetricsNext]_metricsVars PROVE MetricsInv'
  OBVIOUS
<1>1. CASE UNCHANGED metricsVars
  <2>1. UNCHANGED <<stage, port, portFile, beats, aggregator, registered, checks>>
        /\ UNCHANGED <<posts, starts, aggregators, timeouts>>
    BY <1>1 DEF metricsVars
  <2>2. MetricsTypeOK'
    BY <2>1 DEF MetricsInv, MetricsTypeOK
  <2> QED BY <2>1, <2>2, ServersStay, AggregatorStays DEF MetricsInv
<1>2. CASE MetricsNext
  BY <1>2, StartsServerKeeps, AnnouncesKeeps, EndingKeeps, PostsKeep, AggregatorKeeps
     DEF MetricsNext, ServerStep
<1> QED BY <1>1, <1>2

\* No two servers serve metrics at one port, however they start, close and die;
\* the file of one that is up says its port (syncMetricsPortFile() in
\* src/server/metrics-port.ts), and it is the one that sends heartbeats for it;
\* an aggregator that is gone keeps no node and no check.
THEOREM MetricsSafe ==
  MetricsSpec => [](MetricsTypeOK /\ PortsHeldOnce /\ AnnouncedFits /\ AggregatorFits)
<1>1. MetricsInv => MetricsTypeOK /\ PortsHeldOnce /\ AnnouncedFits /\ AggregatorFits
  BY DEF MetricsInv
<1> QED BY <1>1, MetricsInitially, MetricsKept, PTL DEF MetricsSpec
=============================================================================
