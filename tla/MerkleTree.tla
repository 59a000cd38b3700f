------------------------------ MODULE MerkleTree ------------------------------
(***************************************************************************)
(* The Merkle tree of the project and the pipeline's use of it             *)
(* (src/indexer/merkle-tree.ts, handleDeleteEvent() and the end of         *)
(* processEventWindow() in src/indexer/pipeline.ts, the merkle_nodes of    *)
(* src/storage/metadata-store.ts).  A hash is taken for what it vouches    *)
(* for: the files, with their contents, that it was computed from.  The    *)
(* hash of a file is the one its event brings; the program's events bring  *)
(* none, so that there all contents are one.                               *)
(*                                                                         *)
(* Handlers of the drain loop and the one reindex use the tree side by     *)
(* side.  One step is the code between two awaits, but for the vectors of  *)
(* a file, which are written with its node.  A path may be a file now and  *)
(* a directory later, and its events may be handled late.  The cache, of   *)
(* 10000 nodes, is never full.                                             *)
(***************************************************************************)
EXTENDS Naturals, FiniteSets

CONSTANTS
  Paths,       \* paths relative to the project
  Top,         \* the parent of a path without directories
  ParentOf,    \* the directory of every path
  FilePaths,   \* paths that files are reported of
  Workers,     \* handlers and reindexes
  Contents,    \* hashes of contents
  Chunkless,   \* those of a file that is empty or skipped, and has no chunks
  Gone,        \* no content
  MaxOps,      \* bound: operations
  MaxDeaths    \* bound: times the process dies

ASSUME PathsAssumption ==
  /\ Top \notin Paths
  /\ ParentOf \in [Paths -> Paths \cup {Top}]
  /\ FilePaths \subseteq Paths
ASSUME ContentsAssumption == Chunkless \subseteq Contents /\ Gone \notin Contents
ASSUME TreeBoundsAssumption == MaxOps \in Nat /\ MaxDeaths \in Nat

\* The least set that holds, with a path, its parent.
Ancestors[p \in Paths] ==
  {q \in Paths : \A S \in SUBSET Paths :
                   (\A r \in S \cup {p} : ParentOf[r] \in S \cup {Top}) => q \in S}

ASSUME AncestorsAssumption == \A p \in Paths : p \notin Ancestors[p]

VARIABLES
  nodes,     \* merkle_nodes: for every path its kind and what its hash vouches for
  cachedAs,  \* for every path the kind of the cached node
  vectors,   \* files the vector store holds rows of
  rootHash,  \* what rootHash vouches for
  work,      \* what every worker is doing
  ops,       \* operations begun
  deaths,    \* times the process died
  latest,    \* history: for every file what the last operation on it was told
  unordered  \* history: paths where operations met, were cut short, or came late

treeVars == <<nodes, cachedAs, vectors, rootHash, work, ops, deaths, latest, unordered>>

NoNode == [kind |-> "none", vouches |-> {}]
FileNode(f, content) == [kind |-> "file", vouches |-> {<<f, content>>}]
DirectoryNode(vouches) == [kind |-> "directory", vouches |-> vouches]

Resting == [step |-> "none", path |-> Top, at |-> Top, found |-> {}]

ChildrenOf(p) == {q \in Paths : ParentOf[q] = p /\ nodes[q].kind # "none"}
Vouched(p) == UNION {nodes[q].vouches : q \in ChildrenOf(p)}

\* A path is below itself.
Below[p \in Paths] == {q \in Paths : q = p \/ p \in Ancestors[q]}

Busy == {w \in Workers : work[w].step # "none"}

\* What an operation on a path may read or write: its directories, and all that
\* is below it.
Concerned[p \in Paths] == Ancestors[p] \cup Below[p]

\* Where an operation on the file meets those under way.
Meeting(f) == UNION {Concerned[f] \cap Concerned[work[w].path] : w \in Busy}

IsBelowFile(f) == \E p \in Ancestors[f] : nodes[p].kind = "file"

\* An operation begins; one that comes late spoils all it is concerned with, as
\* does one on a file that is spoilt.
Begins(f, late) ==
  /\ ops < MaxOps /\ ops' = ops + 1
  /\ unordered' = unordered \cup Meeting(f)
                    \cup (IF late \/ f \in unordered THEN Concerned[f] ELSE {})

Frame == UNCHANGED <<ops, deaths, latest, unordered>>

-----------------------------------------------------------------------------
\* update(), after the vectors of the file: its node, in the store and in the
\* cache.  Late is the event of a file that has become a directory, or is below
\* what has become a file.
Update(w, f, content) ==
  /\ Begins(f, nodes[f].kind = "directory" \/ IsBelowFile(f))
  /\ work[w].step = "none"
  /\ nodes' = [nodes EXCEPT ![f] = FileNode(f, content)]
  /\ cachedAs' = [cachedAs EXCEPT ![f] = "file"]
  /\ vectors' = IF content \in Chunkless THEN vectors \ {f} ELSE vectors \cup {f}
  /\ work' = [work EXCEPT ![w] = [step |-> "bubble", path |-> f, at |-> ParentOf[f],
                                  found |-> {}]]
  /\ latest' = [latest EXCEPT ![f] = content]
  /\ UNCHANGED <<rootHash, deaths>>

\* bubbleUpHash() hashes a directory from the children that are stored: of one
\* it has hashed itself, the old hash.
BubbleReads(w) ==
  /\ work[w].step = "bubble"
  /\ work[w].at # Top
  /\ work' = [work EXCEPT ![w].found = @ \cup {<<work[w].at, Vouched(work[w].at)>>},
                          ![w].at = ParentOf[work[w].at]]
  /\ cachedAs' = [cachedAs EXCEPT ![work[w].at] = "directory"]
  /\ UNCHANGED <<nodes, vectors, rootHash>> /\ Frame

\* The new hashes of all directories are stored in one transaction.
BubbleWrites(w) ==
  /\ work[w].step = "bubble"
  /\ work[w].at = Top
  /\ nodes' = [p \in Paths |->
                 IF \E n \in work[w].found : n[1] = p
                 THEN DirectoryNode((CHOOSE n \in work[w].found : n[1] = p)[2])
                 ELSE nodes[p]]
  /\ work' = [work EXCEPT ![w].step = "root"]
  /\ UNCHANGED <<cachedAs, vectors, rootHash>> /\ Frame

\* computeRootHashFromStore()
RefreshesRoot(w) ==
  /\ work[w].step = "root"
  /\ rootHash' = Vouched(Top)
  /\ work' = [work EXCEPT ![w] = Resting]
  /\ UNCHANGED <<nodes, cachedAs, vectors>> /\ Frame

-----------------------------------------------------------------------------
\* handleDeleteEvent() looks at the node of the path, and deletes the rows of
\* the file or of everything below the directory.
HandleDelete(w, f) ==
  /\ Begins(f, IsBelowFile(f))
  /\ work[w].step = "none"
  /\ LET isDirectory == nodes[f].kind = "directory"
     IN  /\ vectors' = vectors \ (IF isDirectory THEN Below[f] \ {f} ELSE {f})
         /\ latest' = [q \in FilePaths |->
                         IF q = f \/ (isDirectory /\ q \in Below[f]) THEN Gone ELSE latest[q]]
         /\ work' = [work EXCEPT ![w] = [step |-> IF isDirectory THEN "subtree" ELSE "node",
                                         path |-> f, at |-> Top, found |-> {}]]
  /\ UNCHANGED <<nodes, cachedAs, rootHash, deaths>>

Without(p) == [q \in Paths |-> IF q \in p THEN NoNode ELSE nodes[q]]

\* deleteSubtree()
DeletesSubtree(w) ==
  /\ work[w].step = "subtree"
  /\ nodes' = Without(Below[work[w].path])
  /\ work' = [work EXCEPT ![w].step = "node"]
  /\ UNCHANGED <<cachedAs, vectors, rootHash>> /\ Frame

\* The kind getNode() finds: the cached one, if there is one.
KindOf(p) == IF cachedAs[p] # "none" THEN cachedAs[p] ELSE nodes[p].kind

\* remove(): the node, with what is below a directory, goes; of a directory
\* only what was still stored leaves the cache.
RemovesNode(w) ==
  /\ work[w].step = "node"
  /\ LET p == work[w].path
         stored == {q \in Below[p] : nodes[q].kind # "none"}
     IN  IF KindOf(p) = "directory"
         THEN /\ nodes' = Without(Below[p])
              /\ cachedAs' = [q \in Paths |-> IF q \in stored THEN "none" ELSE cachedAs[q]]
         ELSE /\ nodes' = Without({p})
              /\ cachedAs' = [cachedAs EXCEPT ![p] = "none"]
  /\ work' = [work EXCEPT ![w].step = "prune", ![w].at = ParentOf[work[w].path]]
  /\ UNCHANGED <<vectors, rootHash>> /\ Frame


Prunes(w) ==
  /\ work[w].step = "prune"
  /\ \/ /\ work[w].at = Top
        /\ work' = [work EXCEPT ![w].step = "root"]
     \/ /\ work[w].at # Top
        /\ work' = [work EXCEPT ![w].step = IF ChildrenOf(work[w].at) = {} THEN "empty"
                                            ELSE "bubble"]
  /\ UNCHANGED <<nodes, cachedAs, vectors, rootHash>> /\ Frame

DeletesEmpty(w) ==
  /\ work[w].step = "empty"
  /\ nodes' = Without({work[w].at})
  /\ cachedAs' = [cachedAs EXCEPT ![work[w].at] = "none"]
  /\ work' = [work EXCEPT ![w].step = "prune", ![w].at = ParentOf[work[w].at]]
  /\ UNCHANGED <<vectors, rootHash>> /\ Frame

\* The process dies and the next one loads the tree.
Reload ==
  /\ deaths < MaxDeaths /\ deaths' = deaths + 1
  /\ unordered' = unordered \cup UNION {Concerned[work[w].path] : w \in Busy}
  /\ cachedAs' = [p \in Paths |-> "none"]
  /\ rootHash' = Vouched(Top)
  /\ work' = [w \in Workers |-> Resting]
  /\ UNCHANGED <<nodes, vectors, ops, latest>>

-----------------------------------------------------------------------------
TreeInit ==
  /\ nodes = [p \in Paths |-> NoNode]
  /\ cachedAs = [p \in Paths |-> "none"]
  /\ vectors = {}
  /\ rootHash = {}
  /\ work = [w \in Workers |-> Resting]
  /\ ops = 0 /\ deaths = 0
  /\ latest = [f \in FilePaths |-> Gone]
  /\ unordered = {}

TreeStep(w) ==
  \/ BubbleReads(w) \/ BubbleWrites(w) \/ RefreshesRoot(w)
  \/ DeletesSubtree(w) \/ RemovesNode(w) \/ Prunes(w) \/ DeletesEmpty(w)

TreeNext ==
  \/ \E w \in Workers, f \in FilePaths : \/ \E c \in Contents : Update(w, f, c)
                                         \/ HandleDelete(w, f)
  \/ \E w \in Workers : TreeStep(w)
  \/ Reload

TreeSpec == TreeInit /\ [][TreeNext]_treeVars

-----------------------------------------------------------------------------
TreeTypeOK ==
  /\ \A p \in Paths : nodes[p].kind \in {"none", "file", "directory"}
  /\ cachedAs \in [Paths -> {"none", "file", "directory"}]
  /\ vectors \subseteq FilePaths
  /\ latest \in [FilePaths -> Contents \cup {Gone}]
  /\ unordered \subseteq Paths

Files == {p \in Paths : nodes[p].kind = "file"}
FilesIn(p) == {f \in Files : ParentOf[f] = p}

\* A file has its node, with its hash, and its vectors if it has chunks; one that
\* is gone has neither.
FileMatches(f) ==
  /\ nodes[f].kind = "file" <=> latest[f] # Gone
  /\ nodes[f].kind = "file" => nodes[f].vouches = {<<f, latest[f]>>}
  /\ f \in vectors <=> latest[f] \in Contents \ Chunkless

\* There is a node for every directory above a file, and for no other; it
\* vouches for the files in it as they are.
DirectoryMatches(p) ==
  /\ nodes[p].kind = "directory" <=> \E f \in Files : p \in Ancestors[f]
  /\ nodes[p].kind = "directory" =>
       {e \in nodes[p].vouches : ParentOf[e[1]] = p} = UNION {nodes[f].vouches : f \in FilesIn(p)}

\* Paths no operation under way is concerned with, and none has spoilt.
Settled == {p \in Paths \ unordered : \A w \in Busy : p \notin Concerned[work[w].path]}

=============================================================================
