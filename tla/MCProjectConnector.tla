--------------------------- MODULE MCProjectConnector ---------------------------
(***************************************************************************)
(* Connectors with their servers, and the Merkle tree, which they never    *)
(* meet, in one run: the first state says which of them works, and the     *)
(* other stays as it is.                                                   *)
(***************************************************************************)
EXTENDS ProjectConnector, MerkleTree, TLC

CONSTANTS d, e, f, g, k, w1, w2

VARIABLE part  \* the part that works

partVars == <<part, connectorVars, treeVars>>

Connecting == part = "connectors" /\ UNCHANGED <<part, treeVars>>
Hashes == part = "tree" /\ UNCHANGED <<part, connectorVars>>

PartsInit ==
  /\ part \in {"connectors", "tree"}
  /\ ConnectorInit
  /\ part # "connectors" => pidFile = None /\ descriptor = None
  /\ TreeInit

PartsNext ==
  \/ \E c \in Connectors :
       \/ Connecting /\ ConnectorSteps(c)
       \/ Connecting /\ SpawnFails(c)
       \/ Connecting /\ Deadline(c)
       \/ Connecting /\ OpensSession(c)
       \/ Connecting /\ EndsSession(c)
       \/ Connecting /\ ConnectorKilled(c)
       \/ \E p \in Servers : Connecting /\ SessionExpires(p, c)
  \/ \E p \in Servers : \/ Connecting /\ ProcessWorks(p)
                        \/ Connecting /\ ProcessIdles(p)
                        \/ Connecting /\ ProcessBefallen(p)
  \/ Connecting /\ UserStarts
  \/ Connecting /\ LocksExpire
  \/ \E w \in Workers, p \in FilePaths :
        \/ \E content \in Contents : Hashes /\ Update(w, p, content)
        \/ Hashes /\ HandleDelete(w, p)
  \/ \E w \in Workers : \/ Hashes /\ BubbleReads(w)
                        \/ Hashes /\ BubbleWrites(w)
                        \/ Hashes /\ RefreshesRoot(w)
                        \/ Hashes /\ DeletesSubtree(w)
                        \/ Hashes /\ RemovesNode(w)
                        \/ Hashes /\ Prunes(w)
                        \/ Hashes /\ DeletesEmpty(w)
  \/ Hashes /\ Reload

PartsSpec == PartsInit /\ [][PartsNext]_partVars

ConnectorSymmetry == Permutations(Clients) \cup Permutations(Servers \ {Old})

\* d/e/f, d/g and k; d may be a file, too.
Tree == [p \in {d, e, f, g, k} |-> CASE p = f -> e [] p = e -> d [] p = g -> d [] OTHER -> Top]
=============================================================================
