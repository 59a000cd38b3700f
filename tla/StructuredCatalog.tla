--------------------------- MODULE StructuredCatalog ---------------------------
(***************************************************************************)
(* The structured catalog in SQLite (src/storage/metadata-store.ts): which *)
(* generation of every file is active and which one is pending, the rows   *)
(* that hold their declarations, and the tombstones of symbols that are    *)
(* gone.  Every method is one immediate transaction.                       *)
(*                                                                         *)
(* A generation is the hash of a file's content, so the declarations of a  *)
(* file follow from it.  A symbol's id contains the path of its file.      *)
(***************************************************************************)
EXTENDS Naturals, FiniteSets

CONSTANTS
  Files,        \* paths of files with a structured parser
  Generations,  \* hashes of contents
  Names,        \* what distinguishes the symbols of one file
  Declares,     \* the names that a content declares
  None,         \* no generation
  MaxEpoch      \* bound: full rebuilds

ASSUME DeclaresAssumption == Declares \in [Generations -> SUBSET Names]
ASSUME NoneAssumption == None \notin Generations
ASSUME EpochAssumption == MaxEpoch \in Nat

VARIABLES
  active,      \* structured_files.active_generation
  pending,     \* structured_files.pending_generation
  payload,     \* generations with rows in symbol_generations, symbols and imports
  tombstones,  \* symbol_tombstones
  epoch,       \* index_stats.structured_rebuild_epoch
  known        \* history: symbols that have been active

catalogVars == <<active, pending, payload, tombstones, epoch, known>>

-----------------------------------------------------------------------------
MaybeGeneration == Generations \cup {None}

\* The rows that a generation of a file has in the table symbols.
SymbolRows(f, g) == IF <<f, g>> \in payload THEN {f} \X Declares[g] ELSE {}

ActiveSymbols == UNION {SymbolRows(f, active[f]) : f \in Files}

\* pruneUnreferencedStructuredData(): of one file only the rows of its active
\* and of its pending generation are left.
Pruned(rows, f, a, p) == {r \in rows : r[1] = f => r[2] \in {a, p}}

\* Every call of a compare-and-swap names what it expects.
Expects(f, x, e) == active[f] = x /\ epoch = e

\* The rows of the generation that it takes the place of stay.
MutantStageGeneration(f, g, e) ==
  /\ pending' = [pending EXCEPT ![f] = g]
  /\ payload' = payload \cup {<<f, g>>}
  /\ epoch' = e
  /\ UNCHANGED <<active, tombstones, known>>

\* stageGeneration(), which also writes the caller's epoch.
StageGeneration(f, g, e) ==
  /\ pending' = [pending EXCEPT ![f] = g]
  /\ payload' = Pruned(payload \cup {<<f, g>>}, f, active[f], g)
  /\ epoch' = e
  /\ UNCHANGED <<active, tombstones, known>>

\* A generation that comes back is not given its symbols back.
MutantBuried(f, g) == tombstones \cup (SymbolRows(f, active[f]) \ SymbolRows(f, g))

\* Tombstones once g is active: symbols that are gone have one, those that are
\* there, be it again, have none.
Buried(f, g) == (tombstones \cup SymbolRows(f, active[f])) \ SymbolRows(f, g)

MayActivate(f, g, x, e) == Expects(f, x, e) /\ pending[f] = g

\* activateGeneration(); otherwise it refuses.
ActivateGeneration(f, g, x, e) ==
  /\ MayActivate(f, g, x, e)
  /\ active' = [active EXCEPT ![f] = g]
  /\ pending' = [pending EXCEPT ![f] = None]
  /\ payload' = Pruned(payload, f, g, None)
  /\ tombstones' = Buried(f, g)
  /\ known' = known \cup SymbolRows(f, g)
  /\ UNCHANGED epoch

\* clearPendingGeneration() of each of some files
ClearPending(fs) ==
  /\ pending' = [f \in Files |-> IF f \in fs THEN None ELSE pending[f]]
  /\ payload' = {r \in payload : r[1] \in fs => r[2] = active[r[1]]}
  /\ UNCHANGED <<active, tombstones, epoch, known>>

\* retireFile() of each of some files
RetireFiles(fs) ==
  /\ active' = [f \in Files |-> IF f \in fs THEN None ELSE active[f]]
  /\ pending' = [f \in Files |-> IF f \in fs THEN None ELSE pending[f]]
  /\ payload' = {r \in payload : r[1] \notin fs}
  /\ tombstones' = tombstones \cup UNION {SymbolRows(f, active[f]) : f \in fs}
  /\ UNCHANGED <<epoch, known>>

\* retireFile(); otherwise it does nothing.
RetireFile(f, x, e) == Expects(f, x, e) /\ RetireFiles({f})

\* incrementRebuildEpoch()
IncrementEpoch ==
  /\ epoch < MaxEpoch
  /\ epoch' = epoch + 1

-----------------------------------------------------------------------------
CatalogInit ==
  /\ active = [f \in Files |-> None]
  /\ pending = [f \in Files |-> None]
  /\ payload = {}
  /\ tombstones = {}
  /\ epoch = 0
  /\ known = {}

\* Any caller with any expectation, however old.
Stage == \E f \in Files, g \in Generations, e \in 0 .. MaxEpoch : StageGeneration(f, g, e)

Activate ==
  \E f \in Files, g \in Generations, x \in MaybeGeneration, e \in 0 .. MaxEpoch :
    ActivateGeneration(f, g, x, e)

\* A rebuild that fails calls a method for several files in a row.
Clear ==
  \E fs \in SUBSET Files :
    /\ \A f \in fs : \E x \in MaybeGeneration, p \in Generations, e \in 0 .. MaxEpoch :
         Expects(f, x, e) /\ pending[f] = p
    /\ ClearPending(fs)

Retire ==
  \E fs \in SUBSET Files :
    /\ \A f \in fs : \E x \in MaybeGeneration, e \in 0 .. MaxEpoch : Expects(f, x, e)
    /\ RetireFiles(fs)

Rebuild == IncrementEpoch /\ UNCHANGED <<active, pending, payload, tombstones, known>>

CatalogNext == Stage \/ Activate \/ Clear \/ Retire \/ Rebuild

CatalogSpec == CatalogInit /\ [][CatalogNext]_catalogVars

-----------------------------------------------------------------------------
CatalogTypeOK ==
  /\ active \in [Files -> MaybeGeneration]
  /\ pending \in [Files -> MaybeGeneration]
  /\ payload \subseteq Files \X Generations
  /\ tombstones \subseteq Files \X Names
  /\ epoch \in 0 .. MaxEpoch
  /\ known \subseteq Files \X Names

Referenced == {r \in Files \X Generations : r[2] \in {active[r[1]], pending[r[1]]}}

\* The rows are exactly those of active and of pending generations: no prune of
\* a stage, an activation or a retirement takes rows that a reader can reach,
\* nor leaves some behind.
PayloadExact == payload = Referenced

\* A symbol that has been active is either active or retired, never both: the
\* identity of a declaration that is gone is reported as retired, not as
\* unknown, and one that is back is found.
RetiredExact == tombstones = known \ ActiveSymbols
=============================================================================
