------------------------ MODULE StructuredCatalog_proofs ------------------------
(***************************************************************************)
(* Proofs about StructuredCatalog, for every set of files, generations and *)
(* names, every assignment of names to generations and every bound on the  *)
(* epoch.                                                                  *)
(***************************************************************************)
EXTENDS StructuredCatalog, TLAPS

USE DeclaresAssumption, NoneAssumption, EpochAssumption

\* A symbol is live when the active generation of its file declares it.
Live == {r \in Files \X Names : active[r[1]] \in Generations /\ r[2] \in Declares[active[r[1]]]}

\* The invariant: the rows of active and pending generations are there, so that
\* the live symbols are those with rows, each of them has been active, and what
\* has been active and is not live has a tombstone.
CatalogInv ==
  /\ CatalogTypeOK
  /\ PayloadExact
  /\ RetiredExact
  /\ Live \subseteq known

-----------------------------------------------------------------------------
\* What a reader finds in the tables under the active generations are the
\* declarations of those generations.
LEMMA RowsAreDeclarations ==
  ASSUME CatalogTypeOK, PayloadExact, NEW f \in Files,
         NEW g \in {active[f], pending[f]}
  PROVE  SymbolRows(f, g) = IF g \in Generations THEN {f} \X Declares[g] ELSE {}
BY DEF CatalogTypeOK, PayloadExact, Referenced, SymbolRows, MaybeGeneration

LEMMA ActiveIsLive ==
  ASSUME CatalogTypeOK, PayloadExact
  PROVE  ActiveSymbols = Live
<1>1. ASSUME NEW f \in Files
      PROVE  SymbolRows(f, active[f])
               = IF active[f] \in Generations THEN {f} \X Declares[active[f]] ELSE {}
  BY RowsAreDeclarations
<1>2. ASSUME NEW r \in ActiveSymbols PROVE r \in Live
  <2>1. PICK f \in Files : r \in SymbolRows(f, active[f])
    BY DEF ActiveSymbols
  <2>2. active[f] \in Generations /\ r \in {f} \X Declares[active[f]]
    BY <1>1, <2>1
  <2>3. Declares[active[f]] \subseteq Names
    BY <2>2
  <2> QED  BY <2>2, <2>3 DEF Live
<1>3. ASSUME NEW r \in Live PROVE r \in ActiveSymbols
  <2>1. r[1] \in Files /\ active[r[1]] \in Generations /\ r \in {r[1]} \X Declares[active[r[1]]]
    BY DEF Live
  <2>2. r \in SymbolRows(r[1], active[r[1]])
    BY <1>1, <2>1
  <2> QED  BY <2>1, <2>2 DEF ActiveSymbols
<1> QED  BY <1>2, <1>3

-----------------------------------------------------------------------------
\* The rows after each of the operations.
LEMMA StagePrunes ==
  ASSUME CatalogTypeOK, PayloadExact, NEW f \in Files, NEW g \in Generations,
         NEW e \in 0 .. MaxEpoch, StageGeneration(f, g, e)
  PROVE  CatalogTypeOK' /\ PayloadExact'
<1>1. CatalogTypeOK'
  BY DEF CatalogTypeOK, StageGeneration, Pruned, MaybeGeneration
<1>2. PayloadExact'
  BY DEF CatalogTypeOK, PayloadExact, Referenced, StageGeneration, Pruned, MaybeGeneration
<1> QED  BY <1>1, <1>2

LEMMA RowsDeclared ==
  ASSUME CatalogTypeOK, NEW f \in Files, NEW g \in MaybeGeneration
  PROVE  SymbolRows(f, g) \subseteq Files \X Names
BY DEF CatalogTypeOK, SymbolRows, MaybeGeneration

LEMMA ActivationPrunes ==
  ASSUME CatalogTypeOK, PayloadExact, NEW f \in Files, NEW g \in Generations,
         NEW x \in MaybeGeneration, NEW e \in 0 .. MaxEpoch, ActivateGeneration(f, g, x, e)
  PROVE  CatalogTypeOK' /\ PayloadExact'
<1>1. SymbolRows(f, g) \subseteq Files \X Names
  BY RowsDeclared DEF MaybeGeneration
<1>2. active[f] \in MaybeGeneration
  BY DEF CatalogTypeOK
<1>3. SymbolRows(f, active[f]) \subseteq Files \X Names
  BY <1>2, RowsDeclared
<1>4. tombstones' \subseteq Files \X Names /\ known' \subseteq Files \X Names
  BY <1>1, <1>3 DEF CatalogTypeOK, ActivateGeneration, Buried
<1>5. CatalogTypeOK'
  BY <1>4 DEF CatalogTypeOK, ActivateGeneration, Pruned, MaybeGeneration
<1>6. PayloadExact'
  BY DEF CatalogTypeOK, PayloadExact, Referenced, ActivateGeneration, MayActivate, Pruned,
         MaybeGeneration
<1> QED  BY <1>5, <1>6

LEMMA ClearingPrunes ==
  ASSUME CatalogTypeOK, PayloadExact, NEW fs \in SUBSET Files, ClearPending(fs)
  PROVE  CatalogTypeOK' /\ PayloadExact'
BY DEF CatalogTypeOK, PayloadExact, Referenced, ClearPending, MaybeGeneration

LEMMA RetirementPrunes ==
  ASSUME CatalogTypeOK, PayloadExact, NEW fs \in SUBSET Files, RetireFiles(fs)
  PROVE  CatalogTypeOK' /\ PayloadExact'
<1>1. ASSUME NEW f \in Files PROVE SymbolRows(f, active[f]) \subseteq Files \X Names
  BY RowsDeclared DEF CatalogTypeOK
<1>2. tombstones' \subseteq Files \X Names
  BY <1>1 DEF CatalogTypeOK, RetireFiles
<1>3. CatalogTypeOK'
  BY <1>2 DEF CatalogTypeOK, RetireFiles, MaybeGeneration
<1>4. PayloadExact'
  BY DEF CatalogTypeOK, PayloadExact, Referenced, RetireFiles, MaybeGeneration
<1> QED  BY <1>3, <1>4

-----------------------------------------------------------------------------
\* An activation buries what the new generation does not declare.
LEMMA ActivationBuries ==
  ASSUME CatalogInv, NEW f \in Files, NEW g \in Generations,
         NEW x \in MaybeGeneration, NEW e \in 0 .. MaxEpoch, ActivateGeneration(f, g, x, e)
  PROVE  tombstones' = known' \ Live' /\ Live' \subseteq known'
<1> DEFINE Old == IF active[f] \in Generations THEN {f} \X Declares[active[f]] ELSE {}
<1> DEFINE New == {f} \X Declares[g]
<1>1. CatalogTypeOK /\ PayloadExact
  BY DEF CatalogInv
<1>2. g = pending[f]
  BY DEF ActivateGeneration, MayActivate
<1>3. SymbolRows(f, active[f]) = Old
  BY <1>1, RowsAreDeclarations
<1>4. SymbolRows(f, g) = New
  BY <1>1, <1>2, RowsAreDeclarations
<1>5. tombstones' = (tombstones \cup Old) \ New /\ known' = known \cup New
  BY <1>3, <1>4 DEF ActivateGeneration, Buried
<1>6. tombstones = known \ Live /\ Live \subseteq known
  BY <1>1, ActiveIsLive DEF CatalogInv, RetiredExact
<1>7. active' = [active EXCEPT ![f] = g] /\ active \in [Files -> MaybeGeneration]
  BY <1>1 DEF ActivateGeneration, CatalogTypeOK
<1>8. Old \subseteq Live /\ \A r \in Live : r[1] = f => r \in Old
  BY <1>7 DEF Live
<1>9. New \subseteq Live' /\ \A r \in Live' : r[1] = f => r \in New
  BY <1>7 DEF Live
<1>10. \A r : r \notin Old \cup New => (r \in Live' <=> r \in Live)
  BY <1>7, <1>8, <1>9 DEF Live
<1>11. \A r : r \in Live' <=> r \in New \/ (r \in Live /\ r \notin Old)
  BY <1>7, <1>8, <1>9, <1>10 DEF Live
<1> HIDE DEF Old, New
<1> QED  BY <1>5, <1>6, <1>8, <1>11

\* A retirement buries all that its files declared.
LEMMA RetirementBuries ==
  ASSUME CatalogInv, NEW fs \in SUBSET Files, RetireFiles(fs)
  PROVE  tombstones' = known' \ Live' /\ Live' \subseteq known'
<1> DEFINE Gone == UNION {SymbolRows(f, active[f]) : f \in fs}
<1>1. CatalogTypeOK /\ PayloadExact
  BY DEF CatalogInv
<1>2. tombstones = known \ Live /\ Live \subseteq known
  BY <1>1, ActiveIsLive DEF CatalogInv, RetiredExact
<1>3. ASSUME NEW f \in Files
      PROVE  SymbolRows(f, active[f])
               = IF active[f] \in Generations THEN {f} \X Declares[active[f]] ELSE {}
  BY <1>1, RowsAreDeclarations
<1>4. ASSUME NEW r \in Gone PROVE r \in Live /\ r[1] \in fs
  <2>1. PICK f \in fs : r \in SymbolRows(f, active[f])
    OBVIOUS
  <2>2. active[f] \in Generations /\ r \in {f} \X Declares[active[f]]
    BY <1>3, <2>1
  <2> QED  BY <2>2 DEF Live
<1>5. ASSUME NEW r \in Live, r[1] \in fs PROVE r \in Gone
  <2>1. active[r[1]] \in Generations /\ r \in {r[1]} \X Declares[active[r[1]]]
    BY DEF Live
  <2>2. r \in SymbolRows(r[1], active[r[1]])
    BY <1>3, <1>5, <2>1
  <2> QED  BY <1>5, <2>2
<1>6. Live' = {r \in Live : r[1] \notin fs}
  BY <1>1 DEF Live, RetireFiles, CatalogTypeOK
<1>7. Live' = Live \ Gone /\ Gone \subseteq Live
  BY <1>4, <1>5, <1>6
<1>8. tombstones' = tombstones \cup Gone /\ known' = known
  BY DEF RetireFiles
<1> HIDE DEF Gone
<1> QED  BY <1>2, <1>7, <1>8

\* The other operations change neither what is live nor the tombstones.
LEMMA OthersBuryNothing ==
  ASSUME CatalogInv, UNCHANGED <<active, tombstones, known>>
  PROVE  tombstones' = known' \ Live' /\ Live' \subseteq known'
<1>1. tombstones = known \ Live /\ Live \subseteq known
  BY ActiveIsLive DEF CatalogInv, RetiredExact
<1>2. Live' = Live
  BY DEF Live
<1> QED  BY <1>1, <1>2

-----------------------------------------------------------------------------
LEMMA CatalogInvInit == CatalogInit => CatalogInv
<1> SUFFICES ASSUME CatalogInit PROVE CatalogInv
  OBVIOUS
<1>1. CatalogTypeOK
  BY DEF CatalogInit, CatalogTypeOK, MaybeGeneration
<1>2. PayloadExact
  BY DEF CatalogInit, PayloadExact, Referenced
<1>3. Live = {}
  BY DEF CatalogInit, Live
<1>4. RetiredExact
  BY <1>1, <1>2, <1>3, ActiveIsLive DEF CatalogInit, RetiredExact
<1> QED  BY <1>1, <1>2, <1>3, <1>4 DEF CatalogInv

LEMMA CatalogInvStep == CatalogInv /\ [CatalogNext]_catalogVars => CatalogInv'
<1> SUFFICES ASSUME CatalogInv, [CatalogNext]_catalogVars PROVE CatalogInv'
  OBVIOUS
<1>1. CatalogTypeOK /\ PayloadExact
  BY DEF CatalogInv
<1>2. SUFFICES /\ CatalogTypeOK' /\ PayloadExact'
               /\ tombstones' = known' \ Live' /\ Live' \subseteq known'
  <2>1. ASSUME CatalogTypeOK', PayloadExact' PROVE (ActiveSymbols = Live)'
    BY <2>1, ActiveIsLive, PTL
  <2> QED  BY <2>1 DEF CatalogInv, RetiredExact
<1>3. CASE Stage
  <2>1. PICK f \in Files, g \in Generations, e \in 0 .. MaxEpoch : StageGeneration(f, g, e)
    BY <1>3 DEF Stage
  <2>2. UNCHANGED <<active, tombstones, known>>
    BY <2>1 DEF StageGeneration
  <2> QED  BY <1>1, <2>1, <2>2, StagePrunes, OthersBuryNothing
<1>4. CASE Activate
  <2>1. PICK f \in Files, g \in Generations, x \in MaybeGeneration, e \in 0 .. MaxEpoch :
          ActivateGeneration(f, g, x, e)
    BY <1>4 DEF Activate
  <2> QED  BY <1>1, <2>1, ActivationPrunes, ActivationBuries
<1>5. CASE Clear
  <2>1. PICK fs \in SUBSET Files : ClearPending(fs)
    BY <1>5 DEF Clear
  <2>2. UNCHANGED <<active, tombstones, known>>
    BY <2>1 DEF ClearPending
  <2> QED  BY <1>1, <2>1, <2>2, ClearingPrunes, OthersBuryNothing
<1>6. CASE Retire
  <2>1. PICK fs \in SUBSET Files : RetireFiles(fs)
    BY <1>6 DEF Retire
  <2> QED  BY <1>1, <2>1, RetirementPrunes, RetirementBuries
<1>7. CASE Rebuild
  <2>1. CatalogTypeOK' /\ PayloadExact'
    BY <1>1, <1>7 DEF Rebuild, IncrementEpoch, CatalogTypeOK, PayloadExact, Referenced
  <2>2. UNCHANGED <<active, tombstones, known>>
    BY <1>7 DEF Rebuild
  <2> QED  BY <2>1, <2>2, OthersBuryNothing
<1>8. CASE UNCHANGED catalogVars
  <2>1. CatalogTypeOK' /\ PayloadExact'
    BY <1>1, <1>8 DEF catalogVars, CatalogTypeOK, PayloadExact, Referenced
  <2>2. UNCHANGED <<active, tombstones, known>>
    BY <1>8 DEF catalogVars
  <2> QED  BY <2>1, <2>2, OthersBuryNothing
<1> QED  BY <1>3, <1>4, <1>5, <1>6, <1>7, <1>8 DEF CatalogNext

LEMMA CatalogInvHolds == CatalogSpec => []CatalogInv
BY CatalogInvInit, CatalogInvStep, PTL DEF CatalogSpec

-----------------------------------------------------------------------------
\* The variables of the catalog keep their types.
THEOREM CatalogTyped == CatalogSpec => []CatalogTypeOK
<1>1. CatalogInv => CatalogTypeOK
  BY DEF CatalogInv
<1> QED  BY <1>1, CatalogInvHolds, PTL

\* Whatever stale calls are made, the tables hold the rows of active and pending
\* generations and no others (the prunes of metadata-store.ts).
THEOREM PayloadStaysExact == CatalogSpec => []PayloadExact
<1>1. CatalogInv => PayloadExact
  BY DEF CatalogInv
<1> QED  BY <1>1, CatalogInvHolds, PTL

\* Every symbol that has been active is active or has a tombstone, never both.
THEOREM TombstonesExact == CatalogSpec => []RetiredExact
<1>1. CatalogInv => RetiredExact
  BY DEF CatalogInv
<1> QED  BY <1>1, CatalogInvHolds, PTL
=============================================================================
