------------------------- MODULE StructuredIndex_proofs -------------------------
(***************************************************************************)
(* Proofs about StructuredIndex: whatever handlers, rebuilds, failures and *)
(* crashes do, they use the catalog as StructuredCatalog says, so that its *)
(* invariant holds of the program that uses it; and catalog, vectors and   *)
(* disk agree on every file that was not disturbed.                        *)
(***************************************************************************)
EXTENDS StructuredIndex, StructuredCatalog_proofs, FiniteSetTheorems

USE NoneAssumption, EpochAssumption, StructuredBoundsAssumption

\* A handler at work on a file knows which, and which generation it brings.
JobsFormed ==
  \A h \in Handlers :
    /\ job[h].step # "idle" => job[h].file \in Files
    /\ job[h].step \in {"stage", "add", "activate", "show"} => job[h].gen \in Generations

IndexInv == CatalogInv /\ TypeOK /\ JobsFormed

-----------------------------------------------------------------------------
\* Calls of the coordinator, which expects what is active now, as steps of the
\* catalog.
LEMMA StageIsCall ==
  ASSUME CatalogInv, NEW f \in Files, NEW g \in Generations, StageGeneration(f, g, epoch)
  PROVE  CatalogNext
BY DEF CatalogInv, CatalogTypeOK, CatalogNext, Stage

LEMMA ActivationIsCall ==
  ASSUME CatalogInv, NEW f \in Files, NEW g \in Generations, NEW x \in MaybeGeneration,
         ActivateGeneration(f, g, x, epoch)
  PROVE  CatalogNext
BY DEF CatalogInv, CatalogTypeOK, CatalogNext, Activate

\* Files of which nothing is pending are not asked for.
LEMMA ClearingIsCall ==
  ASSUME CatalogInv, NEW fs \in SUBSET Files, ClearPending(fs)
  PROVE  CatalogNext
<1> DEFINE asked == {f \in fs : pending[f] \in Generations}
<1>1. CatalogTypeOK /\ PayloadExact
  BY DEF CatalogInv
<1>2. asked \in SUBSET Files
  OBVIOUS
<1>3. \A f \in asked : \E x \in MaybeGeneration, p \in Generations, e \in 0 .. MaxEpoch :
        Expects(f, x, e) /\ pending[f] = p
  BY <1>1 DEF CatalogTypeOK, Expects
<1>4. \A f \in fs \ asked : pending[f] = None
  BY <1>1 DEF CatalogTypeOK, MaybeGeneration
<1>5. pending' = [f \in Files |-> IF f \in asked THEN None ELSE pending[f]]
  <2>1. \A f \in Files : (IF f \in fs THEN None ELSE pending[f])
                       = (IF f \in asked THEN None ELSE pending[f])
    BY <1>4
  <2> QED  BY <2>1 DEF ClearPending
<1>6. payload' = {r \in payload : r[1] \in asked => r[2] = active[r[1]]}
  <2>1. ASSUME NEW r \in payload, r[1] \in fs, r[1] \notin asked
        PROVE  r[2] = active[r[1]]
    <3>1. r[2] \in Generations /\ r[2] \in {active[r[1]], pending[r[1]]}
      BY <1>1 DEF PayloadExact, Referenced
    <3>2. pending[r[1]] = None
      BY <1>4, <2>1
    <3>3. r[2] # None
      BY <3>1
    <3> QED  BY <3>1, <3>2, <3>3
  <2>2. payload' = {r \in payload : r[1] \in fs => r[2] = active[r[1]]}
    BY DEF ClearPending
  <2>3. \A r \in payload : (r[1] \in fs => r[2] = active[r[1]]) <=> (r[1] \in asked => r[2] = active[r[1]])
    BY <2>1
  <2> HIDE DEF asked
  <2> QED  BY <2>2, <2>3
<1>7. ClearPending(asked)
  BY <1>5, <1>6 DEF ClearPending
<1> HIDE DEF asked
<1> QED  BY <1>2, <1>3, <1>7 DEF CatalogNext, Clear

LEMMA RetirementIsCall ==
  ASSUME CatalogInv, NEW fs \in SUBSET Files, RetireFiles(fs)
  PROVE  CatalogNext
<1>1. \A f \in fs : \E x \in MaybeGeneration, e \in 0 .. MaxEpoch : Expects(f, x, e)
  BY DEF CatalogInv, CatalogTypeOK, Expects
<1> QED  BY <1>1 DEF CatalogNext, Retire

-----------------------------------------------------------------------------
LEMMA HandlersCallCatalog ==
  ASSUME IndexInv, HandlersStep
  PROVE  [CatalogNext]_catalogVars
<1>1. CatalogInv /\ TypeOK /\ JobsFormed
  BY DEF IndexInv
<1>2. PICK h \in Handlers :
        Stages(h) \/ AddsRows(h) \/ Activates(h) \/ Shows(h) \/ Drops(h) \/ Retires(h)
  BY DEF HandlersStep
<1>3. CASE Stages(h)
  <2>1. job[h].file \in Files /\ job[h].gen \in Generations
    BY <1>1, <1>3 DEF JobsFormed, Stages, MayEnter
  <2>2. StageGeneration(job[h].file, job[h].gen, epoch)
    BY <1>3 DEF Stages
  <2> QED  BY <1>1, <2>1, <2>2, StageIsCall
<1>4. CASE Activates(h)
  <2>1. job[h].gen \in Generations
    BY <1>1, <1>4 DEF JobsFormed, Activates, MayEnter
  <2>2. \A f \in Files : active[f] \in MaybeGeneration
    BY <1>1 DEF CatalogInv, CatalogTypeOK
  <2>3. PICK f \in Files : \/ ActivateGeneration(f, job[h].gen, active[f], epoch)
                           \/ UNCHANGED catalogVars
    BY <1>4 DEF Activates
  <2> QED  BY <1>1, <2>1, <2>2, <2>3, ActivationIsCall
<1>5. CASE Retires(h)
  <2>1. {job[h].file} \in SUBSET Files
    BY <1>1, <1>5 DEF JobsFormed, Retires, MayEnter
  <2>2. RetireFiles({job[h].file})
    BY <1>5 DEF Retires, RetireFile
  <2> QED  BY <1>1, <2>1, <2>2, RetirementIsCall
<1>6. CASE AddsRows(h) \/ Shows(h) \/ Drops(h)
  BY <1>6 DEF AddsRows, Shows, Drops
<1> QED  BY <1>2, <1>3, <1>4, <1>5, <1>6

LEMMA RebuildCallsCatalog ==
  ASSUME IndexInv, RebuildSteps
  PROVE  [CatalogNext]_catalogVars
<1>1. CatalogInv /\ TypeOK
  BY DEF IndexInv
<1>2. rebuild.todo \subseteq Files \X Generations /\ rebuild.before \in [Files -> MaybeGeneration]
  BY <1>1 DEF TypeOK, Rebuilds
<1>3. CASE RebuildBegins
  BY <1>3 DEF RebuildBegins, CatalogNext, Rebuild
<1>4. CASE RebuildStages
  <2>1. PICK r \in rebuild.todo : StageGeneration(r[1], r[2], epoch)
    BY <1>4 DEF RebuildStages
  <2> QED  BY <1>1, <1>2, <2>1, StageIsCall
<1>5. CASE RebuildActivates
  <2>1. PICK r \in rebuild.todo : ActivateGeneration(r[1], r[2], rebuild.before[r[1]], epoch)
    BY <1>5 DEF RebuildActivates
  <2> QED  BY <1>1, <1>2, <2>1, ActivationIsCall
<1>6. CASE RebuildRetires
  <2>1. PICK f \in Files : RetireFiles({f})
    BY <1>6 DEF RebuildRetires, Outdated, RetireFile
  <2> QED  BY <1>1, <2>1, RetirementIsCall
<1>7. CASE RebuildSwaps \/ RebuildCopies \/ RebuildEnds
  BY <1>7 DEF RebuildSwaps, RebuildCopies, RebuildEnds
<1> QED  BY <1>3, <1>4, <1>5, <1>6, <1>7 DEF RebuildSteps

LEMMA FailuresCallCatalog ==
  ASSUME IndexInv, HandlersFail \/ RebuildFails
  PROVE  [CatalogNext]_catalogVars
<1>1. CatalogInv /\ TypeOK /\ JobsFormed
  BY DEF IndexInv
<1>2. /\ rebuild.todo \subseteq Files \X Generations
      /\ rebuild.staged \subseteq Files \X Generations
      /\ rebuild.activated \subseteq Files \X Generations
  BY <1>1 DEF TypeOK, Rebuilds
<1>3. CASE HandlersFail
  <2>1. PICK h \in Handlers : Fails(h) \/ GivesUp(h)
    BY <1>3 DEF HandlersFail
  <2>2. {job[h].file} \in SUBSET Files
    BY <1>1, <2>1 DEF JobsFormed, Fails, GivesUp
  <2>3. ClearPending({job[h].file}) \/ UNCHANGED catalogVars
    BY <2>1 DEF Fails, GivesUp
  <2> QED  BY <1>1, <2>2, <2>3, ClearingIsCall
<1>4. CASE StagingFails
  <2>1. PICK last \in {{}} \cup {{r} : r \in rebuild.todo \ rebuild.staged} :
          ClearPending(FilesOf(rebuild.staged \cup last))
    BY <1>4 DEF StagingFails
  <2>2. FilesOf(rebuild.staged \cup last) \in SUBSET Files
    BY <1>2 DEF FilesOf
  <2> QED  BY <1>1, <2>1, <2>2, ClearingIsCall
<1>5. CASE SwapFails
  <2>1. FilesOf(rebuild.todo) \in SUBSET Files
    BY <1>2 DEF FilesOf
  <2> QED  BY <1>1, <1>5, <2>1, ClearingIsCall DEF SwapFails
<1>6. CASE CommitFails
  <2>1. {f \in FilesOf(rebuild.activated) : rebuild.before[f] = None} \in SUBSET Files
    BY <1>2 DEF FilesOf
  <2> QED  BY <1>1, <1>6, <2>1, RetirementIsCall DEF CommitFails
<1> QED  BY <1>3, <1>4, <1>5, <1>6 DEF RebuildFails

LEMMA StepsCallCatalog == IndexInv /\ [Next]_vars => [CatalogNext]_catalogVars
<1> SUFFICES ASSUME IndexInv, [Next]_vars PROVE [CatalogNext]_catalogVars
  OBVIOUS
<1>1. CASE HandlersStep
  BY <1>1, HandlersCallCatalog
<1>2. CASE RebuildSteps
  BY <1>2, RebuildCallsCatalog
<1>3. CASE HandlersFail \/ RebuildFails
  BY <1>3, FailuresCallCatalog
<1>4. CASE FilesReported \/ EventsTaken \/ Retries \/ RebuildReads \/ Restarts
  BY <1>4 DEF FilesReported, EventsTaken, Retries, RebuildReads, Restarts, Report, Begin,
       SweepRetries
<1>5. CASE UNCHANGED vars
  BY <1>5 DEF vars
<1> QED  BY <1>1, <1>2, <1>3, <1>4, <1>5 DEF Next

-----------------------------------------------------------------------------
LEMMA HandlersKeepTypes ==
  ASSUME IndexInv, CatalogTypeOK', HandlersStep
  PROVE  TypeOK' /\ JobsFormed'
<1>1. CatalogTypeOK /\ TypeOK /\ JobsFormed
  BY DEF IndexInv, TypeOK
<1>2. PICK h \in Handlers :
        Stages(h) \/ AddsRows(h) \/ Activates(h) \/ Shows(h) \/ Drops(h) \/ Retires(h)
  BY DEF HandlersStep
<1>3. /\ job \in [Handlers -> Jobs] /\ job[h] \in Jobs
      /\ Idle \in Jobs
      /\ active \in [Files -> MaybeGeneration]
  BY <1>1 DEF TypeOK, CatalogTypeOK, Idle, Jobs, MaybeGeneration
<1>4. job[h].step # "idle" => job[h].file \in Files
  BY <1>1 DEF JobsFormed
<1>5. /\ holder' \in Handlers \cup {Nobody, Rebuilder}
      /\ UNCHANGED <<project, rebuild, state, shadow, failures, crashes, raced, failed>>
  BY <1>1, <1>2 DEF TypeOK, Stages, AddsRows, Activates, Shows, Drops, Retires, Done
<1> DEFINE Moves(s, x) ==
      /\ job' = [job EXCEPT ![h] = IF s = "idle" THEN Idle
                                   ELSE [job[h] EXCEPT !.step = s, !.expected = x]]
      /\ job[h].step # "idle"
      /\ s \in {"add", "activate", "show"} => job[h].step \in {"stage", "add", "activate"}
<1>6. job' \in [Handlers -> Jobs] /\ JobsFormed'
  <2>1. \E s \in {"idle", "add", "activate", "show", "drop"}, x \in MaybeGeneration : Moves(s, x)
    <3>1. active[job[h].file] \in MaybeGeneration \/ job[h].step = "idle"
      BY <1>3, <1>4
    <3>2. CASE Stages(h)
      <4>1. Moves("add", active[job[h].file])
        BY <1>3, <3>2 DEF Stages, MayEnter, Jobs
      <4> HIDE DEF Moves
      <4> QED  BY <3>1, <3>2, <4>1 DEF Stages, MayEnter
    <3>3. CASE AddsRows(h)
      <4>1. Moves("activate", job[h].expected)
        BY <1>3, <3>3 DEF AddsRows, Advance, Jobs
      <4> HIDE DEF Moves
      <4> QED  BY <1>3, <4>1 DEF Jobs
    <3>4. CASE Activates(h)
      <4>1. PICK f \in Files : Moves("show", active[f]) \/ Moves("idle", None)
        BY <1>3, <3>4 DEF Activates, MayEnter, Done, Jobs
      <4> HIDE DEF Moves
      <4> QED  BY <1>3, <4>1 DEF MaybeGeneration
    <3>5. CASE Shows(h)
      <4>1. Moves("idle", None) \/ Moves("drop", job[h].expected)
        BY <1>3, <3>5 DEF Shows, Done, Advance, Jobs
      <4> HIDE DEF Moves
      <4> QED  BY <1>3, <4>1 DEF Jobs, MaybeGeneration
    <3>6. CASE Drops(h)
      <4>1. Moves("idle", None)
        BY <1>3, <3>6 DEF Drops, Done
      <4> HIDE DEF Moves
      <4> QED  BY <4>1 DEF MaybeGeneration
    <3>7. CASE Retires(h)
      <4>1. Moves("idle", None) \/ Moves("drop", active[job[h].file])
        BY <1>3, <3>7 DEF Retires, MayEnter, Done, Jobs
      <4> HIDE DEF Moves
      <4> QED  BY <3>1, <3>7, <4>1 DEF Retires, MayEnter, MaybeGeneration
    <3> QED  BY <1>2, <3>2, <3>3, <3>4, <3>5, <3>6, <3>7
  <2>2. PICK s \in {"idle", "add", "activate", "show", "drop"}, x \in MaybeGeneration : Moves(s, x)
    BY <2>1
  <2> DEFINE new == IF s = "idle" THEN Idle ELSE [job[h] EXCEPT !.step = s, !.expected = x]
  <2>3. new \in Jobs
    BY <1>3, <2>2 DEF Jobs
  <2>4. /\ new.step # "idle" => new.file \in Files
        /\ new.step \in {"stage", "add", "activate", "show"} => new.gen \in Generations
    <3>1. new.step = s
      BY <1>3 DEF Jobs, Idle
    <3>2. s # "idle" => new.file = job[h].file /\ new.gen = job[h].gen
      BY <1>3 DEF Jobs
    <3>3. job[h].step \in {"stage", "add", "activate"} => job[h].gen \in Generations
      BY <1>1 DEF JobsFormed
    <3> QED  BY <1>4, <2>2, <3>1, <3>2, <3>3
  <2>5. job' = [job EXCEPT ![h] = new]
    BY <2>2
  <2> HIDE DEF new
  <2> QED  BY <1>1, <1>3, <2>3, <2>4, <2>5 DEF JobsFormed
<1>7. vectors' \subseteq Files \X Generations \X {"pending", "active"}
  <2>1. vectors \subseteq Files \X Generations \X {"pending", "active"}
    BY <1>1 DEF TypeOK
  <2>2. CASE AddsRows(h)
    <3>1. job[h].file \in Files /\ job[h].gen \in Generations
      BY <1>1, <2>2 DEF JobsFormed, AddsRows
    <3> QED  BY <2>1, <2>2, <3>1 DEF AddsRows
  <2>3. CASE Shows(h)
    <3>1. job[h].file \in Files /\ job[h].gen \in Generations
      BY <1>1, <2>3 DEF JobsFormed, Shows
    <3> QED  BY <2>1, <2>3, <3>1 DEF Shows, RowsShown
  <2>4. CASE Drops(h)
    BY <2>1, <2>4 DEF Drops, RowsRemoved
  <2>5. CASE Stages(h) \/ Activates(h) \/ Retires(h)
    BY <2>1, <2>5 DEF Stages, Activates, Retires
  <2> QED  BY <1>2, <2>2, <2>3, <2>4, <2>5
<1>8. missed' \subseteq Files
  BY <1>1, <1>2, <1>4 DEF TypeOK, Stages, AddsRows, Activates, Shows, Drops, Retires
<1> QED  BY <1>1, <1>5, <1>6, <1>7, <1>8 DEF TypeOK, project

LEMMA RebuildKeepsTypes ==
  ASSUME IndexInv, CatalogTypeOK', RebuildSteps
  PROVE  TypeOK' /\ JobsFormed'
<1>1. CatalogTypeOK /\ TypeOK /\ JobsFormed
  BY DEF IndexInv, TypeOK
<1>2. /\ rebuild \in Rebuilds
      /\ rebuild.todo \subseteq Files \X Generations
      /\ active \in [Files -> MaybeGeneration]
      /\ NoRebuild \in Rebuilds
  BY <1>1 DEF TypeOK, CatalogTypeOK, Rebuilds, NoRebuild, MaybeGeneration
<1>3. UNCHANGED <<project, job, failures, crashes, raced>>
  BY DEF RebuildSteps, RebuildBegins, RebuildStages, RebuildSwaps, RebuildCopies,
         RebuildActivates, RebuildRetires, RebuildEnds
<1>4. rebuild' \in Rebuilds
  <2>1. CASE RebuildBegins
    BY <1>2, <2>1 DEF RebuildBegins, Rebuilds
  <2>2. CASE RebuildStages
    <3>1. PICK r \in rebuild.todo : rebuild' = [rebuild EXCEPT !.staged = rebuild.staged \cup {r}]
      BY <2>2 DEF RebuildStages
    <3> QED  BY <1>2, <3>1 DEF Rebuilds
  <2>3. CASE RebuildActivates
    <3>1. PICK r \in rebuild.todo :
            rebuild' = [rebuild EXCEPT !.activated = rebuild.activated \cup {r}]
      BY <2>3 DEF RebuildActivates
    <3> QED  BY <1>2, <3>1 DEF Rebuilds
  <2>4. CASE RebuildSwaps
    BY <1>2, <2>4 DEF RebuildSwaps, Rebuilds
  <2>5. CASE RebuildCopies
    BY <1>2, <2>5 DEF RebuildCopies, Rebuilds
  <2>6. CASE RebuildRetires \/ RebuildEnds
    BY <1>2, <2>6 DEF RebuildRetires, RebuildEnds
  <2> QED  BY <2>1, <2>2, <2>3, <2>4, <2>5, <2>6 DEF RebuildSteps
<1>5. shadow' \subseteq Files \X Generations
  <2>1. shadow \subseteq Files \X Generations
    BY <1>1 DEF TypeOK
  <2> QED  BY <1>2, <2>1 DEF RebuildSteps, RebuildBegins, RebuildStages, RebuildSwaps,
         RebuildCopies, RebuildActivates, RebuildRetires, RebuildEnds
<1>6. vectors' \subseteq Files \X Generations \X {"pending", "active"}
  <2>1. /\ shadow \subseteq Files \X Generations
        /\ vectors \subseteq Files \X Generations \X {"pending", "active"}
    BY <1>1 DEF TypeOK
  <2>2. CASE RebuildCopies
    BY <2>1, <2>2 DEF RebuildCopies
  <2>3. vectors' \in {{}, vectors} \/ RebuildCopies
    BY DEF RebuildSteps, RebuildBegins, RebuildStages, RebuildSwaps, RebuildActivates,
           RebuildRetires, RebuildEnds
  <2> QED  BY <2>1, <2>2, <2>3
<1>7. /\ holder' \in Handlers \cup {Nobody, Rebuilder}
      /\ state' \in {"idle", "building", "failed"}
      /\ missed' \subseteq Files
      /\ failed' \subseteq Files
  BY <1>1 DEF TypeOK, RebuildSteps, RebuildBegins, RebuildStages, RebuildSwaps, RebuildCopies,
         RebuildActivates, RebuildRetires, RebuildEnds
<1> QED  BY <1>1, <1>3, <1>4, <1>5, <1>6, <1>7 DEF TypeOK, JobsFormed, project

LEMMA FailuresKeepTypes ==
  ASSUME IndexInv, CatalogTypeOK', HandlersFail \/ RebuildFails
  PROVE  TypeOK' /\ JobsFormed'
<1>1. CatalogTypeOK /\ TypeOK /\ JobsFormed
  BY DEF IndexInv, TypeOK
<1>2. Idle \in Jobs /\ NoRebuild \in Rebuilds /\ Idle.step = "idle"
  BY DEF Idle, Jobs, NoRebuild, Rebuilds, MaybeGeneration
<1>3. failures \in 0 .. MaxFailures /\ failures < MaxFailures => failures + 1 \in 0 .. MaxFailures
  OBVIOUS
<1>4. CASE HandlersFail
  <2>1. PICK h \in Handlers : Fails(h) \/ GivesUp(h)
    BY <1>4 DEF HandlersFail
  <2>2. job[h].file \in Files
    BY <1>1, <2>1 DEF JobsFormed, Fails, GivesUp
  <2>3. job' \in [Handlers -> Jobs] /\ JobsFormed'
    BY <1>1, <1>2, <2>1 DEF TypeOK, JobsFormed, Fails, GivesUp, Done
  <2>4. CASE Fails(h)
    BY <1>1, <1>3, <2>2, <2>3, <2>4 DEF TypeOK, Fails, Done
  <2>5. CASE GivesUp(h)
    BY <1>1, <1>3, <2>2, <2>3, <2>5 DEF TypeOK, GivesUp
  <2> QED  BY <2>1, <2>4, <2>5
<1>5. CASE RebuildFails
  <2>1. RebuildGivesUp
    BY <1>5 DEF RebuildFails, StagingFails, SwapFails, CommitFails
  <2>2. missed' \subseteq Files
    BY <1>1, <1>5 DEF TypeOK, RebuildFails, StagingFails, SwapFails, CommitFails
  <2>3. vectors' \subseteq Files \X Generations \X {"pending", "active"}
    <3>1. /\ shadow \subseteq Files \X Generations
          /\ vectors \subseteq Files \X Generations \X {"pending", "active"}
      BY <1>1 DEF TypeOK
    <3>2. vectors' = vectors \/ vectors' = {<<r[1], r[2], "pending">> : r \in shadow}
      BY <1>5 DEF RebuildFails, StagingFails, SwapFails, CommitFails
    <3> QED  BY <3>1, <3>2
  <2>4. JobsFormed'
    BY <1>1, <2>1 DEF RebuildGivesUp, JobsFormed
  <2> QED  BY <1>1, <1>2, <1>3, <2>1, <2>2, <2>3, <2>4 DEF TypeOK, RebuildGivesUp, project
<1> QED  BY <1>4, <1>5

LEMMA OthersKeepTypes ==
  ASSUME IndexInv, CatalogTypeOK',
         FilesReported \/ EventsTaken \/ Retries \/ RebuildReads \/ Restarts
  PROVE  TypeOK' /\ JobsFormed'
<1>1. CatalogTypeOK /\ TypeOK /\ JobsFormed
  BY DEF IndexInv, TypeOK
<1>2. CASE FilesReported
  <2>1. PICK f \in Files : Report(f)
    BY <1>2 DEF FilesReported
  <2>2. reports' \in 0 .. MaxReports
    BY <1>1, <2>1 DEF TypeOK, Report
  <2>3. disk' \in [Files -> MaybeGeneration]
    BY <1>1, <2>1 DEF TypeOK, Report
  <2>4. JobsFormed'
    BY <1>1, <2>1 DEF JobsFormed, Report
  <2> QED  BY <1>1, <2>1, <2>2, <2>3, <2>4 DEF TypeOK, Report
<1>3. CASE EventsTaken
  <2>1. PICK h \in Handlers, f \in Files : Begin(h, f)
    BY <1>3 DEF EventsTaken
  <2>2. disk[f] \in MaybeGeneration
    BY <1>1 DEF TypeOK
  <2> DEFINE new == [step |-> IF disk[f] = None THEN "retire" ELSE "stage",
                     file |-> f, gen |-> disk[f], expected |-> None]
  <2>3. /\ new \in Jobs /\ new.file \in Files
        /\ new.step \in {"stage", "add", "activate", "show"} => new.gen \in Generations
    BY <2>2 DEF Jobs, MaybeGeneration
  <2>4. /\ job' = [job EXCEPT ![h] = new]
        /\ raced' \subseteq Files /\ owed' \subseteq Files /\ failed' \subseteq Files
    BY <1>1, <2>1 DEF TypeOK, Begin, Meets
  <2> HIDE DEF new
  <2>5. job' \in [Handlers -> Jobs] /\ JobsFormed'
    BY <1>1, <2>3, <2>4 DEF TypeOK, JobsFormed
  <2> QED  BY <1>1, <2>1, <2>4, <2>5 DEF TypeOK, Begin
<1>4. CASE RebuildReads
  <2>1. PICK skipped \in {{}} \cup {{f} : f \in Present} :
          /\ failures' = failures + Cardinality(skipped)
          /\ failures' <= MaxFailures
          /\ failed' = failed \cup skipped
          /\ rebuild' = [NoRebuild EXCEPT !.step = "enter",
                           !.todo = {<<f, disk[f]>> : f \in Present \ skipped}]
    BY <1>4 DEF RebuildReads
  <2>2. Cardinality(skipped) \in Nat
    <3>1. CASE skipped = {}
      BY <3>1, FS_EmptySet
    <3>2. CASE skipped # {}
      <4>1. PICK f \in Present : skipped = {f}
        BY <3>2
      <4> QED  BY <4>1, FS_Singleton
    <3> QED  BY <3>1, <3>2
  <2>3. failures' \in 0 .. MaxFailures
    BY <1>1, <2>1, <2>2 DEF TypeOK
  <2>4. {<<f, disk[f]>> : f \in Present \ skipped} \subseteq Files \X Generations
    BY <1>1 DEF TypeOK, Present, MaybeGeneration
  <2>5. rebuild' \in Rebuilds
    BY <2>1, <2>4 DEF Rebuilds, NoRebuild, MaybeGeneration
  <2>6. failed' \subseteq Files /\ raced' \subseteq Files
    <3>1. failed \subseteq Files /\ raced \subseteq Files
      BY <1>1 DEF TypeOK
    <3>2. skipped \subseteq Files
      BY <2>1 DEF Present
    <3>3. raced' \subseteq raced \cup Files
      BY <1>4 DEF RebuildReads
    <3> QED  BY <2>1, <3>1, <3>2, <3>3
  <2>7. JobsFormed'
    BY <1>1, <1>4 DEF JobsFormed, RebuildReads
  <2> QED  BY <1>1, <1>4, <2>3, <2>5, <2>6, <2>7 DEF TypeOK, RebuildReads, project
<1>5. CASE Restarts
  <2>1. Idle \in Jobs /\ NoRebuild \in Rebuilds /\ Idle.step = "idle"
    BY DEF Idle, Jobs, NoRebuild, Rebuilds, MaybeGeneration
  <2>2. job' \in [Handlers -> Jobs] /\ JobsFormed'
    BY <1>5, <2>1 DEF JobsFormed, Restarts
  <2>3. crashes' \in 0 .. MaxCrashes
    BY <1>1, <1>5 DEF TypeOK, Restarts
  <2> QED  BY <1>1, <1>5, <2>1, <2>2, <2>3 DEF TypeOK, Restarts
<1>6. CASE Retries
  BY <1>1, <1>6 DEF TypeOK, JobsFormed, Retries, SweepRetries
<1> QED  BY <1>2, <1>3, <1>4, <1>5, <1>6

-----------------------------------------------------------------------------
LEMMA IndexInvInit == Init => IndexInv
<1> SUFFICES ASSUME Init PROVE IndexInv
  OBVIOUS
<1>1. CatalogInv
  BY CatalogInvInit DEF Init
<1>2. Idle \in Jobs /\ NoRebuild \in Rebuilds /\ Idle.step = "idle"
  BY DEF Idle, Jobs, NoRebuild, Rebuilds, MaybeGeneration
<1>3. JobsFormed
  BY <1>2 DEF Init, JobsFormed
<1>4. TypeOK
  BY <1>1, <1>2 DEF Init, TypeOK, CatalogInv, Present
<1> QED  BY <1>1, <1>3, <1>4 DEF IndexInv

LEMMA IndexInvStep == IndexInv /\ [Next]_vars => IndexInv'
<1> SUFFICES ASSUME IndexInv, [Next]_vars PROVE IndexInv'
  OBVIOUS
<1>1. CatalogInv'
  BY StepsCallCatalog, CatalogInvStep DEF IndexInv
<1>2. CatalogTypeOK'
  BY <1>1 DEF CatalogInv
<1>3. TypeOK' /\ JobsFormed'
  <2>1. CASE UNCHANGED vars
    BY <1>2, <2>1 DEF vars, project, IndexInv, TypeOK, JobsFormed
  <2> QED  BY <1>2, <2>1, HandlersKeepTypes, RebuildKeepsTypes, FailuresKeepTypes,
              OthersKeepTypes DEF Next
<1> QED  BY <1>1, <1>3 DEF IndexInv

-----------------------------------------------------------------------------
\* The variables of the coordinator keep their types, through failures and
\* crashes.
THEOREM IndexTyped == Spec => []TypeOK
<1>1. IndexInv => TypeOK
  BY DEF IndexInv
<1> QED  BY <1>1, IndexInvInit, IndexInvStep, PTL DEF Spec

\* Handlers, rebuilds, failures and crashes change the catalog only by the calls
\* of StructuredCatalog, one at a time or several of one kind in a row: the
\* coordinator implements the specification of its catalog.
THEOREM CatalogImplemented == Spec => CatalogUsedAsSpecified
<1>1. Init => CatalogInit
  BY DEF Init
<1> QED  BY <1>1, IndexInvInit, IndexInvStep, StepsCallCatalog, PTL
         DEF Spec, CatalogUsedAsSpecified, CatalogSpec

\* Hence rows are exact also while two handlers and a rebuild work on one file
\* and stores fail between their steps.
THEOREM IndexPayloadExact == Spec => []PayloadExact
<1>1. IndexInv => PayloadExact
  BY DEF IndexInv, CatalogInv
<1> QED  BY <1>1, IndexInvInit, IndexInvStep, PTL DEF Spec

\* And every symbol that was active is found active or retired.
THEOREM IndexTombstonesExact == Spec => []RetiredExact
<1>1. IndexInv => RetiredExact
  BY DEF IndexInv, CatalogInv
<1> QED  BY <1>1, IndexInvInit, IndexInvStep, PTL DEF Spec
-----------------------------------------------------------------------------
(***************************************************************************)
(* The mutex, and what a rebuild may rely on while it has it.              *)
(***************************************************************************)
Holding == {"add", "show", "drop"}

\* Who is between two calls that belong together has the mutex.
MutexHeld ==
  /\ \A h \in Handlers : job[h].step \in Holding => holder = h
  /\ rebuild.step \in {"stage", "copy", "commit"} => holder = Rebuilder

\* Until the swap the catalog is as the rebuild found it, and after it the rows
\* are those of the files it read.
RebuildInv ==
  /\ rebuild.staged \subseteq rebuild.todo /\ rebuild.activated \subseteq rebuild.todo
  /\ \A r, s \in rebuild.todo : r[1] = s[1] => r = s
  /\ rebuild.step \in {"stage", "copy"} => active = rebuild.before /\ shadow = rebuild.staged
  /\ rebuild.step = "copy" => rebuild.staged = rebuild.todo
  /\ rebuild.step \in {"copy", "commit"} => missed = Files
  /\ rebuild.step \in {"idle", "enter"} => rebuild.staged = {}
  /\ rebuild.step # "commit" => rebuild.activated = {}
  /\ rebuild.step = "commit" =>
       /\ vectors = {<<r[1], r[2], "active">> : r \in rebuild.todo}
       /\ \A r \in rebuild.activated : active[r[1]] = r[2]
       /\ \A f \in Files \ FilesOf(rebuild.todo) : active[f] \in {rebuild.before[f], None}

\* A handler goes on to another step, or is done.
JobMoves(h, s) ==
  /\ \A k \in Handlers \ {h} : job'[k] = job[k]
  /\ job'[h].step = s
  /\ s # "idle" => job'[h].file = job[h].file /\ job'[h].gen = job[h].gen

LEMMA HandlerMoves ==
  ASSUME IndexInv, NEW h \in Handlers
  PROVE  /\ Stages(h) => /\ job[h].step = "stage" /\ JobMoves(h, "add")
                         /\ holder = Nobody /\ holder' = h
         /\ AddsRows(h) => /\ job[h].step = "add" /\ JobMoves(h, "activate")
                           /\ holder' = Nobody
         /\ Activates(h) => /\ job[h].step = "activate" /\ holder = Nobody
                            /\ \/ JobMoves(h, "show") /\ holder' = h
                               \/ JobMoves(h, "idle") /\ holder' = Nobody
         /\ Shows(h) => /\ job[h].step = "show"
                        /\ \/ /\ job[h].expected = None
                              /\ JobMoves(h, "idle") /\ holder' = Nobody
                           \/ /\ job[h].expected # None /\ UNCHANGED holder
                              /\ JobMoves(h, "drop") /\ job'[h].expected = job[h].expected
         /\ Drops(h) => job[h].step = "drop" /\ JobMoves(h, "idle") /\ holder' = Nobody
         /\ Retires(h) => /\ job[h].step = "retire" /\ holder = Nobody
                          /\ \/ /\ JobMoves(h, "drop") /\ holder' = h
                             \/ JobMoves(h, "idle") /\ holder' = Nobody
         /\ Fails(h) => job[h].step \in Holding /\ JobMoves(h, "idle") /\ holder' = Nobody
         /\ GivesUp(h) => /\ job[h].step \in {"stage", "retire"} /\ JobMoves(h, "idle")
                          /\ UNCHANGED holder
<1>1. job \in [Handlers -> Jobs] /\ job[h] \in Jobs
  BY DEF IndexInv, TypeOK
<1>2. ASSUME NEW s \in {"add", "activate", "show", "drop"}, NEW x,
             \/ job' = [job EXCEPT ![h].step = s]
             \/ job' = [job EXCEPT ![h].step = s, ![h].expected = x]
      PROVE  JobMoves(h, s)
  BY <1>1, <1>2 DEF JobMoves, Jobs
<1>3. ASSUME Done(h)
      PROVE  JobMoves(h, "idle") /\ holder' = Nobody
  BY <1>1, <1>3 DEF JobMoves, Done, Idle
<1>4. ASSUME Stages(h)
      PROVE  job[h].step = "stage" /\ JobMoves(h, "add") /\ holder = Nobody /\ holder' = h
  BY <1>2, <1>4 DEF Stages, MayEnter
<1>5. ASSUME AddsRows(h)
      PROVE  job[h].step = "add" /\ JobMoves(h, "activate") /\ holder' = Nobody
  BY <1>2, <1>5 DEF AddsRows, Advance
<1>6. ASSUME Activates(h)
      PROVE  /\ job[h].step = "activate" /\ holder = Nobody
             /\ \/ JobMoves(h, "show") /\ holder' = h
                \/ JobMoves(h, "idle") /\ holder' = Nobody
  <2>1. \/ \E x : job' = [job EXCEPT ![h].step = "show", ![h].expected = x] /\ holder' = h
        \/ Done(h)
    BY <1>6 DEF Activates
  <2> QED  BY <1>2, <1>3, <1>6, <2>1 DEF Activates, MayEnter
<1>7. ASSUME Shows(h)
      PROVE  /\ job[h].step = "show"
             /\ \/ /\ job[h].expected = None
                   /\ JobMoves(h, "idle") /\ holder' = Nobody
                \/ /\ job[h].expected # None /\ UNCHANGED holder
                   /\ JobMoves(h, "drop") /\ job'[h].expected = job[h].expected
  <2>1. CASE job[h].expected = None
    BY <1>3, <1>7, <2>1 DEF Shows
  <2>2. CASE job[h].expected # None
    <3>1. job' = [job EXCEPT ![h].step = "drop"] /\ UNCHANGED holder /\ job[h].step = "show"
      BY <1>7, <2>2 DEF Shows, Advance
    <3>2. job'[h].expected = job[h].expected
      BY <1>1, <3>1 DEF Jobs
    <3> QED  BY <1>2, <2>2, <3>1, <3>2
  <2> QED  BY <2>1, <2>2
<1>8. ASSUME Drops(h)
      PROVE  job[h].step = "drop" /\ JobMoves(h, "idle") /\ holder' = Nobody
  BY <1>3, <1>8 DEF Drops
<1>9. ASSUME Retires(h)
      PROVE  /\ job[h].step = "retire" /\ holder = Nobody
             /\ \/ JobMoves(h, "drop") /\ holder' = h
                \/ JobMoves(h, "idle") /\ holder' = Nobody
  <2>1. \/ \E x : job' = [job EXCEPT ![h].step = "drop", ![h].expected = x] /\ holder' = h
        \/ Done(h)
    BY <1>9 DEF Retires
  <2> QED  BY <1>2, <1>3, <1>9, <2>1 DEF Retires, MayEnter
<1>10. ASSUME Fails(h)
       PROVE  job[h].step \in Holding /\ JobMoves(h, "idle") /\ holder' = Nobody
  BY <1>3, <1>10 DEF Fails, Holding
<1>11. ASSUME GivesUp(h)
       PROVE  job[h].step \in {"stage", "retire"} /\ JobMoves(h, "idle") /\ UNCHANGED holder
  BY <1>1, <1>11 DEF GivesUp, JobMoves, Idle
<1> QED  BY <1>4, <1>5, <1>6, <1>7, <1>8, <1>9, <1>10, <1>11

\* Only giving up on a file before its update began takes no mutex.
Guarded(h) ==
  Stages(h) \/ AddsRows(h) \/ Activates(h) \/ Shows(h) \/ Drops(h) \/ Retires(h) \/ Fails(h)

HandlersGiveUp == \E h \in Handlers : GivesUp(h)

LEMMA MutexStep ==
  ASSUME IndexInv, MutexHeld, [Next]_vars
  PROVE  MutexHeld'
<1>1. job \in [Handlers -> Jobs]
  BY DEF IndexInv, TypeOK
<1>2. CASE \E h \in Handlers : Guarded(h)
  <2>1. PICK h \in Handlers : \/ Stages(h) \/ AddsRows(h) \/ Activates(h) \/ Shows(h)
                              \/ Drops(h) \/ Retires(h) \/ Fails(h)
    BY <1>2 DEF Guarded
  <2>2. UNCHANGED rebuild
    BY <2>1 DEF Stages, AddsRows, Activates, Shows, Drops, Retires, Fails
  <2>3. \A k \in Handlers \ {h} : job'[k] = job[k]
    BY <2>1, HandlerMoves DEF JobMoves
  <2>4. holder \in {Nobody, h}
    <3>1. holder = Nobody \/ job[h].step \in Holding
      BY <2>1, HandlerMoves DEF Holding
    <3> QED  BY <3>1 DEF MutexHeld
  <2>5. holder' \in {Nobody, h} /\ (job'[h].step \in Holding => holder' = h)
    <3>1. CASE Shows(h)
      <4>1. holder = h
        BY <3>1, HandlerMoves DEF MutexHeld, Holding
      <4> QED  BY <3>1, <4>1, HandlerMoves DEF JobMoves, Holding
    <3> QED  BY <2>1, <3>1, HandlerMoves DEF JobMoves, Holding
  <2> QED  BY <2>2, <2>3, <2>4, <2>5, HandlersAssumption DEF MutexHeld, Nobody, Rebuilder
<1>3. CASE RebuildSteps \/ RebuildFails
  <2>1. UNCHANGED job
    BY <1>3 DEF RebuildSteps, RebuildBegins, RebuildStages, RebuildSwaps, RebuildCopies,
         RebuildActivates, RebuildRetires, RebuildEnds, RebuildFails, StagingFails, SwapFails,
         CommitFails, RebuildGivesUp
  <2>2. holder \notin Handlers
    BY <1>3, HandlersAssumption DEF MutexHeld, Nobody, Rebuilder, RebuildSteps, RebuildBegins, RebuildStages,
         RebuildSwaps, RebuildCopies, RebuildActivates, RebuildRetires, RebuildEnds,
         RebuildFails, StagingFails, SwapFails, CommitFails
  <2>3. rebuild'.step \in {"stage", "copy", "commit"} => holder' = Rebuilder
    <3>1. rebuild \in Rebuilds
      BY DEF IndexInv, TypeOK
    <3>2. CASE RebuildBegins
      BY <3>2 DEF RebuildBegins
    <3>3. CASE RebuildEnds \/ RebuildFails
      BY <3>3 DEF RebuildEnds, RebuildFails, StagingFails, SwapFails, CommitFails,
           RebuildGivesUp, NoRebuild
    <3>4. CASE RebuildStages \/ RebuildSwaps \/ RebuildCopies \/ RebuildActivates \/ RebuildRetires
      BY <3>4 DEF MutexHeld, RebuildStages, RebuildSwaps, RebuildCopies, RebuildActivates,
           RebuildRetires
    <3> QED  BY <1>3, <3>2, <3>3, <3>4 DEF RebuildSteps
  <2> QED  BY <2>1, <2>2, <2>3 DEF MutexHeld
<1>4. CASE FilesReported
  BY <1>4 DEF FilesReported, Report, MutexHeld
<1>5. CASE EventsTaken
  <2>1. PICK h \in Handlers, f \in Files : Begin(h, f)
    BY <1>5 DEF EventsTaken
  <2>2. job'[h].step \notin Holding /\ \A k \in Handlers \ {h} : job'[k] = job[k]
    BY <1>1, <2>1 DEF Begin, Holding
  <2> QED  BY <2>1, <2>2 DEF Begin, MutexHeld
<1>6. CASE RebuildReads
  <2>1. rebuild'.step = "enter" /\ UNCHANGED <<job, holder>>
    BY <1>6 DEF RebuildReads, NoRebuild
  <2> QED  BY <2>1 DEF MutexHeld
<1>7. CASE Restarts
  BY <1>7 DEF Restarts, MutexHeld, Idle, NoRebuild, Holding
<1>8. CASE UNCHANGED vars
  BY <1>8 DEF vars, MutexHeld
<1>9. CASE HandlersGiveUp
  <2>1. PICK h \in Handlers : GivesUp(h)
    BY <1>9 DEF HandlersGiveUp
  <2>2. job'[h].step \notin Holding /\ \A k \in Handlers \ {h} : job'[k] = job[k]
    BY <2>1, HandlerMoves DEF JobMoves, Holding
  <2>3. UNCHANGED <<holder, rebuild>>
    BY <2>1 DEF GivesUp
  <2> QED  BY <2>2, <2>3 DEF MutexHeld
<1>10. CASE Retries
  BY <1>10 DEF Retries, SweepRetries, MutexHeld
<1> QED  BY <1>2, <1>3, <1>4, <1>5, <1>6, <1>7, <1>8, <1>9, <1>10
         DEF Next, HandlersStep, HandlersFail, HandlersGiveUp, Guarded

\* While a rebuild stages, swaps or activates, no handler changes a store.
LEMMA RebuildIsAlone ==
  ASSUME IndexInv, MutexHeld, \E h \in Handlers : Guarded(h)
  PROVE  rebuild.step \in {"idle", "enter"}
<1>1. PICK h \in Handlers : \/ Stages(h) \/ AddsRows(h) \/ Activates(h) \/ Shows(h)
                            \/ Drops(h) \/ Retires(h) \/ Fails(h)
  BY DEF Guarded
<1>2. holder = Nobody \/ job[h].step \in Holding
  BY <1>1, HandlerMoves DEF Holding
<1>3. holder \in {Nobody, h}
  BY <1>2 DEF MutexHeld
<1>4. holder # Rebuilder
  BY <1>3, HandlersAssumption DEF Nobody, Rebuilder
<1> QED  BY <1>4 DEF MutexHeld, IndexInv, TypeOK, Rebuilds

LEMMA RebuildStepsInOrder ==
  ASSUME IndexInv, RebuildInv, RebuildSteps
  PROVE  RebuildInv'
<1>1. /\ rebuild \in Rebuilds
      /\ rebuild.todo \subseteq Files \X Generations
      /\ active \in [Files -> MaybeGeneration]
  BY DEF IndexInv, CatalogInv, TypeOK, CatalogTypeOK, Rebuilds
<1>2. CASE RebuildBegins
  <2>1. rebuild' = [rebuild EXCEPT !.step = "stage", !.before = active]
        /\ rebuild.step = "enter" /\ shadow' = {} /\ active' = active
    BY <1>2 DEF RebuildBegins
  <2> QED  BY <1>1, <2>1 DEF RebuildInv, Rebuilds
<1>3. CASE RebuildStages
  <2>1. PICK r \in rebuild.todo :
          /\ rebuild' = [rebuild EXCEPT !.staged = rebuild.staged \cup {r}]
          /\ shadow' = shadow \cup {r}
          /\ UNCHANGED active
    BY <1>3 DEF RebuildStages, StageGeneration
  <2>2. rebuild.step = "stage"
    BY <1>3 DEF RebuildStages
  <2> QED  BY <1>1, <2>1, <2>2 DEF RebuildInv, Rebuilds
<1>4. CASE RebuildSwaps
  <2>1. /\ rebuild.step = "stage" /\ rebuild.staged = rebuild.todo /\ missed' = Files
        /\ rebuild' = [rebuild EXCEPT !.step = "copy"]
        /\ UNCHANGED <<active, shadow>>
    BY <1>4 DEF RebuildSwaps, catalogVars
  <2> QED  BY <1>1, <2>1 DEF RebuildInv, Rebuilds
<1>5. CASE RebuildCopies
  <2>1. /\ rebuild.step = "copy" /\ UNCHANGED <<active, missed>>
        /\ rebuild' = [rebuild EXCEPT !.step = "commit"]
        /\ vectors' = {<<r[1], r[2], "active">> : r \in shadow}
    BY <1>5 DEF RebuildCopies, catalogVars
  <2>2. /\ rebuild'.step = "commit" /\ rebuild'.todo = rebuild.todo
        /\ rebuild'.staged = rebuild.staged /\ rebuild'.activated = rebuild.activated
        /\ rebuild'.before = rebuild.before
    BY <1>1, <2>1 DEF Rebuilds
  <2>3. shadow = rebuild.todo /\ rebuild.activated = {} /\ active = rebuild.before
    BY <2>1 DEF RebuildInv
  <2> QED  BY <2>1, <2>2, <2>3 DEF RebuildInv
<1>6. CASE RebuildActivates
  <2>1. PICK r \in rebuild.todo :
          /\ rebuild' = [rebuild EXCEPT !.activated = rebuild.activated \cup {r}]
          /\ active' = [active EXCEPT ![r[1]] = r[2]]
    BY <1>6 DEF RebuildActivates, ActivateGeneration
  <2>2. rebuild.step = "commit" /\ UNCHANGED <<vectors, missed>>
    BY <1>6 DEF RebuildActivates
  <2>3. /\ rebuild'.step = "commit" /\ rebuild'.todo = rebuild.todo
        /\ rebuild'.staged = rebuild.staged /\ rebuild'.before = rebuild.before
        /\ rebuild'.activated = rebuild.activated \cup {r}
    BY <1>1, <2>1, <2>2 DEF Rebuilds
  <2>4. /\ rebuild.activated \subseteq rebuild.todo
        /\ \A q, s \in rebuild.todo : q[1] = s[1] => q = s
        /\ \A s \in rebuild.activated : active[s[1]] = s[2]
    BY <2>2 DEF RebuildInv
  <2>5. \A s \in rebuild'.activated : active'[s[1]] = s[2]
    BY <1>1, <2>1, <2>3, <2>4
  <2>6. \A f \in Files \ FilesOf(rebuild.todo) : active'[f] = active[f]
    BY <1>1, <2>1 DEF FilesOf
  <2> QED  BY <2>2, <2>3, <2>4, <2>5, <2>6 DEF RebuildInv
<1>7. CASE RebuildRetires
  <2>1. PICK f \in Files \ FilesOf(rebuild.todo) :
          active' = [e \in Files |-> IF e \in {f} THEN None ELSE active[e]]
    BY <1>7 DEF RebuildRetires, Outdated, RetireFile, RetireFiles
  <2>2. rebuild.step = "commit" /\ UNCHANGED <<rebuild, vectors, missed>>
    BY <1>7 DEF RebuildRetires
  <2>3. \A r \in rebuild.todo : r[1] \in Files /\ r[1] # f
    BY <1>1, <2>1 DEF FilesOf
  <2>4. \A r \in rebuild.activated : active'[r[1]] = active[r[1]]
    BY <2>1, <2>3 DEF RebuildInv
  <2>5. \A e \in Files : active'[e] \in {active[e], None}
    BY <2>1
  <2> QED  BY <2>2, <2>4, <2>5 DEF RebuildInv
<1>8. CASE RebuildEnds
  BY <1>8 DEF RebuildEnds, RebuildInv, NoRebuild
<1> QED  BY <1>2, <1>3, <1>4, <1>5, <1>6, <1>7, <1>8 DEF RebuildSteps

LEMMA RebuildInvStep ==
  ASSUME IndexInv, MutexHeld, RebuildInv, [Next]_vars
  PROVE  RebuildInv'
<1>1. rebuild \in Rebuilds
  BY DEF IndexInv, TypeOK
<1>2. CASE \E h \in Handlers : Guarded(h)
  <2>1. rebuild.step \in {"idle", "enter"}
    BY <1>2, RebuildIsAlone
  <2>2. UNCHANGED rebuild
    BY <1>2 DEF Guarded, Stages, AddsRows, Activates, Shows, Drops, Retires, Fails
  <2> QED  BY <2>1, <2>2 DEF RebuildInv
<1>3. CASE RebuildSteps
  BY <1>3, RebuildStepsInOrder
<1>4. CASE RebuildFails \/ Restarts
  <2>1. rebuild' = NoRebuild
    BY <1>4 DEF RebuildFails, StagingFails, SwapFails, CommitFails, RebuildGivesUp, Restarts
  <2> QED  BY <2>1 DEF RebuildInv, NoRebuild
<1>5. CASE FilesReported \/ EventsTaken \/ Retries \/ HandlersGiveUp
  <2>1. UNCHANGED <<active, rebuild, shadow, vectors, missed>>
    BY <1>5 DEF FilesReported, EventsTaken, Retries, HandlersGiveUp, Report, Begin, SweepRetries,
         GivesUp, catalogVars
  <2> QED  BY <2>1 DEF RebuildInv
<1>6. CASE RebuildReads
  <2>1. PICK skipped :
          rebuild' = [NoRebuild EXCEPT !.step = "enter",
                        !.todo = {<<f, disk[f]>> : f \in Present \ skipped}]
    BY <1>6 DEF RebuildReads
  <2>2. \A r, s \in rebuild'.todo : r[1] = s[1] => r = s
    BY <2>1 DEF NoRebuild
  <2>3. rebuild'.step = "enter" /\ rebuild'.staged = {} /\ rebuild'.activated = {}
    BY <2>1 DEF NoRebuild
  <2> QED  BY <2>2, <2>3 DEF RebuildInv
<1>7. CASE UNCHANGED vars
  BY <1>7 DEF vars, catalogVars, RebuildInv
<1> QED  BY <1>2, <1>3, <1>4, <1>5, <1>6, <1>7
         DEF Next, HandlersStep, HandlersFail, HandlersGiveUp, Guarded

RebuildSafe == IndexInv /\ MutexHeld /\ RebuildInv

LEMMA RebuildSafeInit == Init => RebuildSafe
<1> SUFFICES ASSUME Init PROVE RebuildSafe
  OBVIOUS
<1>1. MutexHeld
  BY DEF Init, MutexHeld, Idle, NoRebuild, Holding
<1>2. RebuildInv
  BY DEF Init, RebuildInv, NoRebuild
<1> QED  BY <1>1, <1>2, IndexInvInit DEF RebuildSafe

LEMMA RebuildSafeStep == RebuildSafe /\ [Next]_vars => RebuildSafe'
BY IndexInvStep, MutexStep, RebuildInvStep DEF RebuildSafe

LEMMA RebuildSafeHolds == Spec => []RebuildSafe
BY RebuildSafeInit, RebuildSafeStep, PTL DEF Spec

\* A rebuild whose staging fails has not touched what is active, and nothing it
\* has staged stays pending, however handlers and events came in between.
THEOREM FailedStagingIsHarmless == Spec => FailedStagingKeepsActive
<1>1. ASSUME RebuildSafe, StagingFails
      PROVE  active' = rebuild.before /\ \A r \in rebuild.staged : pending'[r[1]] = None
  <2>1. active = rebuild.before
    BY <1>1 DEF RebuildSafe, RebuildInv, StagingFails
  <2>2. PICK last \in {{}} \cup {{r} : r \in rebuild.todo \ rebuild.staged} :
          ClearPending(FilesOf(rebuild.staged \cup last))
    BY <1>1 DEF StagingFails
  <2>3. rebuild.staged \subseteq Files \X Generations
    BY <1>1 DEF RebuildSafe, IndexInv, TypeOK, Rebuilds
  <2>4. \A r \in rebuild.staged : r[1] \in Files /\ r[1] \in FilesOf(rebuild.staged \cup last)
    BY <2>3 DEF FilesOf
  <2> QED  BY <2>1, <2>2, <2>4 DEF ClearPending
<1>2. RebuildSafe /\ [Next]_vars =>
        [StagingFails => /\ active' = rebuild.before
                         /\ \A r \in rebuild.staged : pending'[r[1]] = None]_vars
  BY <1>1
<1> QED  BY <1>2, RebuildSafeHolds, PTL DEF Spec, FailedStagingKeepsActive
-----------------------------------------------------------------------------
(***************************************************************************)
(* Files that no two were at work on: what their one handler relies on.    *)
(***************************************************************************)
WorksOn(h, f) == job[h].step # "idle" /\ job[h].file = f

JobAlone ==
  \A h \in Handlers : \A f \in Files \ raced :
    WorksOn(h, f) => rebuild.step = "idle" /\ \A k \in Handlers : WorksOn(k, f) => k = h

\* At every step the stores are as the steps before left them, and the content
\* is that of the disk unless another event is to come.
JobFits(h, f) ==
  /\ f \in owed \/ job[h].gen = disk[f]
  /\ job[h].step \in {"add", "activate"} => pending[f] = job[h].gen
  /\ job[h].step \in {"activate", "show"} => <<f, job[h].gen, "pending">> \in vectors
  /\ job[h].step \in {"show", "drop"} =>
       active[f] = job[h].gen /\ (job[h].gen # None => f \in missed)
  /\ job[h].step = "drop" /\ job[h].gen \notin {None, job[h].expected}
       => <<f, job[h].gen, "active">> \in vectors
  /\ job[h].step = "retire" => job[h].gen = None

JobsFit == \A h \in Handlers : \A f \in Files \ raced : WorksOn(h, f) => JobFits(h, f)

\* What a rebuild has read is what is on the disk, unless an event is to come;
\* a file that is there and was not read has failed.
ReadsDisk ==
  rebuild.step # "idle" =>
    \A f \in Files \ (raced \cup owed) :
      /\ \A r \in rebuild.todo : r[1] = f => r[2] = disk[f]
      /\ disk[f] # None => f \in FilesOf(rebuild.todo) \cup failed

FileFound(f) == f \notin missed \cup raced /\ active[f] # None => <<f, active[f], "active">> \in vectors

FileMatches(f) ==
  \/ f \in missed \cup raced \cup failed
  \/ f \in owed
  \/ active[f] = disk[f]
  \/ \E h \in Handlers : WorksOn(h, f)

FilesFound == \A f \in Files : FileFound(f)
FilesMatch == \A f \in Files : FileMatches(f)

FileKept(f) ==
  /\ active'[f] = active[f] /\ pending'[f] = pending[f]
  /\ \A g, s : <<f, g, s>> \in vectors' <=> <<f, g, s>> \in vectors
  /\ f \in missed' <=> f \in missed
  /\ f \in owed' <=> f \in owed
  /\ f \in failed' <=> f \in failed

HandlerActs(h) ==
  \/ Stages(h) \/ AddsRows(h) \/ Activates(h) \/ Shows(h) \/ Drops(h) \/ Retires(h)
  \/ Fails(h) \/ GivesUp(h)

\* A handler leaves all files alone but its own.
LEMMA HandlerTouches ==
  ASSUME IndexInv, NEW h \in Handlers, HandlerActs(h)
  PROVE  /\ job[h].step # "idle" /\ job[h].file \in Files
         /\ \A k \in Handlers \ {h} : job'[k] = job[k]
         /\ job'[h].step # "idle" => job'[h].file = job[h].file /\ job'[h].gen = job[h].gen
         /\ \A f \in Files \ {job[h].file} : FileKept(f)
         /\ UNCHANGED <<disk, rebuild, raced>>
         /\ owed \subseteq owed' /\ failed \subseteq failed'
<1>1. /\ job[h].step # "idle"
      /\ \A k \in Handlers \ {h} : job'[k] = job[k]
      /\ job'[h].step # "idle" => job'[h].file = job[h].file /\ job'[h].gen = job[h].gen
  BY HandlerMoves DEF HandlerActs, JobMoves, Holding
<1>2. job[h].file \in Files
  BY <1>1 DEF IndexInv, JobsFormed
<1>3. /\ UNCHANGED <<disk, rebuild, raced>> /\ owed' \in {owed, owed \cup {job[h].file}}
      /\ failed' \in {failed, failed \cup {job[h].file}}
  BY DEF HandlerActs, Stages, AddsRows, Activates, Shows, Drops, Retires, Fails, GivesUp, project
<1>4. missed' \in {missed, missed \cup {job[h].file}, missed \ {job[h].file}}
  BY DEF HandlerActs, Stages, AddsRows, Activates, Shows, Drops, Retires, Fails, GivesUp
<1>5. active \in [Files -> MaybeGeneration] /\ pending \in [Files -> MaybeGeneration]
  BY DEF IndexInv, CatalogInv, CatalogTypeOK
<1>6. ASSUME NEW f \in Files \ {job[h].file}
      PROVE  active'[f] = active[f] /\ pending'[f] = pending[f]
  <2>1. CASE Stages(h)
    BY <1>5, <2>1 DEF Stages, StageGeneration
  <2>2. CASE Activates(h)
    BY <1>5, <2>2 DEF Activates, ActivateGeneration, catalogVars
  <2>3. CASE Retires(h)
    BY <1>5, <2>3 DEF Retires, RetireFile, RetireFiles
  <2>4. CASE Fails(h)
    <3>1. ClearPending({job[h].file}) \/ UNCHANGED catalogVars
      BY <2>4 DEF Fails
    <3> QED  BY <1>5, <3>1 DEF ClearPending, catalogVars
  <2>5. CASE AddsRows(h) \/ Shows(h) \/ Drops(h) \/ GivesUp(h)
    BY <2>5 DEF AddsRows, Shows, Drops, GivesUp, catalogVars
  <2> QED  BY <2>1, <2>2, <2>3, <2>4, <2>5 DEF HandlerActs
<1>7. ASSUME NEW f \in Files \ {job[h].file}, NEW g, NEW s
      PROVE  <<f, g, s>> \in vectors' <=> <<f, g, s>> \in vectors
  <2>1. CASE AddsRows(h)
    BY <2>1 DEF AddsRows
  <2>2. CASE Shows(h)
    BY <2>2 DEF Shows, RowsShown
  <2>3. CASE Drops(h)
    BY <2>3 DEF Drops, RowsRemoved
  <2>4. CASE Stages(h) \/ Activates(h) \/ Retires(h) \/ Fails(h) \/ GivesUp(h)
    BY <2>4 DEF Stages, Activates, Retires, Fails, GivesUp
  <2> QED  BY <2>1, <2>2, <2>3, <2>4 DEF HandlerActs
<1> QED  BY <1>1, <1>2, <1>3, <1>4, <1>6, <1>7 DEF FileKept

LEMMA AloneStep ==
  ASSUME IndexInv, JobAlone, [Next]_vars
  PROVE  JobAlone'
<1>1. CASE HandlersStep \/ HandlersFail
  <2>1. PICK h \in Handlers : HandlerActs(h)
    BY <1>1 DEF HandlersStep, HandlersFail, HandlerActs
  <2>2. \A k \in Handlers, f \in Files : WorksOn(k, f)' => WorksOn(k, f)
    BY <2>1, HandlerTouches DEF WorksOn
  <2>3. UNCHANGED <<rebuild, raced>>
    BY <2>1, HandlerTouches
  <2> QED  BY <2>2, <2>3 DEF JobAlone
<1>2. CASE RebuildSteps \/ RebuildFails
  <2>1. UNCHANGED <<job, raced>> /\ rebuild.step # "idle"
    BY <1>2 DEF RebuildSteps, RebuildBegins, RebuildStages, RebuildSwaps, RebuildCopies,
         RebuildActivates, RebuildRetires, RebuildEnds, RebuildFails, StagingFails, SwapFails,
         CommitFails, RebuildGivesUp
  <2> QED  BY <2>1 DEF JobAlone, WorksOn
<1>3. CASE FilesReported \/ Retries
  <2>1. UNCHANGED <<job, raced, rebuild>>
    BY <1>3 DEF FilesReported, Retries, Report, SweepRetries
  <2> QED  BY <2>1 DEF JobAlone, WorksOn
<1>4. CASE EventsTaken
  <2>1. PICK h \in Handlers, f \in Files : Begin(h, f)
    BY <1>4 DEF EventsTaken
  <2>2. /\ \A k \in Handlers \ {h} : job'[k] = job[k]
        /\ job'[h].file = f /\ job[h].step = "idle" /\ UNCHANGED rebuild
    BY <2>1 DEF Begin, Idle, IndexInv, TypeOK
  <2>3. /\ raced \subseteq raced'
        /\ f \notin raced' => rebuild.step = "idle" /\ \A k \in Handlers : ~WorksOn(k, f)
    BY <2>1 DEF Begin, Meets, WorksOn
  <2>4. \A k \in Handlers, e \in Files \ {f} : WorksOn(k, e)' => WorksOn(k, e)
    BY <2>2 DEF WorksOn
  <2>5. \A k \in Handlers : WorksOn(k, f)' => WorksOn(k, f) \/ k = h
    BY <2>2 DEF WorksOn
  <2> QED  BY <2>2, <2>3, <2>4, <2>5 DEF JobAlone
<1>5. CASE RebuildReads
  <2>1. UNCHANGED job /\ raced' = raced \cup ({job[h].file : h \in Handlers} \cap Files)
    BY <1>5 DEF RebuildReads
  <2> QED  BY <2>1 DEF JobAlone, WorksOn
<1>6. CASE Restarts
  BY <1>6 DEF Restarts, JobAlone, WorksOn, Idle
<1>7. CASE UNCHANGED vars
  BY <1>7 DEF vars, JobAlone, WorksOn
<1> QED  BY <1>1, <1>2, <1>3, <1>4, <1>5, <1>6, <1>7 DEF Next

\* What the one handler of a file does to it.
LEMMA OwnFileStep ==
  ASSUME IndexInv, NEW h \in Handlers, HandlerActs(h), NEW f \in Files,
         f = job[h].file, f \notin raced, JobFits(h, f), FileFound(f), FileMatches(f)
  PROVE  /\ job'[h].step # "idle" => JobFits(h, f)'
         /\ FileFound(f)'
         /\ job'[h].step = "idle" => FileMatches(f)'
<1>1. /\ active \in [Files -> MaybeGeneration] /\ pending \in [Files -> MaybeGeneration]
      /\ UNCHANGED <<disk, raced>> /\ owed \subseteq owed'
      /\ job'[h].step # "idle" => job'[h].gen = job[h].gen
  BY HandlerTouches DEF IndexInv, CatalogInv, CatalogTypeOK
<1>2. CASE Stages(h)
  <2>1. /\ job'[h].step = "add" /\ UNCHANGED <<active, missed, vectors>>
        /\ pending'[f] = job[h].gen
    BY <1>1, <1>2, HandlerMoves DEF JobMoves, Stages, StageGeneration
  <2> QED  BY <1>1, <2>1 DEF JobFits, FileFound
<1>3. CASE AddsRows(h)
  <2>1. /\ job[h].step = "add" /\ job'[h].step = "activate" /\ UNCHANGED <<active, pending, missed>>
        /\ vectors' = vectors \cup {<<f, job[h].gen, "pending">>}
    BY <1>3, HandlerMoves DEF JobMoves, AddsRows, catalogVars
  <2> QED  BY <1>1, <2>1 DEF JobFits, FileFound
<1>4. CASE Activates(h)
  <2>1. job[h].step = "activate" /\ pending[f] = job[h].gen /\ UNCHANGED vectors
    BY <1>4, HandlerMoves DEF JobFits, Activates
  <2>2. ActivateGeneration(f, job[h].gen, active[f], epoch) /\ missed' = missed \cup {f} /\ holder' = h
    BY <1>4, <2>1 DEF Activates, MayActivate, Expects
  <2>3. job'[h].step = "show"
    <3>1. holder' # Nobody
      BY <2>2, HandlersAssumption DEF Nobody
    <3> QED  BY <1>4, <3>1, HandlerMoves DEF JobMoves
  <2>4. active'[f] = job[h].gen
    BY <1>1, <2>2 DEF ActivateGeneration
  <2> QED  BY <1>1, <2>1, <2>2, <2>3, <2>4 DEF JobFits, FileFound
<1>5. CASE Shows(h)
  <2>1. /\ job[h].step = "show" /\ UNCHANGED <<active, pending>>
        /\ vectors' = RowsShown(f, job[h].gen)
        /\ job'[h].step \in {"idle", "drop"}
        /\ job'[h].step = "drop" => UNCHANGED missed
        /\ missed' \in {missed, missed \ {f}}
    BY <1>5, HandlerMoves DEF JobMoves, Shows, catalogVars
  <2>2. <<f, job[h].gen, "active">> \in vectors' /\ active[f] = job[h].gen
    BY <2>1 DEF JobFits, RowsShown
  <2>3. FileFound(f)'
    BY <2>1, <2>2 DEF FileFound
  <2>4. job'[h].step # "idle" => JobFits(h, f)'
    BY <1>1, <2>1, <2>2 DEF JobFits
  <2>5. FileMatches(f)'
    BY <1>1, <2>1, <2>2 DEF JobFits, FileMatches
  <2> QED  BY <2>3, <2>4, <2>5
<1>6. CASE Drops(h)
  <2>1. /\ job[h].step = "drop" /\ UNCHANGED <<active, pending>> /\ job'[h].step = "idle"
        /\ vectors' = RowsRemoved(f, job[h].expected)
        /\ missed' = IF job[h].gen = job[h].expected THEN missed ELSE missed \ {f}
    BY <1>6, HandlerMoves DEF JobMoves, Drops, catalogVars
  <2>2. active[f] = job[h].gen /\ (job[h].gen # None => f \in missed)
    BY <2>1 DEF JobFits
  <2>3. job[h].gen \notin {None, job[h].expected} => <<f, job[h].gen, "active">> \in vectors'
    BY <2>1 DEF JobFits, RowsRemoved
  <2>4. FileFound(f)'
    BY <2>1, <2>2, <2>3 DEF FileFound
  <2>5. FileMatches(f)'
    BY <1>1, <2>1, <2>2 DEF JobFits, FileMatches
  <2> QED  BY <2>1, <2>4, <2>5
<1>7. CASE Retires(h)
  <2>1. /\ job[h].step = "retire" /\ job[h].gen = None /\ UNCHANGED <<missed, vectors>>
        /\ active'[f] = None /\ job'[h].step \in {"drop", "idle"}
    BY <1>1, <1>7, HandlerMoves DEF JobMoves, JobFits, Retires, RetireFile, RetireFiles
  <2> QED  BY <1>1, <2>1 DEF JobFits, FileFound, FileMatches
<1>8. CASE Fails(h)
  <2>1. /\ job'[h].step = "idle" /\ f \in owed' /\ UNCHANGED <<active, missed, vectors>>
    BY <1>8, HandlerMoves DEF JobMoves, Fails, ClearPending, catalogVars
  <2> QED  BY <1>1, <2>1 DEF FileFound, FileMatches
<1>9. CASE GivesUp(h)
  <2>1. /\ job'[h].step = "idle" /\ f \in owed' \cup failed' /\ UNCHANGED <<active, missed, vectors>>
    BY <1>9, HandlerMoves DEF JobMoves, GivesUp, catalogVars
  <2> QED  BY <1>1, <2>1 DEF FileFound, FileMatches
<1> QED  BY <1>2, <1>3, <1>4, <1>5, <1>6, <1>7, <1>8, <1>9 DEF HandlerActs

\* A step of a handler, for the files it has and those it has not.
LEMMA HandlersFit ==
  ASSUME IndexInv, JobAlone, JobsFit, FilesFound, FilesMatch, HandlersStep \/ HandlersFail
  PROVE  JobsFit' /\ FilesFound' /\ FilesMatch'
<1>1. PICK h \in Handlers : HandlerActs(h)
  BY DEF HandlersStep, HandlersFail, HandlerActs
<1>2. /\ job[h].step # "idle" /\ job[h].file \in Files
      /\ \A k \in Handlers \ {h} : job'[k] = job[k]
      /\ job'[h].step # "idle" => job'[h].file = job[h].file /\ job'[h].gen = job[h].gen
      /\ \A f \in Files \ {job[h].file} : FileKept(f)
      /\ UNCHANGED <<disk, rebuild, raced>>
      /\ owed \subseteq owed'
  BY <1>1, HandlerTouches
<1>3. ASSUME NEW f \in Files, f # job[h].file
      PROVE  /\ \A k \in Handlers : f \notin raced' /\ WorksOn(k, f)' => JobFits(k, f)'
             /\ FileFound(f)' /\ FileMatches(f)'
  <2>1. FileKept(f) /\ \A k \in Handlers : WorksOn(k, f)' <=> WorksOn(k, f)
    BY <1>2, <1>3 DEF WorksOn
  <2>2. ASSUME NEW k \in Handlers, f \notin raced', WorksOn(k, f)'
        PROVE  JobFits(k, f)'
    <3>1. job'[k] = job[k] /\ JobFits(k, f)
      BY <1>2, <1>3, <2>1, <2>2 DEF JobsFit, WorksOn
    <3>2. /\ active'[f] = active[f] /\ pending'[f] = pending[f]
          /\ \A s : <<f, job[k].gen, s>> \in vectors' <=> <<f, job[k].gen, s>> \in vectors
          /\ f \in missed' <=> f \in missed
          /\ f \in owed' <=> f \in owed
      BY <2>1 DEF FileKept
    <3> QED  BY <1>2, <3>1, <3>2 DEF JobFits
  <2>3. FileFound(f)'
    BY <1>2, <2>1 DEF FileKept, FilesFound, FileFound
  <2>4. FileMatches(f)'
    BY <1>2, <2>1 DEF FileKept, FilesMatch, FileMatches
  <2> QED  BY <2>2, <2>3, <2>4
<1>4. ASSUME NEW f \in Files, f = job[h].file
      PROVE  /\ \A k \in Handlers : f \notin raced' /\ WorksOn(k, f)' => JobFits(k, f)'
             /\ FileFound(f)' /\ FileMatches(f)'
  <2>1. CASE f \in raced
    BY <1>2, <2>1 DEF FileFound, FileMatches
  <2>2. CASE f \notin raced
    <3>1. JobFits(h, f) /\ FileFound(f) /\ FileMatches(f)
      BY <1>2, <1>4, <2>2 DEF JobsFit, FilesFound, FilesMatch, WorksOn
    <3>2. /\ job'[h].step # "idle" => JobFits(h, f)'
          /\ FileFound(f)'
          /\ job'[h].step = "idle" => FileMatches(f)'
      BY <1>1, <1>4, <2>2, <3>1, OwnFileStep
    <3>3. \A k \in Handlers : WorksOn(k, f)' => k = h /\ job'[h].step # "idle"
      BY <1>2, <1>4, <2>2 DEF JobAlone, WorksOn
    <3>4. job'[h].step # "idle" => FileMatches(f)'
      BY <1>2, <1>4 DEF FileMatches, WorksOn
    <3> QED  BY <3>2, <3>3, <3>4
  <2> QED  BY <2>1, <2>2
<1> QED  BY <1>3, <1>4 DEF JobsFit, FilesFound, FilesMatch

\* A rebuild is alone with the files that are not raced, and at its end they
\* are as it read them.
LEMMA RebuildFits ==
  ASSUME IndexInv, RebuildInv, JobAlone, ReadsDisk, FilesFound, FilesMatch,
         RebuildSteps \/ RebuildFails
  PROVE  JobsFit' /\ FilesFound' /\ FilesMatch'
<1>1. /\ rebuild.step # "idle" /\ UNCHANGED <<job, raced, disk, owed>>
      /\ RebuildEnds \/ UNCHANGED failed
  BY DEF RebuildSteps, RebuildBegins, RebuildStages, RebuildSwaps, RebuildCopies,
         RebuildActivates, RebuildRetires, RebuildEnds, RebuildFails, StagingFails, SwapFails,
         CommitFails, RebuildGivesUp, project
<1>2. \A h \in Handlers, f \in Files \ raced : ~WorksOn(h, f)
  BY <1>1 DEF JobAlone
<1>3. JobsFit'
  BY <1>1, <1>2 DEF JobsFit, WorksOn
<1>4. CASE RebuildBegins \/ RebuildStages \/ StagingFails
  <2>1. UNCHANGED <<active, missed, vectors, failed>>
    BY <1>4 DEF RebuildBegins, RebuildStages, StagingFails, RebuildGivesUp, StageGeneration,
         ClearPending
  <2>2. FilesFound'
    BY <1>1, <2>1 DEF FilesFound, FileFound
  <2>3. FilesMatch'
    BY <1>1, <2>1 DEF FilesMatch, FileMatches, WorksOn
  <2> QED  BY <1>3, <2>2, <2>3
<1>5. CASE \/ RebuildSwaps \/ RebuildCopies \/ RebuildActivates \/ RebuildRetires
           \/ SwapFails \/ CommitFails
  <2>1. missed' = Files
    BY <1>5 DEF RebuildInv, RebuildSwaps, RebuildCopies, RebuildActivates, RebuildRetires,
         SwapFails, CommitFails
  <2> QED  BY <1>3, <2>1 DEF FilesFound, FileFound, FilesMatch, FileMatches
<1>6. CASE RebuildEnds
  <2>1. /\ rebuild.step = "commit" /\ rebuild.activated = rebuild.todo /\ Outdated = {}
        /\ UNCHANGED <<active, vectors>>
    BY <1>6 DEF RebuildEnds, catalogVars
  <2>2. /\ vectors = {<<r[1], r[2], "active">> : r \in rebuild.todo}
        /\ \A r \in rebuild.todo : active[r[1]] = r[2]
        /\ \A f \in Files \ FilesOf(rebuild.todo) : active[f] \in {rebuild.before[f], None}
    BY <2>1 DEF RebuildInv
  <2>3. \A f \in Files \ FilesOf(rebuild.todo) : active[f] = None
    BY <2>1, <2>2 DEF Outdated
  <2>4. \A f \in Files : active[f] # None => <<f, active[f], "active">> \in vectors
    BY <2>2, <2>3 DEF FilesOf
  <2>5. ASSUME NEW f \in Files \ (raced \cup owed)
        PROVE  active[f] = disk[f] \/ f \in failed'
    <3>1. CASE f \in FilesOf(rebuild.todo)
      <4>1. PICK r \in rebuild.todo : r[1] = f
        BY <3>1 DEF FilesOf
      <4> QED  BY <1>1, <2>2, <4>1 DEF ReadsDisk
    <3>2. CASE f \notin FilesOf(rebuild.todo)
      <4>1. active[f] = None /\ failed' = failed \ FilesOf(rebuild.todo)
        BY <1>6, <2>3, <3>2 DEF RebuildEnds
      <4> QED  BY <1>1, <3>2, <4>1 DEF ReadsDisk
    <3> QED  BY <3>1, <3>2
  <2> QED  BY <1>1, <1>3, <2>1, <2>4, <2>5 DEF FilesFound, FileFound, FilesMatch, FileMatches
<1> QED  BY <1>4, <1>5, <1>6 DEF RebuildSteps, RebuildFails

LEMMA OthersFit ==
  ASSUME IndexInv, JobAlone, JobsFit, FilesFound, FilesMatch,
         FilesReported \/ EventsTaken \/ Retries \/ RebuildReads \/ Restarts
  PROVE  JobsFit' /\ FilesFound' /\ FilesMatch'
<1>1. job \in [Handlers -> Jobs] /\ disk \in [Files -> MaybeGeneration]
  BY DEF IndexInv, TypeOK
<1>2. CASE FilesReported
  <2>1. PICK e \in Files : Report(e)
    BY <1>2 DEF FilesReported
  <2>2. /\ UNCHANGED <<active, pending, job, vectors, missed, raced, failed>>
        /\ owed' = owed \cup {e} /\ \A f \in Files \ {e} : disk'[f] = disk[f]
    BY <1>1, <2>1 DEF Report, catalogVars
  <2>3. JobsFit'
    BY <2>2 DEF JobsFit, JobFits, WorksOn
  <2>4. FilesFound'
    BY <2>2 DEF FilesFound, FileFound
  <2>5. FilesMatch'
    BY <2>2 DEF FilesMatch, FileMatches, WorksOn
  <2> QED  BY <2>3, <2>4, <2>5
<1>3. CASE EventsTaken
  <2>1. PICK h \in Handlers, e \in Files : Begin(h, e)
    BY <1>3 DEF EventsTaken
  <2>2. /\ UNCHANGED <<active, pending, vectors, missed, disk>>
        /\ owed' = owed \ {e} /\ raced \subseteq raced' /\ failed' = failed \ {e}
        /\ \A k \in Handlers \ {h} : job'[k] = job[k]
        /\ job[h].step = "idle"
    BY <2>1 DEF Begin, Meets, Idle, catalogVars
  <2>3. job'[h] = [step |-> IF disk[e] = None THEN "retire" ELSE "stage",
                   file |-> e, gen |-> disk[e], expected |-> None]
    BY <1>1, <2>1 DEF Begin
  <2>4. \A k \in Handlers, f \in Files \ {e} : WorksOn(k, f)' <=> WorksOn(k, f)
    BY <2>2, <2>3 DEF WorksOn
  <2>5. e \notin raced' => \A k \in Handlers : ~WorksOn(k, e)
    BY <2>1 DEF Begin, Meets, WorksOn
  <2>6. \A k \in Handlers : e \notin raced' /\ WorksOn(k, e)' => k = h
    BY <2>2, <2>5 DEF WorksOn
  <2>7. JobsFit'
    <3>1. JobFits(h, e)'
      BY <2>2, <2>3 DEF JobFits
    <3>2. ASSUME NEW k \in Handlers, NEW f \in Files \ {e}, f \notin raced', WorksOn(k, f)'
          PROVE  JobFits(k, f)'
      <4>1. k # h
        BY <2>3, <3>2 DEF WorksOn
      <4>2. JobFits(k, f) /\ job'[k] = job[k]
        BY <2>2, <2>4, <3>2, <4>1 DEF JobsFit
      <4> QED  BY <2>2, <4>2 DEF JobFits
    <3> QED  BY <2>6, <3>1, <3>2 DEF JobsFit
  <2>8. FilesFound'
    BY <2>2 DEF FilesFound, FileFound
  <2>9. FilesMatch'
    <3>1. WorksOn(h, e)'
      BY <2>3 DEF WorksOn
    <3>2. FileMatches(e)'
      BY <3>1 DEF FileMatches
    <3>3. \A f \in Files \ {e} : FileMatches(f)'
      BY <2>2, <2>4 DEF FilesMatch, FileMatches
    <3> QED  BY <3>2, <3>3 DEF FilesMatch
  <2> QED  BY <2>7, <2>8, <2>9
<1>4. CASE RebuildReads \/ Retries
  <2>1. /\ UNCHANGED <<active, pending, job, vectors, missed, disk>>
        /\ owed \subseteq owed' /\ raced \subseteq raced' /\ failed \subseteq failed'
    BY <1>4 DEF RebuildReads, Retries, SweepRetries, project, catalogVars
  <2>2. JobsFit'
    BY <2>1 DEF JobsFit, JobFits, WorksOn
  <2>3. FilesFound'
    BY <2>1 DEF FilesFound, FileFound
  <2>4. FilesMatch'
    BY <2>1 DEF FilesMatch, FileMatches, WorksOn
  <2> QED  BY <2>2, <2>3, <2>4
<1>5. CASE Restarts
  <2>1. /\ UNCHANGED <<active, vectors, disk, raced, failed>>
        /\ missed' = missed \cup owed \cup ({job[h].file : h \in Handlers} \cap Files)
        /\ job' = [h \in Handlers |-> Idle]
    BY <1>5 DEF Restarts, catalogVars
  <2>2. JobsFit'
    BY <2>1 DEF JobsFit, WorksOn, Idle
  <2>3. FilesFound'
    BY <2>1 DEF FilesFound, FileFound
  <2>4. ASSUME NEW f \in Files PROVE FileMatches(f)'
    <3>1. f \in owed \/ (\E h \in Handlers : WorksOn(h, f)) => f \in missed'
      BY <2>1 DEF WorksOn
    <3> QED  BY <2>1, <3>1 DEF FilesMatch, FileMatches
  <2> QED  BY <2>2, <2>3, <2>4 DEF FilesMatch
<1> QED  BY <1>2, <1>3, <1>4, <1>5

LEMMA ReadsStep ==
  ASSUME IndexInv, ReadsDisk, [Next]_vars
  PROVE  ReadsDisk'
<1>1. rebuild \in Rebuilds /\ disk \in [Files -> MaybeGeneration]
  BY DEF IndexInv, TypeOK
<1>2. CASE HandlersStep \/ HandlersFail
  <2>1. PICK h \in Handlers : HandlerActs(h)
    BY <1>2 DEF HandlersStep, HandlersFail, HandlerActs
  <2>2. UNCHANGED <<disk, rebuild, raced>> /\ owed \subseteq owed' /\ failed \subseteq failed'
    BY <2>1, HandlerTouches
  <2> QED  BY <2>2 DEF ReadsDisk
<1>3. CASE RebuildSteps
  <2>1. UNCHANGED <<disk, owed, raced>> /\ rebuild.step # "idle"
    BY <1>3 DEF RebuildSteps, RebuildBegins, RebuildStages, RebuildSwaps, RebuildCopies,
         RebuildActivates, RebuildRetires, RebuildEnds, project
  <2>2. CASE RebuildEnds
    BY <2>2 DEF ReadsDisk, RebuildEnds, NoRebuild
  <2>3. CASE ~RebuildEnds
    <3>1. rebuild'.todo = rebuild.todo /\ UNCHANGED failed
      BY <1>1, <1>3, <2>3 DEF RebuildSteps, RebuildBegins, RebuildStages, RebuildSwaps,
           RebuildCopies, RebuildActivates, RebuildRetires, Rebuilds
    <3> QED  BY <2>1, <3>1 DEF ReadsDisk
  <2> QED  BY <2>2, <2>3
<1>4. CASE RebuildFails \/ Restarts
  <2>1. rebuild'.step = "idle"
    BY <1>4 DEF RebuildFails, StagingFails, SwapFails, CommitFails, RebuildGivesUp, Restarts,
         NoRebuild
  <2> QED  BY <2>1 DEF ReadsDisk
<1>5. CASE FilesReported
  <2>1. PICK e \in Files : Report(e)
    BY <1>5 DEF FilesReported
  <2>2. /\ UNCHANGED <<rebuild, raced, failed>>
        /\ owed' = owed \cup {e} /\ \A f \in Files \ {e} : disk'[f] = disk[f]
    BY <1>1, <2>1 DEF Report
  <2> QED  BY <2>2 DEF ReadsDisk
<1>6. CASE EventsTaken
  <2>1. PICK h \in Handlers, e \in Files : Begin(h, e)
    BY <1>6 DEF EventsTaken
  <2>2. /\ UNCHANGED <<rebuild, disk>> /\ owed' = owed \ {e} /\ raced \subseteq raced'
        /\ failed' = failed \ {e}
        /\ rebuild.step # "idle" => e \in raced'
    BY <2>1 DEF Begin, Meets
  <2> QED  BY <2>2 DEF ReadsDisk
<1>7. CASE RebuildReads
  <2>1. PICK skipped :
          /\ failed' = failed \cup skipped
          /\ rebuild' = [NoRebuild EXCEPT !.step = "enter",
                           !.todo = {<<f, disk[f]>> : f \in Present \ skipped}]
    BY <1>7 DEF RebuildReads
  <2>2. UNCHANGED disk /\ rebuild'.todo = {<<f, disk[f]>> : f \in Present \ skipped}
    BY <1>7, <2>1 DEF RebuildReads, NoRebuild, project
  <2>3. ASSUME NEW f \in Files, disk[f] # None
        PROVE  f \in FilesOf(rebuild'.todo) \cup failed'
    <3>1. CASE f \in skipped
      BY <2>1, <3>1
    <3>2. CASE f \notin skipped
      <4>1. <<f, disk[f]>> \in rebuild'.todo
        BY <2>2, <2>3, <3>2 DEF Present
      <4> QED  BY <4>1 DEF FilesOf
    <3> QED  BY <3>1, <3>2
  <2>4. \A r \in rebuild'.todo : r[2] = disk[r[1]]
    BY <2>2
  <2> QED  BY <2>2, <2>3, <2>4 DEF ReadsDisk, FilesOf
<1>8. CASE UNCHANGED vars
  BY <1>8 DEF vars, project, ReadsDisk
<1>9. CASE Retries
  BY <1>9 DEF Retries, SweepRetries, ReadsDisk
<1> QED  BY <1>2, <1>3, <1>4, <1>5, <1>6, <1>7, <1>8, <1>9 DEF Next

-----------------------------------------------------------------------------
FilesInv ==
  RebuildSafe /\ JobAlone /\ JobsFit /\ ReadsDisk /\ FilesFound /\ FilesMatch

LEMMA FilesInvInit == Init => FilesInv
<1> SUFFICES ASSUME Init PROVE FilesInv
  OBVIOUS
<1>1. RebuildSafe
  BY RebuildSafeInit
<1>2. JobAlone /\ JobsFit
  BY DEF Init, JobAlone, JobsFit, WorksOn, Idle
<1>3. ReadsDisk
  BY DEF Init, ReadsDisk, NoRebuild
<1>4. FilesFound
  BY DEF Init, CatalogInit, FilesFound, FileFound
<1>5. FilesMatch
  BY DEF Init, CatalogInit, FilesMatch, FileMatches, Present
<1> QED  BY <1>1, <1>2, <1>3, <1>4, <1>5 DEF FilesInv

LEMMA FilesInvStep == FilesInv /\ [Next]_vars => FilesInv'
<1> SUFFICES ASSUME FilesInv, [Next]_vars PROVE FilesInv'
  OBVIOUS
<1>1. /\ IndexInv /\ RebuildInv /\ JobAlone /\ JobsFit /\ ReadsDisk
      /\ FilesFound /\ FilesMatch
  BY DEF FilesInv, RebuildSafe
<1>2. RebuildSafe' /\ JobAlone' /\ ReadsDisk'
  BY <1>1, RebuildSafeStep, AloneStep, ReadsStep DEF FilesInv
<1>3. JobsFit' /\ FilesFound' /\ FilesMatch'
  <2>1. CASE UNCHANGED vars
    <3>1. JobsFit'
      BY <1>1, <2>1 DEF vars, catalogVars, project, JobsFit, JobFits, WorksOn
    <3>2. FilesFound' /\ FilesMatch'
      BY <1>1, <2>1 DEF vars, catalogVars, project, FilesFound, FileFound, FilesMatch,
           FileMatches, WorksOn
    <3> QED  BY <3>1, <3>2
  <2> QED  BY <1>1, <2>1, HandlersFit, RebuildFits, OthersFit DEF Next
<1> QED  BY <1>2, <1>3 DEF FilesInv

LEMMA FilesInvHolds == Spec => []FilesInv
BY FilesInvInit, FilesInvStep, PTL DEF Spec

\* A file that has an active generation is found by a search of the vectors,
\* though no transaction spans the two stores, unless its last update failed or
\* is under way, or two were at work on the file.
THEOREM ActiveStaysFound == Spec => []ActiveIsFound
<1>1. FilesInv => ActiveIsFound
  <2> SUFFICES ASSUME FilesInv, NEW f \in Files, active[f] # None, f \notin missed \cup raced
               PROVE  <<f, active[f]>> \in Found
    BY DEF ActiveIsFound
  <2>1. <<f, active[f], "active">> \in vectors
    BY DEF FilesInv, FilesFound, FileFound
  <2> QED  BY <2>1 DEF Found, Shown
<1> QED  BY <1>1, FilesInvHolds, PTL

\* With no event to come, no handler and no rebuild at work, the catalog has the
\* generation that is on the disk, unless an update failed or met another one or
\* the file is left to the dead-letter queue.
THEOREM QuietIndexMatches == Spec => []QuietMatchesDisk
<1>1. FilesInv => QuietMatchesDisk
  <2> SUFFICES ASSUME FilesInv, Quiet, NEW f \in Files \ (missed \cup raced \cup failed)
               PROVE  active[f] = disk[f]
    BY DEF QuietMatchesDisk
  <2>1. f \notin owed /\ \A h \in Handlers : ~WorksOn(h, f)
    BY DEF Quiet, WorksOn, Idle
  <2> QED  BY <2>1 DEF FilesInv, FilesMatch, FileMatches
<1> QED  BY <1>1, FilesInvHolds, PTL
=============================================================================
