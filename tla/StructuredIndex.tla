---------------------------- MODULE StructuredIndex ----------------------------
(***************************************************************************)
(* The coordinator of the structured index                                 *)
(* (src/indexer/structured-index-coordinator.ts): it keeps the catalog in  *)
(* SQLite and the vector rows in LanceDB (src/storage/vector-store.ts) in  *)
(* step, though no transaction spans the two.  Handlers stage, activate    *)
(* and delete files one by one, while a full rebuild stages all files in a *)
(* shadow table, swaps it in and then activates them.  A mutex serves      *)
(* them one at a time, but a handler releases it between its two halves.   *)
(*                                                                         *)
(* Rows of vectors that differ in nothing but their number are one row.    *)
(***************************************************************************)
EXTENDS StructuredCatalog

CONSTANTS
  Handlers,     \* event handlers that run side by side
  MaxReports,   \* bound: events and reindexes of single files
  MaxFailures,  \* bound: failed calls of a store
  MaxCrashes    \* bound: crashes of the process

\* Handlers are not among the other names of the mutex's holder.
ASSUME HandlersAssumption == Handlers # {} /\ Handlers \cap {"nobody", "rebuilder"} = {}
ASSUME StructuredBoundsAssumption ==
  MaxReports \in Nat /\ MaxFailures \in Nat /\ MaxCrashes \in Nat

VARIABLES
  disk,       \* content of every file, None when there is none
  owed,       \* files with an event to come
  reports,
  holder,     \* who has the mutex of ProjectWriteCoordinator
  job,        \* what every handler is doing
  rebuild,    \* runFullRebuild()
  state,      \* index_stats.structured_rebuild_state
  vectors,    \* rows of the structured table
  shadow,     \* rows of the shadow table
  failures,
  crashes,
  missed,     \* history: files whose last update did not reach its end
  raced,      \* history: files that two were at work on
  failed      \* history: files whose last reading was not embedded, or not parsed

project == <<disk, owed, reports>>
vars ==
  <<catalogVars, project, holder, job, rebuild, state, vectors, shadow, failures, crashes,
    missed, raced, failed>>

-----------------------------------------------------------------------------
Nobody == "nobody"
Rebuilder == "rebuilder"

NoFile == "none"
Idle == [step |-> "idle", file |-> NoFile, gen |-> None, expected |-> None]
NoRebuild == [step |-> "idle", todo |-> {}, staged |-> {}, activated |-> {},
              before |-> [f \in Files |-> None]]

Present == {f \in Files : disk[f] # None}
FilesOf(rows) == {r[1] : r \in rows}

Shown == {<<v[1], v[2]>> : v \in {w \in vectors : w[3] = "active"}}

\* What a search returns: SemanticSearch drops rows of generations that are not
\* active.
Found == {r \in Shown : active[r[1]] = r[2]}

\* Work begins on a file.
Meets(f) ==
  IF (\E h \in Handlers : job[h].file = f) \/ rebuild.step # "idle"
  THEN raced \cup {f} ELSE raced

-----------------------------------------------------------------------------
\* A file changes, or is reported without a change.
Report(f) ==
  /\ reports < MaxReports
  /\ reports' = reports + 1
  /\ \E c \in MaybeGeneration : disk' = [disk EXCEPT ![f] = c]
  /\ owed' = owed \cup {f}
  /\ UNCHANGED <<catalogVars, holder, job, rebuild, state, vectors, shadow, failures, crashes,
                 missed, raced, failed>>

\* A handler takes an event and reads the file; a file without declarations is
\* retired as one that is gone.
Begin(h, f) ==
  /\ job[h] = Idle
  /\ f \in owed
  /\ owed' = owed \ {f}
  /\ job' = [job EXCEPT ![h] =
       [step |-> IF disk[f] = None THEN "retire" ELSE "stage",
        file |-> f, gen |-> disk[f], expected |-> None]]
  /\ raced' = Meets(f)
  /\ failed' = failed \ {f}
  /\ UNCHANGED <<catalogVars, disk, reports, holder, rebuild, state, vectors, shadow, failures,
                 crashes, missed>>

\* Handlers run without the mutex.
MutantMayEnter(h, step) == job[h].step = step

MayEnter(h, step) == job[h].step = step /\ holder = Nobody

Advance(h, step) == job' = [job EXCEPT ![h].step = step]
Done(h) == job' = [job EXCEPT ![h] = Idle] /\ holder' = Nobody

\* stageFile(): the catalog ...
Stages(h) ==
  /\ MayEnter(h, "stage")
  /\ holder' = h
  /\ job' = [job EXCEPT ![h].step = "add", ![h].expected = active[job[h].file]]
  /\ StageGeneration(job[h].file, job[h].gen, epoch)
  /\ UNCHANGED <<project, rebuild, state, vectors, shadow, failures, crashes, missed, raced, failed>>

\* ... and the vectors.
AddsRows(h) ==
  /\ job[h].step = "add"
  /\ vectors' = vectors \cup {<<job[h].file, job[h].gen, "pending">>}
  /\ Advance(h, "activate")
  /\ holder' = Nobody
  /\ UNCHANGED <<catalogVars, project, rebuild, state, shadow, failures, crashes, missed, raced, failed>>

\* activateFile(): the catalog, unless the generation is no longer pending, ...
Activates(h) ==
  /\ MayEnter(h, "activate")
  /\ \E f \in Files : f = job[h].file /\
       LET g == job[h].gen
           x == active[f]
       IN  \/ /\ ActivateGeneration(f, g, x, epoch)
              /\ holder' = h
              /\ job' = [job EXCEPT ![h].step = "show", ![h].expected = x]
              /\ missed' = missed \cup {f}
           \/ /\ ~MayActivate(f, g, x, epoch)
              /\ Done(h)
              /\ UNCHANGED <<catalogVars, missed>>
  /\ UNCHANGED <<project, rebuild, state, vectors, shadow, failures, crashes, raced, failed>>

RowsShown(f, g) ==
  IF <<f, g, "pending">> \in vectors
  THEN (vectors \ {<<f, g, "pending">>}) \cup {<<f, g, "active">>}
  ELSE vectors

RowsRemoved(f, g) == {v \in vectors : v[1] # f \/ v[2] # g}

\* ... its rows, ...
Shows(h) ==
  /\ job[h].step = "show"
  /\ vectors' = RowsShown(job[h].file, job[h].gen)
  /\ IF job[h].expected = None
     THEN Done(h) /\ missed' = missed \ {job[h].file}
     ELSE Advance(h, "drop") /\ UNCHANGED <<holder, missed>>
  /\ UNCHANGED <<catalogVars, project, rebuild, state, shadow, failures, crashes, raced, failed>>

\* ... and those of the generation that was active, be it the same.
Drops(h) ==
  /\ job[h].step = "drop"
  /\ vectors' = RowsRemoved(job[h].file, job[h].expected)
  /\ missed' = IF job[h].gen = job[h].expected THEN missed ELSE missed \ {job[h].file}
  /\ Done(h)
  /\ UNCHANGED <<catalogVars, project, rebuild, state, shadow, failures, crashes, raced, failed>>

\* deleteFile()
Retires(h) ==
  /\ MayEnter(h, "retire")
  /\ LET x == active[job[h].file]
     IN  /\ RetireFile(job[h].file, x, epoch)
         /\ IF x = None
            THEN Done(h)
            ELSE /\ holder' = h
                 /\ job' = [job EXCEPT ![h].step = "drop", ![h].expected = x]
  /\ UNCHANGED <<project, rebuild, state, vectors, shadow, failures, crashes, missed, raced, failed>>

\* A call of a store fails; the event goes back to the queue.
Fails(h) ==
  /\ failures < MaxFailures
  /\ failures' = failures + 1
  /\ job[h].step \in {"add", "show", "drop"}
  /\ IF job[h].step = "add"
     THEN ClearPending({job[h].file})
     ELSE UNCHANGED catalogVars
  /\ Done(h)
  /\ owed' = owed \cup {job[h].file}
  /\ UNCHANGED <<disk, reports, rebuild, state, vectors, shadow, crashes, missed, raced, failed>>

\* The file's chunks are not embedded, or the file is not parsed, and it goes to
\* the dead-letter queue; any other error gives the event back.
GivesUp(h) ==
  /\ failures < MaxFailures
  /\ failures' = failures + 1
  /\ job[h].step \in {"stage", "retire"}
  /\ job' = [job EXCEPT ![h] = Idle]
  /\ \/ failed' = failed \cup {job[h].file} /\ UNCHANGED owed
     \/ owed' = owed \cup {job[h].file} /\ UNCHANGED failed
  /\ UNCHANGED <<catalogVars, disk, reports, holder, rebuild, state, vectors, shadow, crashes,
                 missed, raced>>

\* The sweep of the dead-letter queue tries a file again, as an event would;
\* whether it ever does is a matter of DeadLetterQueue, which may drop the file.
SweepRetries(f) ==
  /\ f \in failed \ owed
  /\ owed' = owed \cup {f}
  /\ UNCHANGED <<catalogVars, disk, reports, holder, job, rebuild, state, vectors, shadow, failures,
                 crashes, missed, raced, failed>>

-----------------------------------------------------------------------------
\* runFullRebuild()

\* The pipeline has read the project, but for a file it failed to embed, which
\* goes to the dead-letter queue. The rebuild will retire it.
RebuildReads ==
  /\ rebuild = NoRebuild
  /\ \E skipped \in {{}} \cup {{f} : f \in Present} :
       /\ failures' = failures + Cardinality(skipped)
       /\ failures' <= MaxFailures
       /\ failed' = failed \cup skipped
       /\ rebuild' = [NoRebuild EXCEPT !.step = "enter",
                        !.todo = {<<f, disk[f]>> : f \in Present \ skipped}]
  /\ epoch < MaxEpoch
  /\ raced' = raced \cup ({job[h].file : h \in Handlers} \cap Files)
  /\ UNCHANGED <<catalogVars, project, holder, job, state, vectors, shadow, crashes, missed>>

RebuildBegins ==
  /\ rebuild.step = "enter"
  /\ holder = Nobody
  /\ holder' = Rebuilder
  /\ IncrementEpoch
  /\ state' = "building"
  /\ rebuild' = [rebuild EXCEPT !.step = "stage", !.before = active]
  /\ shadow' = {}
  /\ UNCHANGED <<active, pending, payload, tombstones, known, project, job, vectors, failures,
                 crashes, missed, raced, failed>>

RebuildStages ==
  /\ rebuild.step = "stage"
  /\ \E r \in rebuild.todo \ rebuild.staged :
       /\ StageGeneration(r[1], r[2], epoch)
       /\ shadow' = shadow \cup {r}
       /\ rebuild' = [rebuild EXCEPT !.staged = @ \cup {r}]
  /\ UNCHANGED <<project, holder, job, state, vectors, failures, crashes, missed, raced, failed>>

\* swapStructuredShadowTable() empties the old table ...
RebuildSwaps ==
  /\ rebuild.step = "stage"
  /\ rebuild.staged = rebuild.todo
  /\ vectors' = {}
  /\ rebuild' = [rebuild EXCEPT !.step = "copy"]
  /\ missed' = Files
  /\ UNCHANGED <<catalogVars, project, holder, job, state, shadow, failures, crashes, raced, failed>>

\* The copied rows are as they were staged.
MutantRebuildCopies ==
  /\ rebuild.step = "copy"
  /\ vectors' = {<<r[1], r[2], "pending">> : r \in shadow}
  /\ shadow' = {}
  /\ rebuild' = [rebuild EXCEPT !.step = "commit"]
  /\ UNCHANGED <<catalogVars, project, holder, job, state, failures, crashes, missed, raced, failed>>

\* ... and copies the rows of the shadow table.
RebuildCopies ==
  /\ rebuild.step = "copy"
  /\ vectors' = {<<r[1], r[2], "active">> : r \in shadow}
  /\ shadow' = {}
  /\ rebuild' = [rebuild EXCEPT !.step = "commit"]
  /\ UNCHANGED <<catalogVars, project, holder, job, state, failures, crashes, missed, raced, failed>>

RebuildActivates ==
  /\ rebuild.step = "commit"
  /\ \E r \in rebuild.todo \ rebuild.activated :
       /\ ActivateGeneration(r[1], r[2], rebuild.before[r[1]], epoch)
       /\ rebuild' = [rebuild EXCEPT !.activated = @ \cup {r}]
  /\ UNCHANGED <<project, holder, job, state, vectors, shadow, failures, crashes, missed, raced, failed>>

\* Files that were active and are not of the project as it was read.
Outdated ==
  {f \in Files \ FilesOf(rebuild.todo) : rebuild.before[f] # None /\ active[f] = rebuild.before[f]}

RebuildRetires ==
  /\ rebuild.step = "commit"
  /\ rebuild.activated = rebuild.todo
  /\ \E f \in Outdated : RetireFile(f, rebuild.before[f], epoch)
  /\ UNCHANGED <<project, holder, job, rebuild, state, vectors, shadow, failures, crashes, missed,
                 raced, failed>>

\* Files that are gone keep their place in the catalog.
MutantRebuildEnds ==
  /\ rebuild.step = "commit"
  /\ rebuild.activated = rebuild.todo
  /\ holder' = Nobody
  /\ state' = "idle"
  /\ missed' = {}
  /\ rebuild' = NoRebuild
  /\ UNCHANGED <<catalogVars, project, job, vectors, shadow, failures, crashes, raced, failed>>

RebuildEnds ==
  /\ rebuild.step = "commit"
  /\ rebuild.activated = rebuild.todo
  /\ Outdated = {}
  /\ holder' = Nobody
  /\ state' = "idle"
  /\ missed' = {}
  /\ failed' = failed \ FilesOf(rebuild.todo)
  /\ rebuild' = NoRebuild
  /\ UNCHANGED <<catalogVars, project, job, vectors, shadow, failures, crashes, raced>>

RebuildGivesUp ==
  /\ failures < MaxFailures
  /\ failures' = failures + 1
  /\ holder' = Nobody
  /\ state' = "failed"
  /\ rebuild' = NoRebuild
  /\ shadow' = {}
  /\ UNCHANGED <<project, job, crashes, raced, failed>>

\* A store fails while files are staged; the last one may have got into the
\* catalog only.
StagingFails ==
  /\ rebuild.step = "stage"
  /\ RebuildGivesUp
  /\ \E last \in {{}} \cup {{r} : r \in rebuild.todo \ rebuild.staged} :
       ClearPending(FilesOf(rebuild.staged \cup last))
  /\ UNCHANGED <<vectors, missed>>

\* The rows of the shadow table have taken the place of the others, unseen.
SwapFails ==
  /\ rebuild.step = "copy"
  /\ RebuildGivesUp
  /\ ClearPending(FilesOf(rebuild.todo))
  /\ vectors' = {<<r[1], r[2], "pending">> : r \in shadow}
  /\ missed' = Files

\* A rollback that writes what was active before, whatever rows there are.
MutantCommitFails ==
  /\ rebuild.step = "commit"
  /\ RebuildGivesUp
  /\ active' = rebuild.before
  /\ missed' = Files
  /\ UNCHANGED <<pending, payload, tombstones, epoch, known, vectors>>

\* rollbackMetadataActivations(): new files are retired.  The other activations
\* stay, because the generations from before are not pending any more.
CommitFails ==
  /\ rebuild.step = "commit"
  /\ RebuildGivesUp
  /\ RetireFiles({f \in FilesOf(rebuild.activated) : rebuild.before[f] = None})
  /\ missed' = Files
  /\ UNCHANGED vectors

-----------------------------------------------------------------------------
\* The process dies and starts again.
Restarts ==
  /\ crashes < MaxCrashes
  /\ crashes' = crashes + 1
  /\ holder' = Nobody
  /\ job' = [h \in Handlers |-> Idle]
  /\ rebuild' = NoRebuild
  /\ shadow' = {}
  /\ owed' = {}
  /\ missed' = missed \cup owed \cup ({job[h].file : h \in Handlers} \cap Files)
  /\ UNCHANGED <<catalogVars, disk, reports, state, vectors, failures, raced, failed>>

Init ==
  /\ CatalogInit
  /\ disk \in [Files -> MaybeGeneration]
  /\ owed = Present
  /\ reports = 0
  /\ holder = Nobody
  /\ job = [h \in Handlers |-> Idle]
  /\ rebuild = NoRebuild
  /\ state = "idle"
  /\ vectors = {}
  /\ shadow = {}
  /\ failures = 0
  /\ crashes = 0
  /\ missed = {}
  /\ raced = {}
  /\ failed = {}

FilesReported == \E f \in Files : Report(f)
EventsTaken == \E h \in Handlers, f \in Files : Begin(h, f)

HandlersStep ==
  \E h \in Handlers :
    Stages(h) \/ AddsRows(h) \/ Activates(h) \/ Shows(h) \/ Drops(h) \/ Retires(h)

HandlersFail == \E h \in Handlers : Fails(h) \/ GivesUp(h)

Retries == \E f \in Files : SweepRetries(f)

RebuildSteps ==
  \/ RebuildBegins
  \/ RebuildStages
  \/ RebuildSwaps
  \/ RebuildCopies
  \/ RebuildActivates
  \/ RebuildRetires
  \/ RebuildEnds

RebuildFails == StagingFails \/ SwapFails \/ CommitFails

Next ==
  \/ FilesReported
  \/ EventsTaken
  \/ HandlersStep
  \/ HandlersFail
  \/ Retries
  \/ RebuildReads
  \/ RebuildSteps
  \/ RebuildFails
  \/ Restarts

Spec == Init /\ [][Next]_vars

-----------------------------------------------------------------------------
Jobs ==
  [step : {"idle", "stage", "add", "activate", "show", "drop", "retire"},
   file : Files \cup {NoFile}, gen : MaybeGeneration, expected : MaybeGeneration]

Rebuilds ==
  [step : {"idle", "enter", "stage", "copy", "commit"},
   todo : SUBSET (Files \X Generations), staged : SUBSET (Files \X Generations),
   activated : SUBSET (Files \X Generations), before : [Files -> MaybeGeneration]]

TypeOK ==
  /\ CatalogTypeOK
  /\ disk \in [Files -> MaybeGeneration]
  /\ owed \subseteq Files
  /\ reports \in 0 .. MaxReports
  /\ holder \in Handlers \cup {Nobody, Rebuilder}
  /\ job \in [Handlers -> Jobs]
  /\ rebuild \in Rebuilds
  /\ state \in {"idle", "building", "failed"}
  /\ vectors \subseteq Files \X Generations \X {"pending", "active"}
  /\ shadow \subseteq Files \X Generations
  /\ failures \in 0 .. MaxFailures
  /\ crashes \in 0 .. MaxCrashes
  /\ missed \subseteq Files
  /\ raced \subseteq Files
  /\ failed \subseteq Files

\* Between the two halves of an update a rebuild or another handler may step
\* in; still a file that has an active generation is found by a search, unless
\* its update is under way, failed, or met another one.
ActiveIsFound ==
  \A f \in Files : active[f] # None => <<f, active[f]>> \in Found \/ f \in missed \cup raced

Quiet ==
  /\ owed = {}
  /\ \A h \in Handlers : job[h] = Idle
  /\ rebuild = NoRebuild

\* At rest the catalog has the generation of what is on the disk, unless an
\* update failed or met another one, or the file is left to the dead-letter queue.
QuietMatchesDisk ==
  Quiet => \A f \in Files \ (missed \cup raced \cup failed) : active[f] = disk[f]

\* A rebuild that fails before the swap leaves the active generations alone,
\* and what was pending for its files is withdrawn.
FailedStagingKeepsActive ==
  [][StagingFails => /\ active' = rebuild.before
                     /\ \A r \in rebuild.staged : pending'[r[1]] = None]_vars

\* Every step of handlers, rebuilds, failures and crashes is, for the catalog, a
\* sequence of compare-and-swap calls with what is active now, or none.
CatalogUsedAsSpecified == CatalogSpec

=============================================================================
