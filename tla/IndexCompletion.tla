---------------------------- MODULE IndexCompletion ----------------------------
(***************************************************************************)
(* When an index counts as complete: reindex() of the pipeline and the row *)
(* index_stats it writes (src/indexer/pipeline.ts), over the dead-letter   *)
(* queue that its failures go to, with the sweep and the watcher's handlers*)
(* at work, a shutdown that aborts the pipeline, and restarts that scan    *)
(* the project only if the index does not count as complete.               *)
(*                                                                         *)
(* A file is read and written in one step here; IndexingRuntime has the    *)
(* interleavings of reads and writes.                                      *)
(***************************************************************************)
EXTENDS DeadLetterQueue

CONSTANT MayStop  \* whether the runtime may be closed during a reindex

ASSUME StopAssumption == MayStop \in BOOLEAN

VARIABLES
  step,         \* where reindex() is
  todo,         \* files the last scan listed and has not come to
  startup,      \* whether the startup reindex is owed, or the one that runs
  lastIndexed,  \* index_stats: lastIndexedAt is set
  lastError,    \* index_stats: lastError is set
  aborted,      \* the abort signal of the pipeline
  cut           \* history: files that a shutdown cut off

stats == <<lastIndexed, lastError>>
completionVars == <<dlqVars, step, todo, startup, stats, aborted, cut>>

Completed == lastIndexed /\ ~lastError

-----------------------------------------------------------------------------
\* reindex() has the mutex and forgets the last failure.
ReindexStarts ==
  /\ step = "idle"
  /\ ~aborted
  /\ step' = "scan"
  /\ lastError' = FALSE
  /\ UNCHANGED <<dlqVars, todo, startup, lastIndexed, aborted, cut>>

ReindexLists ==
  /\ step = "scan"
  /\ step' = "files"
  /\ todo' = Present
  /\ UNCHANGED <<dlqVars, startup, stats, aborted, cut>>

ReindexIndexes(f) ==
  /\ step = "files"
  /\ ~aborted
  /\ f \in todo \cap Present
  /\ index' = [index EXCEPT ![f] = disk[f]]
  /\ todo' = todo \ {f}
  /\ givenUp' = givenUp \ {f}
  /\ unprocessed' = unprocessed \ {f}
  /\ raced' = MeetsOthers(f)
  /\ cut' = cut \ {f}
  /\ UNCHANGED <<files, queue, lock, sweep, removing, crashes, step, startup, stats, aborted>>

\* The file is skipped and left out of the queue.
MutantReindexGivesUp(f) ==
  /\ step = "files"
  /\ ~aborted
  /\ f \in todo \cap Present
  /\ todo' = todo \ {f}
  /\ UNCHANGED <<dlqVars, step, startup, stats, aborted, cut>>

\* A failure of one file does not stop the scan.
ReindexGivesUp(f) ==
  /\ step = "files"
  /\ ~aborted
  /\ f \in todo \cap Present
  /\ \E hash \in EventHashes(f) : Enqueue(f, hash)
  /\ todo' = todo \ {f}
  /\ raced' = MeetsOthers(f)
  /\ cut' = cut \ {f}
  /\ UNCHANGED <<files, sweep, step, startup, stats, aborted>>

\* The scan fails, a listed file is gone, or the provider answers nonsense:
\* persistFailure().
ReindexThrows ==
  /\ step \in {"scan", "files"}
  /\ step' = "idle"
  /\ startup' = FALSE
  /\ lastError' = TRUE
  /\ UNCHANGED <<dlqVars, todo, lastIndexed, aborted, cut>>

\* The loop over the files ends, with the abort signal before its time.
ReindexProcessed ==
  /\ step = "files"
  /\ todo = {} \/ aborted
  /\ step' = "record"
  /\ cut' = cut \cup todo
  /\ UNCHANGED <<dlqVars, todo, startup, stats, aborted>>

\* recordCompletion() takes the completion lock, which the sweep and the
\* handlers need for whatever they do to the queue, ...
RecordStarts ==
  /\ step = "record"
  /\ ~lock
  /\ lock' = TRUE
  /\ step' = "check"
  /\ UNCHANGED <<files, index, queue, sweep, removing, crashes, dlqHistory,
                 todo, startup, stats, aborted, cut>>

\* The lock is not released.
MutantRecordEnds ==
  /\ lock' = lock
  /\ step' = "idle"
  /\ startup' = FALSE
  /\ UNCHANGED <<files, index, queue, sweep, removing, crashes, dlqHistory,
                 todo, aborted, cut>>

RecordEnds ==
  /\ lock' = FALSE
  /\ step' = "idle"
  /\ startup' = FALSE
  /\ UNCHANGED <<files, index, queue, sweep, removing, crashes, dlqHistory,
                 todo, aborted, cut>>

\* The completion is recorded whatever is left in the queue.
MutantRecordSuccess ==
  /\ step = "check"
  /\ lastIndexed' = TRUE
  /\ lastError' = FALSE
  /\ RecordEnds

\* ... and atomicCompletionCheck() records the completion, unless entries remain.
RecordSuccess ==
  /\ step = "check"
  /\ store = {}
  /\ lastIndexed' = TRUE
  /\ lastError' = FALSE
  /\ RecordEnds

RecordIncomplete ==
  /\ step = "check"
  /\ store # {}
  /\ lastError' = TRUE
  /\ UNCHANGED lastIndexed
  /\ RecordEnds

-----------------------------------------------------------------------------
\* close() waits for the startup reindex, and for no other, before stop()
\* raises the abort signal.
StopRequested ==
  /\ MayStop
  /\ ~aborted
  /\ ~startup
  /\ aborted' = TRUE
  /\ UNCHANGED <<dlqVars, step, todo, startup, stats, cut>>

\* The sweep goes on: reprocess() indexes nothing and returns, or its call of
\* the provider is aborted.
ReprocessAborted ==
  /\ aborted
  /\ \/ sweep.step \in {"read", "embed"} /\ GoTo("remove")
     \/ sweep.step = "embed" /\ GoTo("retry")
  /\ cut' = cut \cup {sweep.cur.file}
  /\ UNCHANGED <<files, index, queue, lock, removing, crashes, dlqHistory,
                 step, todo, startup, stats, aborted>>

\* The process dies, or ends once stop() has returned; the next initialize()
\* starts a reindex unless the index counts as complete.
RuntimeRestarts ==
  /\ Restarted
  /\ step' = "idle"
  /\ aborted' = FALSE
  /\ startup' = ~Completed
  /\ UNCHANGED <<todo, stats, cut>>

\* A handler indexes nothing any more, and takes the event for handled; like
\* those that wait, it is lost with the process.
HandlerAborted(f) ==
  /\ aborted
  /\ f \in owed \cap Present
  /\ owed' = owed \ {f}
  /\ givenUp' = givenUp \cup {f}
  /\ UNCHANGED <<disk, changes, index, queue, lock, sweep, removing, crashes, raced,
                 unprocessed, step, todo, startup, stats, aborted, cut>>

CompletionInit ==
  /\ QueueInit
  /\ owed = {}
  /\ step = "idle"
  /\ todo = Present
  /\ startup = TRUE
  /\ lastIndexed = FALSE
  /\ lastError = FALSE
  /\ aborted = FALSE
  /\ cut = {}

FilesChange == FileChanges /\ UNCHANGED <<step, todo, startup, stats, aborted, cut>>

\* Events wait until the startup reindex has ended.
HandlersWork ==
  /\ ~startup
  /\ ~aborted
  /\ HandlerSucceeds \/ HandlerGivesUp
  /\ UNCHANGED <<step, todo, startup, stats, aborted, cut>>

QueueWorks ==
  /\ Load \/ RemovalsEnd
  /\ UNCHANGED <<step, todo, startup, stats, aborted, cut>>

\* No sweep begins once the interval is cleared, and one that runs is awaited.
SweepWorks ==
  /\ \/ SweepGoesOn
     \/ ProviderDown
     \/ ~aborted /\ (StartSweep \/ Reprocesses)
  /\ UNCHANGED <<step, todo, startup, stats, aborted, cut>>

ReindexWorks ==
  \/ ReindexLists
  \/ \E f \in Files : ReindexIndexes(f) \/ ReindexGivesUp(f)
  \/ ReindexProcessed
  \/ RecordStarts
  \/ RecordSuccess
  \/ RecordIncomplete

CompletionNext ==
  \/ FilesChange
  \/ HandlersWork
  \/ QueueWorks
  \/ SweepWorks
  \/ ReindexStarts
  \/ ReindexWorks
  \/ ReindexThrows
  \/ StopRequested
  \/ ReprocessAborted
  \/ \E f \in Files : HandlerAborted(f)
  \/ RuntimeRestarts

CompletionSpec == CompletionInit /\ [][CompletionNext]_completionVars

-----------------------------------------------------------------------------
CompletionTypeOK ==
  /\ DlqTypeOK
  /\ step \in {"idle", "scan", "files", "record", "check"}
  /\ todo \subseteq Files
  /\ startup \in BOOLEAN
  /\ lastIndexed \in BOOLEAN
  /\ lastError \in BOOLEAN
  /\ aborted \in BOOLEAN
  /\ cut \subseteq Files

\* Once an index counts as complete, every file whose vectors are out of date,
\* with no event to come, is in the queue; the only others were given up by a
\* limit, met by two at a time, cut off by a shutdown, or taken out of the queue
\* by a sweep because their event had no hash.
CompletedAccountsForAll ==
  Completed /\ step = "idle" =>
    Unresolved \subseteq FilesOf(store) \cup givenUp \cup raced \cup cut \cup unprocessed

\* A reindex is recorded as a success only when no file is left with vectors
\* that are out of date, whatever the sweep and the handlers do to the queue
\* while it runs; the same files are excused.
SuccessMeansResolved ==
  [][RecordSuccess => Unresolved \subseteq givenUp \cup raced \cup cut \cup unprocessed]_completionVars

\* What SPEC.md says: "A full reindex is not considered successful while
\* unresolved dead-letter work remains."  A failed file that no limit dropped,
\* no handler met and no shutdown cut off is such work.
NoWorkLeftAtSuccess ==
  [][RecordSuccess => Unresolved \subseteq givenUp \cup raced \cup cut]_completionVars

\* A shutdown is never stuck: until the reindex and the sweep it waits for have
\* ended one of them can go on, although both want the completion lock.
ShutdownNeverStuck ==
  aborted /\ (step # "idle" \/ sweep.step # "idle") =>
    ENABLED (ReindexWorks \/ SweepWorks \/ ReprocessAborted \/ QueueWorks)
=============================================================================
