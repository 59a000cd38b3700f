--------------------------- MODULE RuntimeLifecycle ---------------------------
(***************************************************************************)
(* The life of a runtime from the factory to close()                       *)
(* (src/server/index.ts, src/server/factory.ts, IndexPipeline.start() and  *)
(* stop() in src/indexer/pipeline.ts): initialize() with its rollback and  *)
(* its retries, the watcher, the drain loop and its handlers, the startup  *)
(* reindex, the idle compaction, and the order in which close() stops them *)
(* before the lock of the project is given up.                             *)
(*                                                                         *)
(* The vector store is what ManagedStore promises; a call of it is named   *)
(* after the one who makes it.  What handlers index is the subject of      *)
(* IndexingRuntime; here they are at work or not.  Tools may ask for       *)
(* initialize() at any time, also during close().                          *)
(***************************************************************************)
EXTENDS ManagedStore, FileWatcher, Naturals

CONSTANTS
  Opening, Handler, Scan, Compaction,  \* the calls of the vector store
  MaxInits                             \* bound: times initialize() may run

ASSUME CallsAssumption ==
  /\ Calls = {Opening, Handler, Scan, Compaction}
  /\ Opening \notin {Handler, Scan, Compaction}
  /\ Handler \notin {Scan, Compaction}
  /\ Scan # Compaction
ASSUME InitsAssumption == MaxInits \in Nat \ {0}

VARIABLES
  init,         \* the step initialize() has reached; "none" when initPromise is null
  inits,        \* times initialize() has run
  needsScan,    \* the index was found incomplete
  postScan,     \* the event queue is in post-scan mode
  running,      \* pipeline.start() is in force: recovery loop and idle timer
  idleTimer,    \* "none", "armed" or "waiting" for the pipeline's mutex
  aborted,      \* the pipeline's abort signal
  reindexing,   \* the startup reindex holds the mutex
  metrics,      \* the metrics server listens and heartbeats are sent
  events,       \* the queue holds events
  busy,         \* a handler is at work
  loop,         \* the drain loop goes on
  closing,      \* the step close() has reached
  lock,         \* the project lock is held
  rolledBack,   \* history: a rollback has been made
  lateInit,     \* history: initialize() ran after close() was called
  forcedClose   \* history: the store was released under pending calls

initVars == <<init, inits, needsScan>>
pipelineVars == <<running, idleTimer, aborted, reindexing>>
queueVars == <<events, busy, loop>>
lifeHistory == <<rolledBack, lateInit, forcedClose>>
lifeVars == <<storeVars, watcherVars, initVars, postScan, pipelineVars, metrics,
              queueVars, closing, lock, lifeHistory>>

ShuttingDown == closing # "no"

InitSteps == {"none", "metadata", "store", "reconcile", "watcher", "metrics",
              "stopping", "releasing", "unwatching", "done"}
CloseSteps == {"no", "init", "watcher", "reindex", "pipeline", "store", "loop",
               "log", "done"}

-----------------------------------------------------------------------------
\* initialize(): everybody who asks meanwhile gets the same promise.
Initialize ==
  /\ init = "none"
  /\ inits < MaxInits
  /\ lock
  /\ init' = "metadata"
  /\ inits' = inits + 1
  /\ needsScan' = FALSE
  /\ lateInit' = (lateInit \/ ShuttingDown)
  /\ UNCHANGED <<storeVars, watcherVars, postScan, pipelineVars, metrics, queueVars,
                 closing, lock, rolledBack, forcedClose>>

InitRejects == init' = "none" /\ UNCHANGED <<inits, needsScan>>
InitReaches(step) == init' = step /\ UNCHANGED <<inits, needsScan>>

InitFrame == UNCHANGED <<metrics, queueVars, closing, lock, lateInit, forcedClose>>

\* metadataStore.initialize(), then the call of vectorStore.initialize(): a
\* store that is open has nothing to do, a closed one throws.
MetadataOpens ==
  /\ init = "metadata"
  /\ \/ life = "new" /\ Admit(Opening, "initialize") /\ InitReaches("store")
     \/ life = "open" /\ InitReaches("reconcile") /\ UNCHANGED storeVars
     \/ life \in {"closing", "closed"} /\ InitRejects /\ UNCHANGED storeVars
  /\ UNCHANGED <<watcherVars, postScan, pipelineVars, rolledBack>> /\ InitFrame

\* A store that was closed in the meantime keeps nothing and does not say so.
StoreOpens ==
  /\ init = "store"
  /\ \/ Opens(Opening)
     \/ life \in {"closing", "closed"} /\ Settle(Opening)
  /\ InitReaches("reconcile")
  /\ UNCHANGED <<watcherVars, postScan, pipelineVars, rolledBack>> /\ InitFrame

\* Neither is rolled back.
StoresFail ==
  /\ \/ init \in {"metadata", "reconcile"} /\ UNCHANGED storeVars
     \/ init = "store" /\ Settle(Opening)
  /\ InitRejects
  /\ UNCHANGED <<watcherVars, postScan, pipelineVars, rolledBack>> /\ InitFrame

\* reconcileOnStartup(), the look at the index, pipeline.start() and the call
\* of watcher.start().
Reconciles ==
  /\ init = "reconcile"
  /\ init' = "watcher"
  /\ \E unindexed \in BOOLEAN :
        needsScan' = (unindexed /\ ~ShuttingDown)
  /\ postScan' = (postScan \/ needsScan')
  /\ running' = TRUE
  /\ idleTimer' = IF life \in {"closing", "closed"} THEN "none" ELSE "armed"
  /\ aborted' = FALSE
  /\ StartWatcher
  /\ UNCHANGED <<storeVars, inits, reindexing, rolledBack>> /\ InitFrame

\* EMFILE and ENOSPC do not keep the runtime from starting.
WatcherStarts ==
  /\ init = "watcher"
  /\ startResult \in {"resolved", "limit"}
  /\ InitReaches("metrics")
  /\ UNCHANGED <<storeVars, watcherVars, postScan, pipelineVars, rolledBack>> /\ InitFrame

\* The metrics server and the heartbeats; then the startup reindex is begun.
Starts ==
  /\ init = "metrics"
  /\ InitReaches("done")
  /\ metrics' = TRUE
  /\ reindexing' = needsScan
  /\ UNCHANGED <<storeVars, watcherVars, postScan, running, idleTimer, aborted,
                 queueVars, closing, lock, lifeHistory>>

\* watcher.start() was rejected: the pipeline is stopped.  Errors of the metrics
\* server and of the port file are caught where they happen.
RollsBack ==
  /\ init = "watcher" /\ startResult = "rejected"
  /\ InitReaches("stopping")
  /\ aborted' = TRUE
  /\ running' = FALSE
  /\ idleTimer' = IF idleTimer = "armed" THEN "none" ELSE idleTimer
  /\ rolledBack' = TRUE
  /\ UNCHANGED <<storeVars, watcherVars, postScan, reindexing, metrics, queueVars,
                 closing, lock, lateInit, forcedClose>>

\* pipeline.stop() waits for the mutex and closes the vector store.
RollbackReleases ==
  /\ init = "stopping"
  /\ ~reindexing
  /\ InitReaches("releasing")
  /\ IF Accepting THEN StartClose ELSE UNCHANGED storeVars
  /\ UNCHANGED <<watcherVars, postScan, pipelineVars, rolledBack>> /\ InitFrame

RollbackUnwatches ==
  /\ init = "releasing"
  /\ life = "closed"
  /\ InitReaches("unwatching")
  /\ StopWatcher
  /\ UNCHANGED <<storeVars, postScan, pipelineVars, rolledBack>> /\ InitFrame

\* initPromise is reset, so that initialize() can be tried again.
RollbackEnds ==
  /\ init = "unwatching"
  /\ WatcherStopped
  /\ InitRejects
  /\ postScan' = (postScan /\ ~needsScan)
  /\ UNCHANGED <<storeVars, watcherVars, pipelineVars, rolledBack>> /\ InitFrame

-----------------------------------------------------------------------------
\* The work: the watcher puts events into the queue, the drain loop hands them
\* to handlers, handlers and the startup reindex write the vector store.
WorkFrame == UNCHANGED <<watcherVars, initVars, metrics, closing, lock, rolledBack, lateInit>>

FileChanges ==
  /\ watching = "watching"
  /\ ~isStopped
  /\ events' = TRUE
  /\ UNCHANGED <<storeVars, postScan, pipelineVars, busy, loop, forcedClose>> /\ WorkFrame

DrainHands ==
  /\ loop
  /\ events
  /\ ~postScan
  /\ ~busy
  /\ busy' = TRUE
  /\ UNCHANGED <<storeVars, postScan, pipelineVars, events, loop, forcedClose>> /\ WorkFrame

\* A handler that is done, or that fails and puts its event back: a closed
\* store rejects it.
HandlerEnds ==
  /\ busy
  /\ Handler \notin pending
  /\ busy' = FALSE
  /\ events' \in BOOLEAN
  /\ UNCHANGED <<storeVars, postScan, pipelineVars, loop, forcedClose>> /\ WorkFrame

Allowed(c) ==
  CASE c = Handler -> busy
    [] c = Scan -> reindexing /\ ~aborted
    [] OTHER -> FALSE

WriterCalls(c) ==
  /\ Allowed(c)
  /\ Admit(c, "write")
  /\ UNCHANGED <<postScan, pipelineVars, queueVars, forcedClose>> /\ WorkFrame

\* The store gives a call its turn and settles it.
StoreWorks(c) ==
  /\ Start(c) \/ (c # Opening /\ Settle(c))
  /\ UNCHANGED <<postScan, pipelineVars, queueVars, forcedClose>> /\ WorkFrame

\* The startup reindex ends, early when it is aborted, and what happened in the
\* meantime is forwarded.
ReindexEnds ==
  /\ reindexing
  /\ Scan \notin pending
  /\ reindexing' = FALSE
  /\ postScan' = (postScan /\ ShuttingDown)
  /\ UNCHANGED <<storeVars, running, idleTimer, aborted, queueVars, forcedClose>> /\ WorkFrame

IdleTimerFires ==
  /\ idleTimer = "armed"
  /\ idleTimer' = "waiting"
  /\ UNCHANGED <<storeVars, postScan, running, aborted, reindexing, queueVars, forcedClose>>
  /\ WorkFrame

\* When the mutex is free: compactIfNeeded(), or nothing after an abort.
IdleCompacts ==
  /\ idleTimer = "waiting"
  /\ ~reindexing
  /\ idleTimer' = "none"
  /\ IF aborted \/ ~Accepting \/ Compaction \in pending
     THEN UNCHANGED storeVars ELSE Admit(Compaction, "write")
  /\ UNCHANGED <<postScan, running, aborted, reindexing, queueVars, forcedClose>> /\ WorkFrame

StoreCloses ==
  /\ CloseQuietly \/ CloseByForce
  /\ forcedClose' = (forcedClose \/ pending # {})
  /\ UNCHANGED <<postScan, pipelineVars, queueVars>> /\ WorkFrame

-----------------------------------------------------------------------------
\* close(): each of its steps is awaited before the next.
CloseFrame == UNCHANGED <<initVars, reindexing, events, busy, lifeHistory>>

Close ==
  /\ closing = "no"
  /\ closing' = "init"
  /\ UNCHANGED <<storeVars, watcherVars, postScan, running, idleTimer, aborted, metrics,
                 loop, lock>> /\ CloseFrame

\* close() does not wait for an initialization that is under way.
MutantCloseStopsMetrics ==
  /\ closing = "init"
  /\ closing' = "watcher"
  /\ postScan' = FALSE
  /\ metrics' = FALSE
  /\ StopWatcher
  /\ UNCHANGED <<storeVars, running, idleTimer, aborted, loop, lock>> /\ CloseFrame

\* When initialize() is not under way: post-scan mode is left, the metrics
\* server and the heartbeats are stopped, and watcher.stop() is called.
CloseStopsMetrics ==
  /\ closing = "init"
  /\ init \in {"none", "done"}
  /\ closing' = "watcher"
  /\ postScan' = FALSE
  /\ metrics' = FALSE
  /\ StopWatcher
  /\ UNCHANGED <<storeVars, running, idleTimer, aborted, loop, lock>> /\ CloseFrame

CloseAwaitsReindex ==
  /\ closing = "watcher"
  /\ WatcherStopped
  /\ closing' = "reindex"
  /\ UNCHANGED <<storeVars, watcherVars, postScan, running, idleTimer, aborted, metrics,
                 loop, lock>> /\ CloseFrame

\* pipeline.stop(), when the startup reindex has ended.
CloseStopsPipeline ==
  /\ closing = "reindex"
  /\ ~reindexing
  /\ closing' = "pipeline"
  /\ aborted' = TRUE
  /\ running' = FALSE
  /\ idleTimer' = IF idleTimer = "armed" THEN "none" ELSE idleTimer
  /\ UNCHANGED <<storeVars, watcherVars, postScan, metrics, loop, lock>> /\ CloseFrame

CloseReleases ==
  /\ closing = "pipeline"
  /\ ~reindexing
  /\ closing' = "store"
  /\ IF Accepting THEN StartClose ELSE UNCHANGED storeVars
  /\ UNCHANGED <<watcherVars, postScan, running, idleTimer, aborted, metrics, loop, lock>>
  /\ CloseFrame

\* onClose(): the drain loop is told to end and is waited for.
CloseEndsLoop ==
  /\ closing = "store"
  /\ life = "closed"
  /\ closing' = "loop"
  /\ loop' = FALSE
  /\ UNCHANGED <<storeVars, watcherVars, postScan, running, idleTimer, aborted, metrics, lock>>
  /\ CloseFrame

\* onClose() does not wait for the drain.
MutantCloseEndsLog ==
  /\ closing = "loop"
  /\ closing' = "log"
  /\ UNCHANGED <<storeVars, watcherVars, postScan, running, idleTimer, aborted, metrics,
                 loop, lock>> /\ CloseFrame

\* onClose() waits for an empty queue.
MutantCloseDrains ==
  /\ closing = "loop"
  /\ ~busy /\ ~events
  /\ closing' = "log"
  /\ UNCHANGED <<storeVars, watcherVars, postScan, running, idleTimer, aborted, metrics,
                 loop, lock>> /\ CloseFrame

CloseEndsLog ==
  /\ closing = "loop"
  /\ ~busy
  /\ closing' = "log"
  /\ UNCHANGED <<storeVars, watcherVars, postScan, running, idleTimer, aborted, metrics,
                 loop, lock>> /\ CloseFrame

CloseUnlocks ==
  /\ closing = "log"
  /\ closing' = "done"
  /\ lock' = FALSE
  /\ UNCHANGED <<storeVars, watcherVars, postScan, running, idleTimer, aborted, metrics, loop>>
  /\ CloseFrame

-----------------------------------------------------------------------------
LifeInit ==
  /\ StoreInit
  /\ WatcherInit
  /\ init = "none" /\ inits = 0 /\ needsScan = FALSE
  /\ postScan = FALSE
  /\ running = FALSE /\ idleTimer = "none" /\ aborted = FALSE /\ reindexing = FALSE
  /\ metrics = FALSE
  /\ events = FALSE /\ busy = FALSE /\ loop = TRUE
  /\ closing = "no"
  /\ lock = TRUE
  /\ rolledBack = FALSE /\ lateInit = FALSE /\ forcedClose = FALSE

InitializeStep ==
  \/ MetadataOpens \/ StoreOpens \/ StoresFail \/ Reconciles \/ WatcherStarts \/ Starts
  \/ RollsBack \/ RollbackReleases \/ RollbackUnwatches \/ RollbackEnds

WatcherWorks ==
  /\ WatcherStep
  /\ UNCHANGED <<storeVars, initVars, postScan, pipelineVars, metrics, queueVars, closing,
                 lock, lifeHistory>>

CloseStep ==
  \/ CloseStopsMetrics \/ CloseAwaitsReindex \/ CloseStopsPipeline \/ CloseReleases
  \/ CloseEndsLoop \/ CloseEndsLog \/ CloseUnlocks

LifeNext ==
  \/ Initialize
  \/ InitializeStep
  \/ WatcherWorks
  \/ FileChanges
  \/ DrainHands
  \/ HandlerEnds
  \/ \E c \in Calls : WriterCalls(c) \/ StoreWorks(c)
  \/ ReindexEnds
  \/ IdleTimerFires
  \/ IdleCompacts
  \/ StoreCloses
  \/ Close
  \/ CloseStep

LifeSpec == LifeInit /\ [][LifeNext]_lifeVars

\* Promises that were made are kept: I/O ends, chokidar says "ready" or fails,
\* handlers and the reindex make finitely many calls, timers fire.
LifeFairness ==
  /\ WF_lifeVars(InitializeStep)
  /\ WF_lifeVars(WatcherWorks)
  /\ SF_lifeVars(HandlerEnds)
  /\ SF_lifeVars(ReindexEnds)
  /\ \A c \in Calls : WF_lifeVars(StoreWorks(c))
  /\ WF_lifeVars(StoreCloses)
  /\ WF_lifeVars(CloseStep)

FairLifeSpec == LifeSpec /\ LifeFairness

-----------------------------------------------------------------------------
LifeTypeOK ==
  /\ StoreTypeOK
  /\ WatcherTypeOK
  /\ init \in InitSteps
  /\ inits \in 0 .. MaxInits
  /\ closing \in CloseSteps
  /\ idleTimer \in {"none", "armed", "waiting"}

\* The project lock covers the writes: when close() has given it up, no call
\* that writes rows can still reach the files, unless the store was released by
\* force under a compaction.
LockCoversWrites ==
  ~lock => /\ ~busy
           /\ ~reindexing \/ aborted
           /\ pending \ {Opening} \subseteq IF forcedClose THEN {Compaction} ELSE {}

\* A runtime that was closed leaves nothing behind, unless a tool asked for
\* initialize() while it was being closed.
ClosedMeansStopped ==
  closing = "done" /\ ~lateInit =>
    /\ watching = "none"
    /\ ~running /\ idleTimer # "armed"
    /\ ~metrics
    /\ life = "closed"
    /\ ~postScan

\* A failed initialization that was rolled back leaves nothing at work.
RolledBackIsStopped ==
  init = "none" /\ rolledBack =>
    /\ watching = "none"
    /\ ~running /\ idleTimer # "armed"
    /\ life = "closed"

\* However its life ended, by close() or by a rollback, a runtime has nothing
\* at work any more: watcher, timers, metrics server and store are stopped.
EndsStopped == ClosedMeansStopped /\ RolledBackIsStopped

\* close() comes to its end, whatever it meets.
CloseEnds == closing = "init" ~> closing = "done"

\* "Reset initPromise on failure so initialize() can be retried later": an
\* initialization that is tried again finds a store that it can open.
RetryMeetsOpenStore == init = "metadata" /\ ~ShuttingDown => life \in {"new", "open"}
=============================================================================
