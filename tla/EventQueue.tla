------------------------------ MODULE EventQueue ------------------------------
(***************************************************************************)
(* The bounded, debounced queue between the file watcher and the indexing  *)
(* pipeline (src/indexer/event-queue.ts).                                  *)
(*                                                                         *)
(* An event keeps its file and its type; timestamps are left out.  A       *)
(* synchronous method of the class is one action.  drain() suspends while  *)
(* its handlers run, so it is several: StartDrain takes the first batch,   *)
(* a Settle action ends one handler, a Finish action is the synchronous    *)
(* stretch after Promise.allSettled.  Rejected events go back in the order *)
(* of their rejections, a superset of the orders of the code: the order    *)
(* only decides which handler starts first.  The metric hooks and the      *)
(* error drain() rethrows to its caller are left out.                      *)
(*                                                                         *)
(* An operator named Mutant... is a wrong version of the one it precedes;  *)
(* it only serves to show that a property can fail.                        *)
(***************************************************************************)
EXTENDS Naturals, Sequences, FiniteSets, SequencesExt

CONSTANTS
  Files,              \* paths the watcher reports
  ReportedTypes,      \* the event types the watcher reports
  MaxQueueSize,       \* options.maxQueueSize
  FullScanThreshold,  \* options.fullScanThreshold
  Concurrency,        \* options.concurrency
  MaxFailures         \* bound: handler rejections a behaviour may contain

EventTypes == {"added", "modified", "deleted"}

ASSUME ReportedTypesAssumption == ReportedTypes \subseteq EventTypes
ASSUME CapacityAssumption ==
  /\ MaxQueueSize \in Nat \ {0}
  /\ FullScanThreshold \in 1 .. MaxQueueSize
ASSUME ConcurrencyAssumption == Concurrency \in Nat \ {0}
ASSUME FailuresAssumption == MaxFailures \in Nat

VARIABLES
  debounced,          \* debouncedEvents, in the insertion order of the Map
  timers,             \* files with an armed debounce timer
  watcherQueue,
  reindexQueue,       \* how many reindex requests are queued
  state,              \* BackpressureState
  postScanQueue,
  postScanActive,
  postScanOverflowed,
  phase,              \* which batch drain() awaits, "idle" when none
  batch,              \* watcher events whose handler has not settled
  rejected,           \* watcher events whose handler was rejected
  reindexBatch,       \* as batch, for reindex requests
  reindexRejected,    \* as rejected, for reindex requests
  failures,           \* handlers rejected so far, bounds the model
  accepted,           \* history: files with an accepted, unsettled change
  dropped             \* history: files whose drop no scan has made up for

queues == <<debounced, timers, watcherQueue, reindexQueue>>
postScan == <<postScanQueue, postScanActive, postScanOverflowed>>
handlers == <<batch, rejected, reindexBatch, reindexRejected, failures>>
drainVars == <<phase, handlers>>
history == <<accepted, dropped>>
vars == <<queues, state, postScan, drainVars, history>>

-----------------------------------------------------------------------------
Event == [file : Files, type : EventTypes]

Size == Len(watcherQueue) + reindexQueue + Len(debounced)

IsDebounced(f) == \E i \in DOMAIN debounced : debounced[i].file = f
IndexOf(f) == CHOOSE i \in DOMAIN debounced : debounced[i].file = f

\* The type of an event that follows an unflushed event of the same file.
MergedType(old, new) ==
  CASE old = "added" /\ new = "deleted"                 -> "cancelled"
    [] old = "added" /\ new = "modified"                -> "added"
    [] old = "deleted" /\ new \in {"added", "modified"} -> "modified"
    [] OTHER                                            -> new

\* debouncedEvents after an event was merged into it.
Merged(e) ==
  IF ~IsDebounced(e.file)
  THEN Append(debounced, e)
  ELSE LET i == IndexOf(e.file)
           type == MergedType(debounced[i].type, e.type)
       IN  IF type = "cancelled"
           THEN RemoveAt(debounced, i)
           ELSE ReplaceAt(debounced, i, [e EXCEPT !.type = type])

\* enterOverflow(): only the normal state is left.
Overflowed == IF state = "normal" THEN "overflow" ELSE state

\* The state once size() is n and was compared with the threshold.
StateAtSize(n) == IF n >= FullScanThreshold THEN Overflowed ELSE state

FilesIn(seq) == {seq[i].file : i \in DOMAIN seq}

\* Files with an event that a handler has still to see.
Held ==
  UNION {FilesIn(q) : q \in {debounced, watcherQueue, postScanQueue, batch, rejected}}

ScanOwed == state # "normal" \/ postScanOverflowed

-----------------------------------------------------------------------------
\* enqueue(): one alternative for each path through the method.

BufferPostScan(e) ==
  /\ postScanActive
  /\ Len(postScanQueue) + Size < MaxQueueSize
  /\ postScanQueue' = Append(postScanQueue, e)
  /\ accepted' = accepted \cup {e.file}
  /\ UNCHANGED <<queues, state, postScanActive, postScanOverflowed, drainVars, dropped>>

DropPostScan(e) ==
  /\ postScanActive
  /\ Len(postScanQueue) + Size >= MaxQueueSize
  /\ postScanOverflowed' = TRUE
  /\ dropped' = dropped \cup {e.file}
  /\ UNCHANGED <<queues, state, postScanQueue, postScanActive, drainVars, accepted>>

DropOverflowing(e) ==
  /\ ~postScanActive
  /\ state # "normal"
  /\ dropped' = dropped \cup {e.file}
  /\ UNCHANGED <<queues, state, postScan, drainVars, accepted>>

SizeWith(next) == Size - Len(debounced) + Len(next)

DropAtCapacity(e) ==
  /\ ~postScanActive
  /\ state = "normal"
  /\ SizeWith(Merged(e)) > MaxQueueSize
  /\ state' = "overflow"
  /\ dropped' = dropped \cup {e.file}
  /\ UNCHANGED <<queues, postScan, drainVars, accepted>>

Debounce(e) ==
  /\ ~postScanActive
  /\ state = "normal"
  /\ SizeWith(Merged(e)) <= MaxQueueSize
  /\ debounced' = Merged(e)
  /\ timers' = IF e.file \in FilesIn(Merged(e)) THEN timers \cup {e.file}
                                               ELSE timers \ {e.file}
  /\ state' = StateAtSize(SizeWith(Merged(e)))
  /\ UNCHANGED <<watcherQueue, reindexQueue, postScan, drainVars, dropped>>
  /\ accepted' = IF e.file \in Held' THEN accepted \cup {e.file} ELSE accepted \ {e.file}

Enqueue(e) ==
  \/ BufferPostScan(e)
  \/ DropPostScan(e)
  \/ DropOverflowing(e)
  \/ DropAtCapacity(e)
  \/ Debounce(e)

\* enqueueReindex(): a public method, though nothing inside src/ calls it.
DropReindexPostScan ==
  /\ postScanActive
  /\ Len(postScanQueue) + Size >= MaxQueueSize
  /\ postScanOverflowed' = TRUE
  /\ UNCHANGED <<queues, state, postScanQueue, postScanActive, drainVars, history>>

RequestReindex ==
  /\ ~(postScanActive /\ Len(postScanQueue) + Size >= MaxQueueSize)
  /\ state = "normal"
  /\ IF Size >= MaxQueueSize
     THEN state' = "overflow" /\ UNCHANGED reindexQueue
     ELSE state' = StateAtSize(Size + 1) /\ reindexQueue' = reindexQueue + 1
  /\ UNCHANGED <<debounced, timers, watcherQueue, postScan, drainVars, history>>

EnqueueReindex == DropReindexPostScan \/ RequestReindex

-----------------------------------------------------------------------------
\* flushDebouncedEvent(), run by the timer of a file.  The event has left
\* debouncedEvents when the capacity is tested.
FlushDebounced(f) ==
  /\ f \in timers
  /\ IsDebounced(f)
  /\ LET fits == Size - 1 < MaxQueueSize
     IN  /\ watcherQueue' = IF fits THEN Append(watcherQueue, debounced[IndexOf(f)])
                                    ELSE watcherQueue
         /\ dropped' = IF fits THEN dropped ELSE dropped \cup {f}
         /\ state' = StateAtSize(IF fits THEN Size ELSE Size - 1)
  /\ debounced' = RemoveAt(debounced, IndexOf(f))
  /\ timers' = timers \ {f}
  /\ UNCHANGED <<reindexQueue, postScan, drainVars, accepted>>

\* flushAllDebounced() flushes one event after the other, so what exceeds the
\* capacity is dropped from the front.
FlushLost ==
  IF Size <= MaxQueueSize THEN 0
  ELSE IF Size - MaxQueueSize < Len(debounced) THEN Size - MaxQueueSize ELSE Len(debounced)
\* The debounced events are cleared and not flushed.
MutantFlushedQueue == watcherQueue

FlushedQueue == watcherQueue \o SubSeq(debounced, FlushLost + 1, Len(debounced))
FlushedState == IF debounced = <<>> THEN state ELSE StateAtSize(Size)

\* The tail of drain(): a queue that overflowed and ran empty throws the
\* debounced events away and calls onFullScanRequired.
EndDrain(wq, rq, s, pending) ==
  /\ phase' = "idle"
  /\ watcherQueue' = wq
  /\ reindexQueue' = rq
  /\ IF s = "overflow" /\ wq = <<>> /\ rq = 0
     THEN state' = "full_scan" /\ debounced' = <<>> /\ timers' = {}
     ELSE state' = s /\ debounced' = pending /\ timers' = timers \cap FilesIn(pending)

TakeBatch ==
  /\ dropped' = dropped \cup FilesIn(SubSeq(debounced, 1, FlushLost))
  /\ IF reindexQueue > 0
     THEN /\ phase' = "reindex"
          /\ reindexBatch' = reindexQueue
          /\ reindexQueue' = 0
          /\ watcherQueue' = FlushedQueue
          /\ state' = FlushedState
          /\ debounced' = <<>>
          /\ timers' = {}
          /\ UNCHANGED batch
     ELSE IF FlushedQueue # <<>>
     THEN /\ phase' = "watcher"
          /\ batch' = FlushedQueue
          /\ watcherQueue' = <<>>
          /\ state' = FlushedState
          /\ debounced' = <<>>
          /\ timers' = {}
          /\ UNCHANGED <<reindexQueue, reindexBatch>>
     ELSE EndDrain(<<>>, 0, FlushedState, <<>>) /\ UNCHANGED <<batch, reindexBatch>>
  /\ UNCHANGED <<rejected, reindexRejected, failures, postScan, accepted>>

StartDrain == phase = "idle" /\ TakeBatch

\* p-limit keeps at most Concurrency handlers running and starts them in order.
Running(i) == i \in DOMAIN batch /\ i <= Concurrency

\* A handler resolves, or is rejected with ENOENT, which skips the event.
SettleHandled(i) ==
  /\ Running(i)
  /\ batch' = RemoveAt(batch, i)
  /\ UNCHANGED <<queues, state, postScan, phase, rejected, reindexBatch,
                 reindexRejected, failures, dropped>>
  /\ accepted' = IF batch[i].file \in Held' THEN accepted ELSE accepted \ {batch[i].file}

SettleRejected(i) ==
  /\ Running(i)
  /\ failures < MaxFailures
  /\ failures' = failures + 1
  /\ batch' = RemoveAt(batch, i)
  /\ rejected' = Append(rejected, batch[i])
  /\ UNCHANGED <<queues, state, postScan, phase, reindexBatch, reindexRejected, history>>

\* A reindex handler ends; its ENOENT is a failure like any other.
SettleReindex ==
  /\ reindexBatch > 0
  /\ reindexBatch' = reindexBatch - 1
  /\ \/ UNCHANGED <<reindexRejected, failures>>
     \/ /\ failures < MaxFailures
        /\ failures' = failures + 1
        /\ reindexRejected' = reindexRejected + 1
  /\ UNCHANGED <<queues, state, postScan, phase, batch, rejected, history>>

\* How many of n rejected events find room again, and the state after them.
Requeued(n) ==
  IF Size >= MaxQueueSize THEN 0
  ELSE IF n < MaxQueueSize - Size THEN n ELSE MaxQueueSize - Size
StateAfterRequeue(n) == IF n = 0 THEN state ELSE StateAtSize(Size + Requeued(n))

FinishReindexPhase ==
  /\ phase = "reindex"
  /\ reindexBatch = 0
  /\ LET rq == reindexQueue + Requeued(reindexRejected)
         s == StateAfterRequeue(reindexRejected)
     IN  IF watcherQueue # <<>>
         THEN /\ phase' = "watcher"
              /\ batch' = watcherQueue
              /\ watcherQueue' = <<>>
              /\ reindexQueue' = rq
              /\ state' = s
              /\ UNCHANGED <<debounced, timers>>
         ELSE EndDrain(<<>>, rq, s, debounced) /\ UNCHANGED batch
  /\ reindexRejected' = 0
  /\ UNCHANGED <<postScan, rejected, reindexBatch, failures, history>>

\* The rejected events replace what the timers queued meanwhile.
MutantFinishWatcherPhase ==
  /\ phase = "watcher"
  /\ batch = <<>>
  /\ EndDrain(rejected, reindexQueue, StateAfterRequeue(Len(rejected)), debounced)
  /\ rejected' = <<>>
  /\ UNCHANGED <<postScan, batch, reindexBatch, reindexRejected, failures, history>>

FinishWatcherPhase ==
  /\ phase = "watcher"
  /\ batch = <<>>
  /\ LET n == Len(rejected)
     IN  /\ EndDrain(watcherQueue \o SubSeq(rejected, 1, Requeued(n)), reindexQueue,
                     StateAfterRequeue(n), debounced)
         /\ dropped' = dropped \cup FilesIn(SubSeq(rejected, Requeued(n) + 1, n))
  /\ rejected' = <<>>
  /\ UNCHANGED <<postScan, batch, reindexBatch, reindexRejected, failures, accepted>>

-----------------------------------------------------------------------------
\* markFullScanComplete(), called at the end of every full reindex.
MarkFullScanComplete ==
  /\ state = "full_scan"
  /\ debounced' = <<>>
  /\ timers' = {}
  /\ watcherQueue' = <<>>
  /\ reindexQueue' = 0
  /\ state' = "normal"
  /\ accepted' = FilesIn(postScanQueue) \cup FilesIn(batch) \cup FilesIn(rejected)
  /\ dropped' = {}
  /\ UNCHANGED <<postScan, drainVars>>

EnterPostScanMode ==
  /\ postScanActive' = TRUE
  /\ UNCHANGED <<queues, state, postScanQueue, postScanOverflowed, drainVars, history>>

\* The overflow of the buffer is forgotten when it is drained.
MutantDrainPostScanQueue ==
  /\ postScanActive
  /\ watcherQueue' = watcherQueue \o postScanQueue
  /\ postScanQueue' = <<>>
  /\ postScanOverflowed' = FALSE
  /\ postScanActive' = FALSE
  /\ UNCHANGED <<debounced, timers, reindexQueue, state, drainVars, history>>

DrainPostScanQueue ==
  /\ postScanActive
  /\ watcherQueue' = watcherQueue \o postScanQueue
  /\ postScanQueue' = <<>>
  /\ state' = IF postScanOverflowed THEN Overflowed ELSE state
  /\ postScanOverflowed' = FALSE
  /\ postScanActive' = FALSE
  /\ UNCHANGED <<debounced, timers, reindexQueue, drainVars, history>>

\* abortPostScanMode(): the runtime gives up, so do the changes it buffered.
AbortPostScanMode ==
  /\ postScanActive
  /\ postScanActive' = FALSE
  /\ postScanOverflowed' = FALSE
  /\ postScanQueue' = <<>>
  /\ dropped' = IF state = "normal" THEN {} ELSE dropped
  /\ UNCHANGED <<queues, state, drainVars>>
  /\ accepted' = accepted \cap Held'

\* clear(): everything but the batch a drain() is awaiting.
Clear ==
  /\ debounced' = <<>>
  /\ timers' = {}
  /\ watcherQueue' = <<>>
  /\ reindexQueue' = 0
  /\ state' = "normal"
  /\ postScanQueue' = <<>>
  /\ postScanActive' = FALSE
  /\ postScanOverflowed' = FALSE
  /\ accepted' = FilesIn(batch) \cup FilesIn(rejected)
  /\ dropped' = {}
  /\ UNCHANGED drainVars

-----------------------------------------------------------------------------
Init ==
  /\ debounced = <<>>
  /\ timers = {}
  /\ watcherQueue = <<>>
  /\ reindexQueue = 0
  /\ state = "normal"
  /\ postScanQueue = <<>>
  /\ postScanActive = FALSE
  /\ postScanOverflowed = FALSE
  /\ phase = "idle"
  /\ batch = <<>>
  /\ rejected = <<>>
  /\ reindexBatch = 0
  /\ reindexRejected = 0
  /\ failures = 0
  /\ accepted = {}
  /\ dropped = {}

ReportChange == \E e \in [file : Files, type : ReportedTypes] : Enqueue(e)
TimerFires == \E f \in Files : FlushDebounced(f)
HandlerResolves == \E i \in 1 .. Concurrency : SettleHandled(i)
HandlerRejects == \E i \in 1 .. Concurrency : SettleRejected(i)

\* src/server/index.ts enters post-scan mode before it starts the watcher, so
\* nothing is queued yet and no handler runs.
StartPostScan ==
  /\ phase = "idle"
  /\ Size = 0
  /\ EnterPostScanMode

\* The queue as the runtime uses it.
Next ==
  \/ ReportChange
  \/ TimerFires
  \/ StartDrain
  \/ HandlerResolves
  \/ HandlerRejects
  \/ FinishWatcherPhase
  \/ MarkFullScanComplete
  \/ StartPostScan
  \/ DrainPostScanQueue
  \/ AbortPostScanMode

Spec == Init /\ [][Next]_vars

\* The queue as a class: any public method at any time.
ApiNext ==
  \/ Next
  \/ EnqueueReindex
  \/ SettleReindex
  \/ FinishReindexPhase
  \/ EnterPostScanMode
  \/ Clear

ApiSpec == Init /\ [][ApiNext]_vars

-----------------------------------------------------------------------------
\* The variables have the types of the fields they stand for.
TypeOK ==
  /\ debounced \in Seq(Event)
  /\ timers \subseteq Files
  /\ watcherQueue \in Seq(Event)
  /\ reindexQueue \in Nat
  /\ state \in {"normal", "overflow", "full_scan"}
  /\ postScanQueue \in Seq(Event)
  /\ postScanActive \in BOOLEAN
  /\ postScanOverflowed \in BOOLEAN
  /\ phase \in {"idle", "reindex", "watcher"}
  /\ batch \in Seq(Event)
  /\ rejected \in Seq(Event)
  /\ reindexBatch \in Nat
  /\ reindexRejected \in Nat
  /\ failures \in 0 .. MaxFailures
  /\ accepted \subseteq Files
  /\ dropped \subseteq Files

\* size() never exceeds maxQueueSize, though failed handlers put events back
\* and the post-scan buffer is forwarded without a test of the capacity.
SizeBounded == Size + Len(postScanQueue) <= MaxQueueSize

\* Why SizeBounded holds of the runtime: nothing queues reindex requests, and
\* while the buffer is in use nothing else is queued or handled.
NoReindexRequests ==
  reindexQueue = 0 /\ reindexBatch = 0 /\ reindexRejected = 0 /\ phase # "reindex"
BatchOnlyWhileDraining == phase = "idle" => batch = <<>> /\ rejected = <<>>
PostScanIsQuiet ==
  IF postScanActive THEN Size = 0 /\ phase = "idle" ELSE postScanQueue = <<>>
CapacityInv ==
  TypeOK /\ NoReindexRequests /\ BatchOnlyWhileDraining /\ PostScanIsQuiet /\ SizeBounded

\* Every change enqueue() accepted is still held for a handler, or a full scan
\* is owed that will see it.
AcceptedNotLost == accepted \subseteq Held \/ ScanOwed

\* Once a change was dropped, a full scan stays owed until one completes.
DropsOweScan == dropped # {} => ScanOwed

\* No accepted change waits for ever: a file with one has it handled again and
\* again, however often it changes, unless the queue asked for a full scan that
\* stands in for it.
AcceptedSettles ==
  \A f \in Files :
    \/ []<>(f \notin accepted \/ state = "full_scan")
    \/ []<><<\E i \in 1 .. Concurrency : SettleHandled(i) /\ batch[i].file = f>>_vars
=============================================================================
