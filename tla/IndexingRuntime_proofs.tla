------------------------ MODULE IndexingRuntime_proofs ------------------------
(***************************************************************************)
(* Proofs about EventQueue: types, the debt of dropped events and the      *)
(* changes it accepted, for any use of the class; the capacity, for the    *)
(* use the runtime makes of it.  IndexingRuntime is shown to make no other *)
(* use, so that what holds of the queue holds in the runtime; its index is *)
(* shown to be right whenever everything is at rest; and a queue that waits*)
(* for a full scan is never left without one.                              *)
(***************************************************************************)
EXTENDS IndexingRuntime, SequenceTheorems, TLAPS

USE ReportedTypesAssumption, CapacityAssumption, ConcurrencyAssumption, FailuresAssumption

-----------------------------------------------------------------------------
(* Sequences. *)

\* Removing one element of a sequence.
LEMMA RemoveAtType ==
  ASSUME NEW S, NEW s \in Seq(S), NEW i \in DOMAIN s
  PROVE  /\ RemoveAt(s, i) \in Seq(S)
         /\ Len(RemoveAt(s, i)) = Len(s) - 1
<1>1. Len(s) \in Nat /\ DOMAIN s = 1 .. Len(s) /\ i \in 1 .. Len(s)
  BY LenProperties
<1>2. \A j \in 1 .. Len(s) : s[j] \in S
  BY ElementOfSeq
<1>3. /\ SubSeq(s, 1, i - 1) \in Seq(S)
      /\ Len(SubSeq(s, 1, i - 1)) = i - 1
  <2>1. \A j \in 1 .. i - 1 : s[j] \in S
    BY <1>1, <1>2
  <2>2. i - 1 \in Int /\ 1 \in Int
    BY <1>1
  <2> QED
    BY <2>1, <2>2, <1>1, SubSeqProperties
<1>4. /\ SubSeq(s, i + 1, Len(s)) \in Seq(S)
      /\ Len(SubSeq(s, i + 1, Len(s))) = Len(s) - i
  <2>1. \A j \in i + 1 .. Len(s) : s[j] \in S
    BY <1>1, <1>2
  <2>2. i + 1 \in Int /\ Len(s) \in Int
    BY <1>1
  <2>3. /\ SubSeq(s, i + 1, Len(s)) \in Seq(S)
        /\ Len(SubSeq(s, i + 1, Len(s))) =
             IF i + 1 <= Len(s) THEN Len(s) - (i + 1) + 1 ELSE 0
    BY <2>1, <2>2, SubSeqProperties
  <2> QED
    BY <2>3, <1>1
<1> QED
  BY <1>1, <1>3, <1>4, ConcatProperties DEF RemoveAt

\* A contiguous piece of a sequence is a sequence.
LEMMA SubSeqType ==
  ASSUME NEW S, NEW s \in Seq(S), NEW m \in Nat \ {0}, NEW n \in 0 .. Len(s)
  PROVE  /\ SubSeq(s, m, n) \in Seq(S)
         /\ Len(SubSeq(s, m, n)) = IF m <= n THEN n - m + 1 ELSE 0
<1>1. Len(s) \in Nat
  BY LenProperties
<1>2. \A j \in m .. n : s[j] \in S
  BY <1>1, ElementOfSeq
<1>3. m \in Int /\ n \in Int
  BY <1>1
<1> QED
  BY <1>2, <1>3, SubSeqProperties

\* The files of a sequence of events are files.
LEMMA FilesInType ==
  ASSUME NEW s \in Seq(Event)
  PROVE  FilesIn(s) \subseteq Files
<1>1. \A i \in DOMAIN s : s[i] \in Event
  BY LenProperties, ElementOfSeq
<1> QED
  BY <1>1 DEF FilesIn, Event

-----------------------------------------------------------------------------
(* The helpers of the model. *)

LEMMA SizeType ==
  ASSUME TypeOK
  PROVE  /\ Size \in Nat
         /\ Len(watcherQueue) \in Nat
         /\ Len(debounced) \in Nat
         /\ Len(postScanQueue) \in Nat
         /\ Len(batch) \in Nat
         /\ Len(rejected) \in Nat
BY LenProperties DEF TypeOK, Size

LEMMA IndexOfType ==
  ASSUME NEW f, IsDebounced(f)
  PROVE  IndexOf(f) \in DOMAIN debounced /\ debounced[IndexOf(f)].file = f
BY DEF IsDebounced, IndexOf

LEMMA MergedSeq ==
  ASSUME TypeOK, NEW e \in [file : Files, type : ReportedTypes]
  PROVE  Merged(e) \in Seq(Event)
<1>1. e \in Event
  BY DEF Event, EventTypes
<1>2. debounced \in Seq(Event)
  BY DEF TypeOK
<1>3. CASE ~IsDebounced(e.file)
  BY <1>1, <1>2, <1>3, AppendProperties DEF Merged
<1>4. CASE IsDebounced(e.file)
  <2> DEFINE i == IndexOf(e.file)
             type == MergedType(debounced[i].type, e.type)
  <2>1. i \in DOMAIN debounced /\ i \in 1 .. Len(debounced)
    BY <1>2, <1>4, IndexOfType, LenProperties
  <2>2. debounced[i] \in Event
    BY <1>2, <2>1, ElementOfSeq
  <2>3. type # "cancelled" => type \in EventTypes
    BY <1>1, <2>2 DEF MergedType, EventTypes, Event
  <2>4. CASE type = "cancelled"
    <3>1. Merged(e) = RemoveAt(debounced, i)
      BY <1>4, <2>4 DEF Merged
    <3> QED
      BY <1>2, <2>1, <3>1, RemoveAtType
  <2>5. CASE type # "cancelled"
    <3>1. [e EXCEPT !.type = type] \in Event
      BY <1>1, <2>3, <2>5 DEF Event
    <3>2. Merged(e) = [debounced EXCEPT ![i] = [e EXCEPT !.type = type]]
      BY <1>4, <2>5 DEF Merged, ReplaceAt
    <3> QED
      BY <1>2, <2>1, <3>1, <3>2, ExceptSeq
  <2> QED
    BY <2>4, <2>5
<1> QED
  BY <1>3, <1>4

\* A drain loses a prefix of the debounced events at most.
LEMMA FlushedType ==
  ASSUME TypeOK
  PROVE  /\ FlushLost \in 0 .. Len(debounced)
         /\ FlushedQueue \in Seq(Event)
         /\ Len(FlushedQueue) = Len(watcherQueue) + Len(debounced) - FlushLost
         /\ FilesIn(SubSeq(debounced, 1, FlushLost)) \subseteq Files
<1>1. FlushLost \in 0 .. Len(debounced)
  BY SizeType DEF FlushLost
<1>2. /\ SubSeq(debounced, FlushLost + 1, Len(debounced)) \in Seq(Event)
      /\ Len(SubSeq(debounced, FlushLost + 1, Len(debounced))) =
           IF FlushLost + 1 <= Len(debounced) THEN Len(debounced) - (FlushLost + 1) + 1 ELSE 0
  <2>1. FlushLost + 1 \in Nat \ {0} /\ Len(debounced) \in 0 .. Len(debounced)
    BY <1>1, SizeType
  <2> QED
    BY <2>1, SubSeqType DEF TypeOK
<1>3. SubSeq(debounced, 1, FlushLost) \in Seq(Event)
  BY <1>1, SubSeqType DEF TypeOK
<1>4. Len(SubSeq(debounced, FlushLost + 1, Len(debounced))) = Len(debounced) - FlushLost
  BY <1>1, <1>2, SizeType
<1> QED
  BY <1>1, <1>2, <1>3, <1>4, SizeType, FilesInType, ConcatProperties DEF TypeOK, FlushedQueue

LEMMA StateAtSizeType ==
  ASSUME TypeOK, NEW n
  PROVE  StateAtSize(n) \in {"normal", "overflow", "full_scan"}
BY DEF TypeOK, StateAtSize, Overflowed

LEMMA RequeuedType ==
  ASSUME TypeOK, NEW n \in Nat
  PROVE  /\ Requeued(n) \in 0 .. n
         /\ Size + Requeued(n) <= MaxQueueSize \/ Requeued(n) = 0
BY SizeType DEF Requeued

-----------------------------------------------------------------------------
(* Types, for any use of the class. *)

LEMMA EndDrainType ==
  ASSUME NEW wq \in Seq(Event), NEW rq \in Nat,
         NEW s \in {"normal", "overflow", "full_scan"}, NEW pending \in Seq(Event),
         TypeOK, EndDrain(wq, rq, s, pending)
  PROVE  /\ phase' = "idle"
         /\ watcherQueue' \in Seq(Event)
         /\ reindexQueue' \in Nat
         /\ state' \in {"normal", "overflow", "full_scan"}
         /\ debounced' \in Seq(Event)
         /\ timers' \subseteq Files
BY EmptySeq DEF EndDrain, TypeOK

\* An event of the watcher keeps the types.
LEMMA EnqueueType ==
  ASSUME TypeOK, NEW e \in [file : Files, type : ReportedTypes], Enqueue(e)
  PROVE  TypeOK'
<1>1. e \in Event /\ e.file \in Files
  BY DEF Event, EventTypes
<1>2. CASE BufferPostScan(e)
  <2>1. Append(postScanQueue, e) \in Seq(Event)
    BY <1>1, AppendProperties DEF TypeOK
  <2> QED
    BY <1>1, <1>2, <2>1 DEF BufferPostScan, TypeOK, queues, drainVars, handlers
<1>3. CASE DropPostScan(e)
  BY <1>1, <1>3 DEF DropPostScan, TypeOK, queues, drainVars, handlers
<1>4. CASE DropOverflowing(e)
  BY <1>1, <1>4 DEF DropOverflowing, TypeOK, queues, postScan, drainVars, handlers
<1>5. CASE DropAtCapacity(e)
  BY <1>1, <1>5 DEF DropAtCapacity, TypeOK, queues, postScan, drainVars, handlers
<1>6. CASE Debounce(e)
  BY <1>1, <1>6, MergedSeq, StateAtSizeType DEF Debounce, TypeOK, postScan, drainVars, handlers
<1> QED
  BY <1>2, <1>3, <1>4, <1>5, <1>6 DEF Enqueue

\* A drain that starts, with reindex requests, with events or with neither.
LEMMA StartDrainType ==
  ASSUME TypeOK, StartDrain
  PROVE  TypeOK'
<1>1. FlushedState \in {"normal", "overflow", "full_scan"}
  BY StateAtSizeType DEF FlushedState, TypeOK
<1>2. <<>> \in Seq(Event) /\ 0 \in Nat
  BY EmptySeq
<1>3. dropped' \subseteq Files
  BY FlushedType DEF StartDrain, TakeBatch, TypeOK
<1>4. /\ rejected' \in Seq(Event) /\ reindexRejected' \in Nat /\ failures' \in 0 .. MaxFailures
      /\ postScanQueue' \in Seq(Event) /\ postScanActive' \in BOOLEAN
      /\ postScanOverflowed' \in BOOLEAN /\ accepted' \subseteq Files
  BY DEF StartDrain, TakeBatch, TypeOK, postScan
<1>5. CASE reindexQueue > 0
  BY <1>1, <1>2, <1>3, <1>4, <1>5, FlushedType DEF StartDrain, TakeBatch, TypeOK
<1>6. CASE ~(reindexQueue > 0) /\ FlushedQueue # <<>>
  BY <1>1, <1>2, <1>3, <1>4, <1>6, FlushedType DEF StartDrain, TakeBatch, TypeOK
<1>7. CASE ~(reindexQueue > 0) /\ FlushedQueue = <<>>
  <2>1. EndDrain(<<>>, 0, FlushedState, <<>>) /\ UNCHANGED <<batch, reindexBatch>>
    BY <1>7 DEF StartDrain, TakeBatch
  <2>2. /\ phase' = "idle" /\ watcherQueue' \in Seq(Event) /\ reindexQueue' \in Nat
        /\ state' \in {"normal", "overflow", "full_scan"}
        /\ debounced' \in Seq(Event) /\ timers' \subseteq Files
    BY <1>1, <1>2, <2>1, EndDrainType
  <2> QED
    BY <1>3, <1>4, <2>1, <2>2 DEF TypeOK
<1> QED
  BY <1>5, <1>6, <1>7

\* The reindex batch has settled: its failures go back, then the watcher events
\* are taken or the drain ends.
LEMMA FinishReindexPhaseType ==
  ASSUME TypeOK, FinishReindexPhase
  PROVE  TypeOK'
<1> DEFINE rq == reindexQueue + Requeued(reindexRejected)
           s == StateAfterRequeue(reindexRejected)
<1>1. rq \in Nat
  <2>1. reindexQueue \in Nat /\ reindexRejected \in Nat
    BY DEF TypeOK
  <2>2. Requeued(reindexRejected) \in Nat
    BY <2>1, RequeuedType
  <2> QED
    BY <2>1, <2>2
<1>2. s \in {"normal", "overflow", "full_scan"}
  BY StateAtSizeType DEF TypeOK, StateAfterRequeue
<1>3. <<>> \in Seq(Event) /\ 0 \in Nat
  BY EmptySeq
<1>4. CASE watcherQueue # <<>>
  BY <1>1, <1>2, <1>3, <1>4 DEF FinishReindexPhase, TypeOK, postScan, history
<1>5. CASE watcherQueue = <<>>
  <2>1. EndDrain(<<>>, rq, s, debounced) /\ UNCHANGED batch
    BY <1>5 DEF FinishReindexPhase
  <2>2. debounced \in Seq(Event)
    BY DEF TypeOK
  <2>3. /\ phase' = "idle" /\ watcherQueue' \in Seq(Event) /\ reindexQueue' \in Nat
        /\ state' \in {"normal", "overflow", "full_scan"}
        /\ debounced' \in Seq(Event) /\ timers' \subseteq Files
    BY <1>1, <1>2, <1>3, <2>1, <2>2, EndDrainType
  <2> QED
    BY <1>3, <2>1, <2>3 DEF FinishReindexPhase, TypeOK, postScan, history
<1> QED
  BY <1>4, <1>5

\* The watcher batch has settled and its failures go back.
LEMMA FinishWatcherPhaseType ==
  ASSUME TypeOK, FinishWatcherPhase
  PROVE  TypeOK'
<1> DEFINE n == Len(rejected)
           wq == watcherQueue \o SubSeq(rejected, 1, Requeued(n))
           s == StateAfterRequeue(n)
<1>1. n \in Nat /\ Requeued(n) \in 0 .. n
  BY SizeType, RequeuedType
<1>2. SubSeq(rejected, 1, Requeued(n)) \in Seq(Event)
  BY <1>1, SubSeqType DEF TypeOK
<1>3. SubSeq(rejected, Requeued(n) + 1, n) \in Seq(Event)
  <2>1. Requeued(n) + 1 \in Nat \ {0} /\ n \in 0 .. n
    BY <1>1
  <2> QED
    BY <1>1, <2>1, SubSeqType DEF TypeOK
<1>4. wq \in Seq(Event)
  BY <1>2, ConcatProperties DEF TypeOK
<1>5. s \in {"normal", "overflow", "full_scan"}
  BY StateAtSizeType DEF TypeOK, StateAfterRequeue
<1>6. EndDrain(wq, reindexQueue, s, debounced)
  BY DEF FinishWatcherPhase
<1>7. /\ phase' = "idle" /\ watcherQueue' \in Seq(Event) /\ reindexQueue' \in Nat
      /\ state' \in {"normal", "overflow", "full_scan"}
      /\ debounced' \in Seq(Event) /\ timers' \subseteq Files
  <2>1. reindexQueue \in Nat /\ debounced \in Seq(Event)
    BY DEF TypeOK
  <2> QED
    BY <1>4, <1>5, <1>6, <2>1, EndDrainType
<1>8. dropped' \subseteq Files
  <2>1. dropped' = dropped \cup FilesIn(SubSeq(rejected, Requeued(n) + 1, n))
    BY DEF FinishWatcherPhase
  <2> QED
    BY <1>3, <2>1, FilesInType DEF TypeOK
<1>9. rejected' \in Seq(Event)
  BY EmptySeq DEF FinishWatcherPhase
<1> QED
  BY <1>7, <1>8, <1>9 DEF FinishWatcherPhase, TypeOK, postScan

\* Every other method, and the handlers.
LEMMA StepType ==
  ASSUME TypeOK, [ApiNext]_vars
  PROVE  TypeOK'
<1>1. CASE ReportChange
  BY <1>1, EnqueueType DEF ReportChange
<1>2. CASE TimerFires
  <2>1. PICK f \in Files : FlushDebounced(f)
    BY <1>2 DEF TimerFires
  <2>2. IndexOf(f) \in DOMAIN debounced /\ debounced \in Seq(Event)
    BY <2>1, IndexOfType DEF FlushDebounced, TypeOK
  <2>3. RemoveAt(debounced, IndexOf(f)) \in Seq(Event)
    BY <2>2, RemoveAtType
  <2>4. debounced[IndexOf(f)] \in Event
    BY <2>2, LenProperties, ElementOfSeq
  <2>5. Append(watcherQueue, debounced[IndexOf(f)]) \in Seq(Event)
    BY <2>4, AppendProperties DEF TypeOK
  <2>6. state' \in {"normal", "overflow", "full_scan"}
    BY <2>1, StateAtSizeType DEF FlushDebounced
  <2> QED
    BY <2>1, <2>3, <2>5, <2>6 DEF FlushDebounced, TypeOK, postScan, drainVars, handlers
<1>3. CASE StartDrain
  BY <1>3, StartDrainType
<1>4. CASE HandlerResolves
  <2>1. PICK i \in 1 .. Concurrency : SettleHandled(i)
    BY <1>4 DEF HandlerResolves
  <2>2. i \in DOMAIN batch /\ batch \in Seq(Event)
    BY <2>1 DEF SettleHandled, Running, TypeOK
  <2>3. RemoveAt(batch, i) \in Seq(Event)
    BY <2>2, RemoveAtType
  <2> QED
    BY <2>1, <2>3 DEF SettleHandled, TypeOK, queues, postScan
<1>5. CASE HandlerRejects
  <2>1. PICK i \in 1 .. Concurrency : SettleRejected(i)
    BY <1>5 DEF HandlerRejects
  <2>2. i \in DOMAIN batch /\ batch \in Seq(Event)
    BY <2>1 DEF SettleRejected, Running, TypeOK
  <2>3. RemoveAt(batch, i) \in Seq(Event)
    BY <2>2, RemoveAtType
  <2>4. batch[i] \in Event
    BY <2>2, LenProperties, ElementOfSeq
  <2>5. Append(rejected, batch[i]) \in Seq(Event)
    BY <2>4, AppendProperties DEF TypeOK
  <2> QED
    BY <2>1, <2>3, <2>5 DEF SettleRejected, TypeOK, queues, postScan, history
<1>6. CASE FinishWatcherPhase
  BY <1>6, FinishWatcherPhaseType
<1>7. CASE MarkFullScanComplete
  <2>1. /\ FilesIn(postScanQueue) \subseteq Files
        /\ FilesIn(batch) \subseteq Files
        /\ FilesIn(rejected) \subseteq Files
    BY FilesInType DEF TypeOK
  <2> QED
    BY <1>7, <2>1, EmptySeq DEF MarkFullScanComplete, TypeOK, postScan, drainVars, handlers
<1>8. CASE EnterPostScanMode \/ StartPostScan
  BY <1>8 DEF EnterPostScanMode, StartPostScan, TypeOK, queues, drainVars, handlers, history
<1>9. CASE DrainPostScanQueue
  <2>1. watcherQueue \o postScanQueue \in Seq(Event)
    BY ConcatProperties DEF TypeOK
  <2> QED
    BY <1>9, <2>1, EmptySeq DEF DrainPostScanQueue, Overflowed, TypeOK, drainVars, handlers, history
<1>10. CASE AbortPostScanMode
  BY <1>10, EmptySeq DEF AbortPostScanMode, TypeOK, queues, drainVars, handlers
<1>11. CASE EnqueueReindex
  <2>1. CASE DropReindexPostScan
    BY <2>1 DEF DropReindexPostScan, TypeOK, queues, drainVars, handlers, history
  <2>2. CASE RequestReindex
    BY <2>2, StateAtSizeType DEF RequestReindex, TypeOK, postScan, drainVars, handlers, history
  <2> QED
    BY <1>11, <2>1, <2>2 DEF EnqueueReindex
<1>12. CASE SettleReindex
  BY <1>12 DEF SettleReindex, TypeOK, queues, postScan, history
<1>13. CASE FinishReindexPhase
  BY <1>13, FinishReindexPhaseType
<1>14. CASE Clear
  <2>1. FilesIn(batch) \subseteq Files /\ FilesIn(rejected) \subseteq Files
    BY FilesInType DEF TypeOK
  <2> QED
    BY <1>14, <2>1, EmptySeq DEF Clear, TypeOK, drainVars, handlers
<1>15. CASE UNCHANGED vars
  BY <1>15 DEF vars, TypeOK, queues, postScan, drainVars, handlers, history
<1> QED
  BY <1>1, <1>2, <1>3, <1>4, <1>5, <1>6, <1>7, <1>8, <1>9, <1>10, <1>11, <1>12, <1>13, <1>14,
     <1>15 DEF ApiNext, Next

\* Whatever sequence of public methods, timers and handlers runs, the fields keep
\* their types.
THEOREM TypesPreserved == ApiSpec => []TypeOK
<1>1. Init => TypeOK
  <2>1. <<>> \in Seq(Event)
    BY EmptySeq
  <2>2. 0 \in 0 .. MaxFailures /\ 0 \in Nat
    OBVIOUS
  <2> QED
    BY <2>1, <2>2, Zenon DEF Init, TypeOK
<1>2. TypeOK /\ [ApiNext]_vars => TypeOK'
  BY StepType
<1> QED
  BY <1>1, <1>2, PTL DEF ApiSpec

-----------------------------------------------------------------------------
(* The debt of dropped events, for any use of the class. *)

LEMMA StateAtSizeOwes ==
  ASSUME TypeOK, NEW n \in Nat
  PROVE  /\ n >= FullScanThreshold => StateAtSize(n) # "normal"
         /\ state # "normal" => StateAtSize(n) # "normal"
BY DEF TypeOK, StateAtSize, Overflowed

\* A step that drops events, or keeps the dropped ones, leaves a scan owed.
LEMMA DropsStep ==
  ASSUME TypeOK, DropsOweScan, [ApiNext]_vars
  PROVE  DropsOweScan'
<1> USE DEF DropsOweScan, ScanOwed
<1>1. ASSUME NEW e \in [file : Files, type : ReportedTypes], Enqueue(e)
      PROVE  DropsOweScan'
  <2>1. CASE Debounce(e)
    <3>1. state = "normal" /\ UNCHANGED <<postScan, dropped>>
      BY <2>1 DEF Debounce
    <3> QED
      BY <3>1 DEF postScan
  <2>2. CASE DropAtCapacity(e)
    BY <2>2 DEF DropAtCapacity
  <2>3. CASE BufferPostScan(e) \/ DropPostScan(e) \/ DropOverflowing(e)
    BY <2>3 DEF BufferPostScan, DropPostScan, DropOverflowing, postScan, queues
  <2> QED
    BY <1>1, <2>1, <2>2, <2>3 DEF Enqueue
<1>2. ASSUME NEW f \in Files, FlushDebounced(f)
      PROVE  DropsOweScan'
  <2> DEFINE fits == Size - 1 < MaxQueueSize
  <2>1. Size \in Nat /\ Size # 0
    <3>1. IndexOf(f) \in DOMAIN debounced
      BY <1>2, IndexOfType DEF FlushDebounced
    <3>2. Len(debounced) # 0
      BY <3>1, LenProperties DEF TypeOK
    <3>3. Len(watcherQueue) \in Nat /\ reindexQueue \in Nat /\ Len(debounced) \in Nat
      BY SizeType DEF TypeOK
    <3> QED
      BY <3>2, <3>3 DEF Size
  <2>2. state' = StateAtSize(IF fits THEN Size ELSE Size - 1)
    BY <1>2 DEF FlushDebounced
  <2>3. UNCHANGED postScanOverflowed
    BY <1>2 DEF FlushDebounced, postScan
  <2>4. CASE fits
    <3>1. dropped' = dropped
      BY <1>2, <2>4 DEF FlushDebounced
    <3> QED
      BY <2>1, <2>2, <2>3, <2>4, <3>1, StateAtSizeOwes
  <2>5. CASE ~fits
    <3>1. Size - 1 \in Nat /\ Size - 1 >= FullScanThreshold
      BY <2>1, <2>5
    <3> QED
      BY <2>2, <2>5, <3>1, StateAtSizeOwes
  <2> QED
    BY <2>4, <2>5
<1>3. ASSUME NEW wq, NEW rq, NEW s, NEW pending, EndDrain(wq, rq, s, pending), s # "normal"
      PROVE  state' # "normal"
  BY <1>3 DEF EndDrain
<1>4. CASE StartDrain
  <2>1. dropped # {} => state # "normal" \/ postScanOverflowed
    OBVIOUS
  <2>2. UNCHANGED postScanOverflowed
    BY <1>4 DEF StartDrain, TakeBatch, postScan
  <2>3. state # "normal" => FlushedState # "normal"
    BY SizeType, StateAtSizeOwes DEF FlushedState
  <2>4. FlushLost # 0 => FlushedState # "normal"
    <3>1. FlushLost # 0 => Size >= FullScanThreshold /\ Size \in Nat /\ Len(debounced) # 0
      BY SizeType DEF FlushLost
    <3>2. Len(debounced) # 0 => debounced # <<>>
      BY EmptySeq
    <3> QED
      BY <3>1, <3>2, StateAtSizeOwes DEF FlushedState
  <2>5. FlushLost = 0 => FilesIn(SubSeq(debounced, 1, FlushLost)) = {}
    <3>1. SUFFICES ASSUME FlushLost = 0
                   PROVE  FilesIn(SubSeq(debounced, 1, FlushLost)) = {}
      OBVIOUS
    <3>2. SubSeq(debounced, 1, 0) = <<>>
      BY SubSeqEmpty
    <3> QED
      BY <3>1, <3>2 DEF FilesIn
  <2>6. dropped' # {} => FlushedState # "normal" \/ postScanOverflowed
    BY <1>4, <2>1, <2>3, <2>4, <2>5 DEF StartDrain, TakeBatch
  <2>7. FlushedState # "normal" => state' # "normal"
    BY <1>3, <1>4 DEF StartDrain, TakeBatch
  <2> QED
    BY <2>2, <2>6, <2>7
<1>5. ASSUME NEW n \in Nat
      PROVE  /\ state # "normal" => StateAfterRequeue(n) # "normal"
             /\ Requeued(n) # n => StateAfterRequeue(n) # "normal"
  <2>1. Requeued(n) \in 0 .. n /\ Size \in Nat
    BY <1>5, RequeuedType, SizeType
  <2>2. Requeued(n) # n => n # 0 /\ Size + Requeued(n) >= FullScanThreshold
    BY <1>5, <2>1 DEF Requeued
  <2>3. Size + Requeued(n) \in Nat
    BY <2>1
  <2> QED
    BY <2>2, <2>3, StateAtSizeOwes DEF StateAfterRequeue
<1>6. CASE FinishReindexPhase
  <2>1. reindexRejected \in Nat
    BY DEF TypeOK
  <2>2. state # "normal" => state' # "normal"
    BY <1>3, <1>5, <1>6, <2>1 DEF FinishReindexPhase
  <2> QED
    BY <1>6, <2>2 DEF FinishReindexPhase, postScan, history
<1>7. CASE FinishWatcherPhase
  <2> DEFINE n == Len(rejected)
  <2>1. n \in Nat /\ Requeued(n) \in 0 .. n
    BY SizeType, RequeuedType
  <2>2. StateAfterRequeue(n) # "normal" => state' # "normal"
    BY <1>3, <1>7 DEF FinishWatcherPhase
  <2>3. Requeued(n) = n => dropped' = dropped
    <3>1. SUFFICES ASSUME Requeued(n) = n
                   PROVE  FilesIn(SubSeq(rejected, Requeued(n) + 1, n)) = {}
      BY <1>7 DEF FinishWatcherPhase
    <3>2. SubSeq(rejected, n + 1, n) = <<>>
      BY <2>1, SubSeqEmpty
    <3> QED
      BY <3>1, <3>2 DEF FilesIn
  <2>4. UNCHANGED postScanOverflowed
    BY <1>7 DEF FinishWatcherPhase, postScan
  <2> QED
    BY <1>5, <2>1, <2>2, <2>3, <2>4
<1>8. CASE DrainPostScanQueue
  BY <1>8 DEF DrainPostScanQueue, Overflowed, history
<1>9. CASE MarkFullScanComplete \/ AbortPostScanMode \/ Clear
  BY <1>9 DEF MarkFullScanComplete, AbortPostScanMode, Clear, queues
<1>10. CASE EnterPostScanMode \/ StartPostScan
  BY <1>10 DEF EnterPostScanMode, StartPostScan, history
<1>11. CASE HandlerResolves \/ HandlerRejects \/ SettleReindex
  BY <1>11 DEF HandlerResolves, HandlerRejects, SettleHandled, SettleRejected, SettleReindex,
               postScan, history
<1>12. CASE EnqueueReindex
  <2>1. CASE DropReindexPostScan
    BY <2>1 DEF DropReindexPostScan, history
  <2>2. CASE RequestReindex
    <3>1. state = "normal" /\ UNCHANGED <<postScan, dropped>>
      BY <2>2 DEF RequestReindex, history
    <3> QED
      BY <3>1 DEF postScan
  <2> QED
    BY <1>12, <2>1, <2>2 DEF EnqueueReindex
<1>13. CASE UNCHANGED vars
  BY <1>13 DEF vars, postScan, history
<1> QED
  BY <1>1, <1>2, <1>4, <1>6, <1>7, <1>8, <1>9, <1>10, <1>11, <1>12, <1>13
     DEF ApiNext, Next, ReportChange, TimerFires

\* A change the queue dropped, at whatever of its five places, keeps a full scan
\* owed until one completes or the queue is cleared.
THEOREM DropsKeepScanOwed == ApiSpec => []DropsOweScan
<1>1. Init => DropsOweScan
  BY DEF Init, DropsOweScan
<1>2. DropsOweScan /\ TypeOK /\ [ApiNext]_vars => DropsOweScan'
  BY DropsStep
<1> QED
  BY <1>1, <1>2, TypesPreserved, PTL DEF ApiSpec

-----------------------------------------------------------------------------
(* The capacity, for the use the runtime makes of the class. *)

\* Flushing what is debounced neither adds nor overfills.
LEMMA FlushedFits ==
  ASSUME TypeOK
  PROVE  /\ Size <= MaxQueueSize =>
                Len(FlushedQueue) + reindexQueue = Size
         /\ Len(FlushedQueue) \in Nat
<1>1. Len(FlushedQueue) \in Nat
  BY FlushedType, LenProperties
<1>2. Size <= MaxQueueSize => FlushLost = 0
  BY SizeType DEF FlushLost
<1>3. reindexQueue \in Nat
  BY DEF TypeOK
<1> QED
  BY <1>1, <1>2, <1>3, FlushedType, SizeType DEF Size

\* An empty buffer adds nothing.
LEMMA EmptyBufferFits ==
  ASSUME NEW n \in Nat, NEW buffer, buffer = <<>>, n <= MaxQueueSize
  PROVE  n + Len(buffer) <= MaxQueueSize
BY EmptySeq

\* What is held after the tail of a drain is at most what it was given.
LEMMA EndDrainFits ==
  ASSUME NEW wq \in Seq(Event), NEW s, NEW pending \in Seq(Event),
         EndDrain(wq, 0, s, pending)
  PROVE  /\ phase' = "idle" /\ reindexQueue' = 0
         /\ Size' \in Nat
         /\ Size' <= Len(wq) + Len(pending)
<1>1. /\ phase' = "idle" /\ reindexQueue' = 0 /\ watcherQueue' = wq
      /\ debounced' = <<>> \/ debounced' = pending
  BY DEF EndDrain
<1>2. Len(wq) \in Nat /\ Len(pending) \in Nat
  BY LenProperties
<1>3. Len(<<>>) = 0
  BY EmptySeq
<1> QED
  BY <1>1, <1>2, <1>3 DEF Size

LEMMA CapacityStep ==
  ASSUME CapacityInv, [Next]_vars
  PROVE  CapacityInv'
<1>0. TypeOK'
  BY StepType DEF CapacityInv, ApiNext
<1>a. TypeOK /\ NoReindexRequests /\ BatchOnlyWhileDraining /\ PostScanIsQuiet /\ SizeBounded
  BY DEF CapacityInv
<1>b. /\ Len(watcherQueue) \in Nat /\ Len(debounced) \in Nat /\ Len(postScanQueue) \in Nat
      /\ Size \in Nat /\ reindexQueue = 0
      /\ Size = Len(watcherQueue) + Len(debounced)
  BY <1>a, SizeType DEF NoReindexRequests, Size
<1>c. Len(<<>>) = 0
  BY EmptySeq
<1>d. Size' = Len(watcherQueue') + reindexQueue' + Len(debounced')
  BY DEF Size
<1> USE DEF CapacityInv, NoReindexRequests, BatchOnlyWhileDraining, PostScanIsQuiet, SizeBounded
<1>1. ASSUME NEW e \in [file : Files, type : ReportedTypes], Enqueue(e)
      PROVE  CapacityInv'
  <2>1. CASE BufferPostScan(e)
    <3>1. Len(postScanQueue') = Len(postScanQueue) + 1
      BY <1>a, <2>1, AppendProperties DEF BufferPostScan, TypeOK
    <3>2. Size' = Size
      BY <2>1 DEF BufferPostScan, queues, Size
    <3> QED
      BY <1>0, <1>a, <1>b, <2>1, <3>1, <3>2 DEF BufferPostScan, queues, drainVars, handlers
  <2>2. CASE DropPostScan(e) \/ DropOverflowing(e) \/ DropAtCapacity(e)
    <3>1. Size' = Size
      BY <2>2 DEF DropPostScan, DropOverflowing, DropAtCapacity, queues, Size
    <3> QED
      BY <1>0, <1>a, <2>2, <3>1
         DEF DropPostScan, DropOverflowing, DropAtCapacity, queues, postScan, drainVars, handlers
  <2>3. CASE Debounce(e)
    <3>1. Len(Merged(e)) \in Nat
      BY <1>a, MergedSeq, LenProperties
    <3>2. Size' = SizeWith(Merged(e)) /\ Size' <= MaxQueueSize
      BY <1>b, <1>d, <2>3, <3>1 DEF Debounce, SizeWith
    <3>3. UNCHANGED <<postScan, drainVars, reindexQueue>> /\ ~postScanActive
      BY <2>3 DEF Debounce
    <3> QED
      BY <1>0, <1>a, <1>c, <1>d, <3>1, <3>2, <3>3 DEF postScan, drainVars, handlers
  <2> QED
    BY <1>1, <2>1, <2>2, <2>3 DEF Enqueue
<1>2. ASSUME NEW f \in Files, FlushDebounced(f)
      PROVE  CapacityInv'
  <2>1. Len(RemoveAt(debounced, IndexOf(f))) = Len(debounced) - 1
    BY <1>a, <1>2, IndexOfType, RemoveAtType DEF FlushDebounced, TypeOK
  <2>2. Len(debounced) # 0
    <3>1. IndexOf(f) \in DOMAIN debounced
      BY <1>2, IndexOfType DEF FlushDebounced
    <3> QED
      BY <1>a, <3>1, LenProperties DEF TypeOK
  <2>3. Len(watcherQueue') = Len(watcherQueue) + 1 \/ Len(watcherQueue') = Len(watcherQueue)
    <3>1. debounced[IndexOf(f)] \in Event
      BY <1>a, <1>2, IndexOfType, LenProperties, ElementOfSeq DEF FlushDebounced, TypeOK
    <3> QED
      BY <1>a, <1>2, <3>1, AppendProperties DEF FlushDebounced, TypeOK
  <2>4. UNCHANGED <<postScan, drainVars, reindexQueue>> /\ ~postScanActive
    BY <1>2, <1>a, <1>b, <2>2 DEF FlushDebounced
  <2>5. Size' \in Nat /\ Size' <= Size
    BY <1>2, <1>b, <1>d, <2>1, <2>2, <2>3, <2>4 DEF FlushDebounced
  <2>6. Size' + Len(postScanQueue') <= MaxQueueSize
    <3>1. Size + Len(postScanQueue) <= MaxQueueSize
      BY <1>a
    <3>2. postScanQueue' = postScanQueue
      BY <2>4 DEF postScan
    <3>3. Len(postScanQueue') = Len(postScanQueue)
      BY <3>2
    <3> QED
      BY <1>b, <2>5, <3>1, <3>3
  <2>7. postScanQueue' = <<>> /\ ~postScanActive'
    BY <1>a, <2>4 DEF postScan
  <2> QED
    BY <1>0, <1>a, <2>4, <2>6, <2>7 DEF drainVars, handlers
<1>3. CASE StartDrain
  <2>1. /\ phase = "idle" /\ batch = <<>> /\ rejected = <<>>
        /\ UNCHANGED <<rejected, reindexRejected, failures, postScan>>
    BY <1>3, <1>a DEF StartDrain, TakeBatch
  <2>2. Len(FlushedQueue) = Size /\ FlushedQueue \in Seq(Event)
    BY <1>a, <1>b, FlushedFits, FlushedType
  <2>3. CASE FlushedQueue # <<>>
    <3>1. /\ phase' = "watcher" /\ watcherQueue' = <<>> /\ debounced' = <<>>
          /\ UNCHANGED <<reindexQueue, reindexBatch>>
      BY <1>3, <1>b, <2>3 DEF StartDrain, TakeBatch
    <3>2. Size' = 0
      BY <1>b, <1>c, <1>d, <3>1
    <3>3. Size # 0
      BY <2>2, <2>3, EmptySeq
    <3> QED
      BY <1>0, <1>a, <1>b, <1>c, <2>1, <3>1, <3>2, <3>3 DEF postScan
  <2>4. CASE FlushedQueue = <<>>
    <3>1. EndDrain(<<>>, 0, FlushedState, <<>>) /\ UNCHANGED <<batch, reindexBatch>>
      BY <1>3, <1>b, <2>4 DEF StartDrain, TakeBatch
    <3>2. phase' = "idle" /\ reindexQueue' = 0 /\ Size' \in Nat /\ Size' <= 0 + 0
      BY <1>c, <3>1, EmptySeq, EndDrainFits
    <3> QED
      BY <1>0, <1>a, <1>b, <1>c, <2>1, <3>1, <3>2 DEF postScan
  <2> QED
    BY <2>3, <2>4
<1>4. CASE HandlerResolves \/ HandlerRejects
  <2>1. UNCHANGED <<queues, postScan, phase, reindexBatch, reindexRejected>>
    BY <1>4 DEF HandlerResolves, HandlerRejects, SettleHandled, SettleRejected
  <2>2. batch # <<>>
    BY <1>4 DEF HandlerResolves, HandlerRejects, SettleHandled, SettleRejected, Running
  <2>3. Size' = Size
    BY <2>1 DEF queues, Size
  <2> QED
    BY <1>0, <1>a, <2>1, <2>2, <2>3 DEF queues, postScan
<1>5. CASE FinishWatcherPhase
  <2> DEFINE n == Len(rejected)
             back == SubSeq(rejected, 1, Requeued(n))
  <2>1. n \in Nat /\ Requeued(n) \in 0 .. n
    BY <1>a, SizeType, RequeuedType
  <2>2. back \in Seq(Event) /\ Len(back) = Requeued(n)
    BY <1>a, <2>1, SubSeqType DEF TypeOK
  <2>3. /\ watcherQueue \o back \in Seq(Event)
        /\ Len(watcherQueue \o back) = Len(watcherQueue) + Requeued(n)
    BY <1>a, <2>2, ConcatProperties DEF TypeOK
  <2>4. EndDrain(watcherQueue \o back, 0, StateAfterRequeue(n), debounced)
    BY <1>5, <1>b DEF FinishWatcherPhase
  <2>5. /\ phase' = "idle" /\ reindexQueue' = 0
        /\ Size' \in Nat /\ Size' <= Len(watcherQueue) + Requeued(n) + Len(debounced)
    <3>1. debounced \in Seq(Event)
      BY <1>a DEF TypeOK
    <3>2. Size' <= Len(watcherQueue \o back) + Len(debounced)
      BY <2>3, <2>4, <3>1, EndDrainFits
    <3> QED
      BY <2>3, <2>4, <3>1, <3>2, EndDrainFits
  <2>6. Size + Requeued(n) <= MaxQueueSize
    BY <1>a, <1>b, <2>1, RequeuedType
  <2>7. Size' <= MaxQueueSize
    BY <1>b, <2>1, <2>5, <2>6
  <2>8. /\ ~postScanActive' /\ postScanQueue' = <<>> /\ batch' = <<>> /\ rejected' = <<>>
        /\ UNCHANGED <<reindexBatch, reindexRejected>>
    BY <1>5, <1>a DEF FinishWatcherPhase, postScan
  <2>9. Size' + Len(postScanQueue') <= MaxQueueSize
    <3>1. Size' \in Nat /\ postScanQueue' = <<>>
      BY <2>5, <2>8
    <3> QED
      BY <2>7, <3>1, EmptyBufferFits
  <2> QED
    BY <1>0, <1>a, <2>5, <2>8, <2>9
<1>6. CASE MarkFullScanComplete
  <2>1. Size' = 0
    BY <1>6, <1>c, <1>d DEF MarkFullScanComplete
  <2> QED
    BY <1>0, <1>6, <1>a, <1>b, <1>c, <2>1 DEF MarkFullScanComplete, postScan, drainVars, handlers
<1>7. CASE StartPostScan
  <2>1. Size' = Size
    BY <1>7 DEF StartPostScan, EnterPostScanMode, queues, Size
  <2> QED
    BY <1>0, <1>7, <1>a, <2>1
       DEF StartPostScan, EnterPostScanMode, queues, drainVars, handlers
<1>8. CASE DrainPostScanQueue
  <2>1. Len(watcherQueue') = Len(watcherQueue) + Len(postScanQueue)
    BY <1>8, <1>a, ConcatProperties DEF DrainPostScanQueue, TypeOK
  <2>2. Size' = Size + Len(postScanQueue)
    BY <1>8, <1>b, <1>d, <2>1 DEF DrainPostScanQueue
  <2> QED
    BY <1>0, <1>8, <1>a, <1>b, <1>c, <2>2 DEF DrainPostScanQueue, drainVars, handlers
<1>9. CASE AbortPostScanMode
  <2>1. Size' = Size
    BY <1>9 DEF AbortPostScanMode, queues, Size
  <2> QED
    BY <1>0, <1>9, <1>a, <1>b, <1>c, <2>1 DEF AbortPostScanMode, queues, drainVars, handlers
<1>10. CASE UNCHANGED vars
  <2>1. Size' = Size
    BY <1>10 DEF vars, queues, Size
  <2> QED
    BY <1>0, <1>10, <1>a, <2>1 DEF vars, queues, postScan, drainVars, handlers
<1> QED
  BY <1>1, <1>2, <1>3, <1>4, <1>5, <1>6, <1>7, <1>8, <1>9, <1>10
     DEF Next, ReportChange, TimerFires

LEMMA InitFits == Init => CapacityInv
<1>1. Init => TypeOK
  <2>1. <<>> \in Seq(Event)
    BY EmptySeq
  <2>2. 0 \in 0 .. MaxFailures /\ 0 \in Nat
    OBVIOUS
  <2> QED
    BY <2>1, <2>2, Zenon DEF Init, TypeOK
<1>2. Init => Size = 0 /\ Len(postScanQueue) = 0
  BY EmptySeq DEF Init, Size
<1> QED
  BY <1>1, <1>2 DEF Init, CapacityInv, NoReindexRequests, BatchOnlyWhileDraining,
                    PostScanIsQuiet, SizeBounded

\* As the runtime uses it the queue never holds more than its capacity, although
\* failed events and the post-scan buffer reach the queue by other ways than
\* enqueue().
THEOREM CapacityRespected == Spec => []SizeBounded
<1>1. Init => CapacityInv
  BY InitFits
<1>2. CapacityInv /\ [Next]_vars => CapacityInv'
  BY CapacityStep
<1>3. CapacityInv => SizeBounded
  BY DEF CapacityInv
<1> QED
  BY <1>1, <1>2, <1>3, PTL DEF Spec

-----------------------------------------------------------------------------
(* Accepted changes, for any use of the class. *)

LEMMA FilesInAppend ==
  ASSUME NEW s \in Seq(Event), NEW e \in Event
  PROVE  FilesIn(Append(s, e)) = FilesIn(s) \cup {e.file}
<1>1. /\ Len(Append(s, e)) = Len(s) + 1 /\ Len(s) \in Nat
      /\ \A i \in 1 .. Len(s) : Append(s, e)[i] = s[i]
      /\ Append(s, e)[Len(s) + 1] = e
      /\ DOMAIN Append(s, e) = 1 .. Len(s) + 1 /\ DOMAIN s = 1 .. Len(s)
  BY AppendProperties, LenProperties
<1>2. 1 .. Len(s) + 1 = 1 .. Len(s) \cup {Len(s) + 1}
  BY <1>1
<1> QED BY <1>1, <1>2 DEF FilesIn

LEMMA FilesInConcat ==
  ASSUME NEW s \in Seq(Event), NEW t \in Seq(Event)
  PROVE  FilesIn(s \o t) = FilesIn(s) \cup FilesIn(t)
<1> DEFINE c == s \o t
           m == Len(s)
           n == Len(t)
<1>1. /\ m \in Nat /\ n \in Nat /\ DOMAIN s = 1 .. m /\ DOMAIN t = 1 .. n
      /\ c \in Seq(Event) /\ Len(c) = m + n /\ DOMAIN c = 1 .. m + n
      /\ \A i \in 1 .. m + n : c[i] = IF i <= m THEN s[i] ELSE t[i - m]
  BY ConcatProperties, LenProperties
<1> HIDE DEF c, m, n
<1>2. ASSUME NEW i \in DOMAIN c PROVE c[i].file \in FilesIn(s) \cup FilesIn(t)
  <2>1. CASE i <= m
    BY <1>1, <2>1 DEF FilesIn
  <2>2. CASE ~(i <= m)
    <3>1. i - m \in 1 .. n /\ c[i] = t[i - m]
      BY <1>1, <2>2
    <3> QED BY <1>1, <3>1 DEF FilesIn
  <2> QED BY <2>1, <2>2
<1>3. ASSUME NEW i \in DOMAIN s PROVE s[i].file \in FilesIn(c)
  <2>1. i \in 1 .. m + n /\ c[i] = s[i]
    BY <1>1
  <2> QED BY <1>1, <2>1 DEF FilesIn
<1>4. ASSUME NEW i \in DOMAIN t PROVE t[i].file \in FilesIn(c)
  <2>1. m + i \in 1 .. m + n /\ ~(m + i <= m) /\ (m + i) - m = i
    BY <1>1
  <2>2. c[m + i] = t[i]
    BY <1>1, <2>1
  <2> QED BY <1>1, <2>1, <2>2 DEF FilesIn
<1>5. FilesIn(c) = FilesIn(s) \cup FilesIn(t)
  BY <1>2, <1>3, <1>4 DEF FilesIn
<1> QED BY <1>5 DEF c

\* Only the file of the element that is removed may be missing.
LEMMA FilesInRemoveAt ==
  ASSUME NEW s \in Seq(Event), NEW i \in DOMAIN s
  PROVE  FilesIn(s) \subseteq FilesIn(RemoveAt(s, i)) \cup {s[i].file}
<1>1. Len(s) \in Nat /\ DOMAIN s = 1 .. Len(s) /\ i \in 1 .. Len(s)
  BY LenProperties
<1> DEFINE l == SubSeq(s, 1, i - 1)
           r == SubSeq(s, i + 1, Len(s))
<1>2. \A j \in 1 .. Len(s) : s[j] \in Event
  BY ElementOfSeq
<1>3. l \in Seq(Event) /\ Len(l) = i - 1 /\ \A j \in 1 .. i - 1 : l[j] = s[j]
  <2>1. \A j \in 1 .. i - 1 : s[j] \in Event
    BY <1>1, <1>2
  <2>2. i - 1 \in Int /\ 1 \in Int
    BY <1>1
  <2> QED BY <1>1, <2>1, <2>2, SubSeqProperties
<1>4. r \in Seq(Event) /\ Len(r) = Len(s) - i /\ \A j \in 1 .. Len(s) - i : r[j] = s[i + j]
  <2>1. \A j \in i + 1 .. Len(s) : s[j] \in Event
    BY <1>1, <1>2
  <2>2. i + 1 \in Int /\ Len(s) \in Int
    BY <1>1
  <2>3. /\ r \in Seq(Event)
        /\ Len(r) = IF i + 1 <= Len(s) THEN Len(s) - (i + 1) + 1 ELSE 0
        /\ \A j \in 1 .. Len(s) - (i + 1) + 1 : r[j] = s[(i + 1) + j - 1]
    BY <2>1, <2>2, SubSeqProperties
  <2> QED BY <1>1, <2>3
<1>5. DOMAIN l = 1 .. i - 1 /\ DOMAIN r = 1 .. Len(s) - i
  BY <1>3, <1>4, LenProperties
<1>6. FilesIn(RemoveAt(s, i)) = FilesIn(l) \cup FilesIn(r)
  BY <1>3, <1>4, FilesInConcat DEF RemoveAt
<1> HIDE DEF l, r
<1>7. ASSUME NEW j \in DOMAIN s, j # i PROVE s[j].file \in FilesIn(l) \cup FilesIn(r)
  <2>1. CASE j < i
    <3>1. j \in 1 .. i - 1
      BY <1>1, <2>1
    <3> QED BY <1>3, <1>5, <3>1 DEF FilesIn
  <2>2. CASE ~(j < i)
    <3>1. j - i \in 1 .. Len(s) - i /\ i + (j - i) = j
      BY <1>1, <1>7, <2>2
    <3>2. r[j - i] = s[j]
      BY <1>4, <3>1
    <3> QED BY <1>5, <3>1, <3>2 DEF FilesIn
  <2> QED BY <2>1, <2>2
<1> QED BY <1>6, <1>7 DEF FilesIn

LEMMA SubSeqWhole ==
  ASSUME NEW s \in Seq(Event)
  PROVE  SubSeq(s, 1, Len(s)) = s
<1>1. Len(s) \in Nat /\ s \in [1 .. Len(s) -> Event]
  BY LenProperties
<1>2. \A j \in 1 .. Len(s) : s[j] \in Event
  BY <1>1
<1>3. 1 \in Int /\ Len(s) \in Int
  BY <1>1
<1>4. /\ SubSeq(s, 1, Len(s)) \in Seq(Event)
      /\ Len(SubSeq(s, 1, Len(s))) = Len(s)
      /\ \A j \in 1 .. Len(s) : SubSeq(s, 1, Len(s))[j] = s[j]
  <2>1. /\ SubSeq(s, 1, Len(s)) \in Seq(Event)
        /\ Len(SubSeq(s, 1, Len(s))) = IF 1 <= Len(s) THEN Len(s) - 1 + 1 ELSE 0
        /\ \A j \in 1 .. Len(s) - 1 + 1 : SubSeq(s, 1, Len(s))[j] = s[1 + j - 1]
    BY <1>2, <1>3, SubSeqProperties
  <2> QED BY <1>1, <2>1
<1> QED BY <1>4, SeqEqual
LEMMA HeldParts ==
  Held = FilesIn(debounced) \cup FilesIn(watcherQueue) \cup FilesIn(postScanQueue)
           \cup FilesIn(batch) \cup FilesIn(rejected)
  BY DEF Held

\* Only the file of the event that is merged may leave what is debounced.
LEMMA FilesInMerged ==
  ASSUME TypeOK, NEW e \in [file : Files, type : ReportedTypes]
  PROVE  FilesIn(debounced) \subseteq FilesIn(Merged(e)) \cup {e.file}
<1>1. e \in Event /\ debounced \in Seq(Event)
  BY DEF Event, EventTypes, TypeOK
<1>2. CASE ~IsDebounced(e.file)
  BY <1>1, <1>2, FilesInAppend DEF Merged
<1>3. CASE IsDebounced(e.file)
  <2> DEFINE i == IndexOf(e.file)
             type == MergedType(debounced[i].type, e.type)
             new == [e EXCEPT !.type = type]
  <2>1. i \in DOMAIN debounced /\ debounced[i].file = e.file
    BY <1>3, IndexOfType
  <2>2. CASE type = "cancelled"
    <3>1. Merged(e) = RemoveAt(debounced, i)
      BY <1>3, <2>2 DEF Merged
    <3> QED BY <1>1, <2>1, <3>1, FilesInRemoveAt
  <2>3. CASE type # "cancelled"
    <3>1. Merged(e) = [debounced EXCEPT ![i] = new]
      BY <1>3, <2>3 DEF Merged, ReplaceAt
    <3>2. DOMAIN Merged(e) = DOMAIN debounced /\ \A j \in DOMAIN debounced \ {i} :
            Merged(e)[j] = debounced[j]
      BY <3>1
    <3> QED BY <2>1, <3>2 DEF FilesIn
  <2> QED BY <2>2, <2>3
<1> QED BY <1>2, <1>3

\* A batch is awaited in its phase only.
HandlersInPhase == phase # "watcher" => batch = <<>> /\ rejected = <<>>

LEMMA HandlersInPhaseStep == TypeOK /\ HandlersInPhase /\ [ApiNext]_vars => HandlersInPhase'
<1> SUFFICES ASSUME TypeOK, HandlersInPhase, [ApiNext]_vars PROVE HandlersInPhase'
  OBVIOUS
<1> USE DEF HandlersInPhase
<1>1. CASE ReportChange
  BY <1>1 DEF ReportChange, Enqueue, BufferPostScan, DropPostScan, DropOverflowing,
     DropAtCapacity, Debounce, drainVars, handlers
<1>2. CASE StartDrain
  BY <1>2 DEF StartDrain, TakeBatch
<1>3. CASE HandlerResolves \/ HandlerRejects
  <2>1. DOMAIN batch # {} /\ UNCHANGED phase
    BY <1>3 DEF HandlerResolves, HandlerRejects, SettleHandled, SettleRejected, Running
  <2>2. batch # <<>>
    BY <2>1, EmptySeq, LenProperties DEF TypeOK
  <2> QED BY <2>1, <2>2
<1>4. CASE FinishReindexPhase
  BY <1>4 DEF FinishReindexPhase, EndDrain
<1>5. CASE FinishWatcherPhase
  BY <1>5 DEF FinishWatcherPhase
<1>6. CASE MarkFullScanComplete \/ StartPostScan \/ EnterPostScanMode \/ DrainPostScanQueue
           \/ AbortPostScanMode \/ Clear \/ SettleReindex
  BY <1>6 DEF MarkFullScanComplete, StartPostScan, EnterPostScanMode, DrainPostScanQueue,
     AbortPostScanMode, Clear, SettleReindex, drainVars, handlers
<1>7. CASE TimerFires \/ EnqueueReindex \/ UNCHANGED vars
  BY <1>7 DEF TimerFires, FlushDebounced, EnqueueReindex, DropReindexPostScan, RequestReindex,
     vars, drainVars, handlers
<1> QED BY <1>1, <1>2, <1>3, <1>4, <1>5, <1>6, <1>7 DEF ApiNext, Next

\* When no scan is owed, a drain that starts loses no event.
LEMMA DrainTakesAll ==
  ASSUME TypeOK, FlushedState = "normal"
  PROVE  FilesIn(FlushedQueue) = FilesIn(watcherQueue) \cup FilesIn(debounced)
<1>1. FlushLost # 0 => Size >= FullScanThreshold /\ Size \in Nat /\ Len(debounced) # 0
  BY SizeType DEF FlushLost
<1>2. FlushLost = 0
  BY <1>1, EmptySeq, StateAtSizeOwes DEF FlushedState
<1>3. FlushedQueue = watcherQueue \o debounced
  <2>1. SubSeq(debounced, 1, Len(debounced)) = debounced
    BY SubSeqWhole DEF TypeOK
  <2>2. FlushLost + 1 = 1
    BY <1>2
  <2> QED BY <2>1, <2>2 DEF FlushedQueue
<1> QED BY <1>3, FilesInConcat DEF TypeOK

\* Nor does one that ends forget a rejected one.
LEMMA RequeuedAll ==
  ASSUME TypeOK, StateAfterRequeue(Len(rejected)) = "normal"
  PROVE  SubSeq(rejected, 1, Requeued(Len(rejected))) = rejected
<1> DEFINE n == Len(rejected)
<1>1. n \in Nat /\ Requeued(n) \in 0 .. n /\ Size \in Nat
  BY SizeType, RequeuedType
<1>2. Requeued(n) # n => n # 0 /\ Size + Requeued(n) >= FullScanThreshold
  BY <1>1 DEF Requeued
<1>3. Requeued(n) = n
  BY <1>1, <1>2, StateAtSizeOwes DEF StateAfterRequeue
<1> QED BY <1>3, SubSeqWhole DEF TypeOK

\* A step after which no scan is owed keeps every accepted change in a queue.
LEMMA AcceptedStep ==
  ASSUME TypeOK, HandlersInPhase, AcceptedNotLost, [ApiNext]_vars
  PROVE  AcceptedNotLost'
<1> SUFFICES ASSUME state' = "normal", ~postScanOverflowed' PROVE accepted' \subseteq Held'
  <2>1. TypeOK'
    BY StepType
  <2> QED BY <2>1 DEF AcceptedNotLost, ScanOwed
<1>a. /\ debounced \in Seq(Event) /\ watcherQueue \in Seq(Event) /\ postScanQueue \in Seq(Event)
      /\ batch \in Seq(Event) /\ rejected \in Seq(Event)
      /\ state \in {"normal", "overflow", "full_scan"}
  BY DEF TypeOK
<1>b. ASSUME state = "normal", ~postScanOverflowed PROVE accepted \subseteq Held
  BY <1>b DEF AcceptedNotLost, ScanOwed
<1>c. Held' = FilesIn(debounced') \cup FilesIn(watcherQueue') \cup FilesIn(postScanQueue')
                \cup FilesIn(batch') \cup FilesIn(rejected')
  BY HeldParts DEF Held, FilesIn
<1>d. ASSUME NEW wq, NEW rq, NEW s, NEW pending, EndDrain(wq, rq, s, pending)
      PROVE  s = "normal" /\ debounced' = pending /\ watcherQueue' = wq
  BY <1>d DEF EndDrain
<1>e. UNCHANGED <<queues, postScan, drainVars>> => Held' = Held
  BY <1>c, HeldParts DEF queues, postScan, drainVars, handlers
<1>1. ASSUME NEW e \in [file : Files, type : ReportedTypes], Enqueue(e)
      PROVE  accepted' \subseteq Held'
  <2>0. e \in Event
    BY DEF Event, EventTypes
  <2>1. CASE BufferPostScan(e)
    <3>1. FilesIn(postScanQueue') = FilesIn(postScanQueue) \cup {e.file}
      BY <1>a, <2>0, <2>1, FilesInAppend DEF BufferPostScan
    <3>2. UNCHANGED <<state, postScanOverflowed, debounced, watcherQueue, batch, rejected>>
      BY <2>1 DEF BufferPostScan, queues, drainVars, handlers
    <3> QED BY <1>b, <1>c, <2>1, <3>1, <3>2, HeldParts DEF BufferPostScan
  <2>2. CASE DropPostScan(e) \/ DropOverflowing(e) \/ DropAtCapacity(e)
    <3>1. DropOverflowing(e) \/ FALSE => state' # "normal"
      BY DEF DropOverflowing
    <3> QED BY <2>2, <3>1 DEF DropPostScan, DropAtCapacity
  <2>3. CASE Debounce(e)
    <3>1. FilesIn(debounced) \subseteq FilesIn(debounced') \cup {e.file}
      BY <2>3, FilesInMerged DEF Debounce
    <3>2. state = "normal" /\ UNCHANGED <<postScanOverflowed, postScanQueue, watcherQueue, batch, rejected>>
      BY <2>3 DEF Debounce, postScan, drainVars, handlers
    <3>3. Held \subseteq Held' \cup {e.file}
      BY <1>c, <3>1, <3>2, HeldParts
    <3> QED BY <1>b, <2>3, <3>2, <3>3 DEF Debounce
  <2> QED BY <1>1, <2>1, <2>2, <2>3 DEF Enqueue
<1>2. ASSUME NEW f \in Files, FlushDebounced(f) PROVE accepted' \subseteq Held'
  <2> DEFINE i == IndexOf(f)
             fits == Size - 1 < MaxQueueSize
  <2>1. i \in DOMAIN debounced /\ debounced[i].file = f /\ debounced[i] \in Event
    BY <1>2, <1>a, IndexOfType, LenProperties, ElementOfSeq DEF FlushDebounced
  <2>2. Size \in Nat /\ Size # 0
    <3>1. Len(debounced) # 0
      BY <1>a, <2>1, LenProperties
    <3> QED BY <3>1, SizeType DEF Size, TypeOK
  <2>3. state' = StateAtSize(IF fits THEN Size ELSE Size - 1)
    BY <1>2 DEF FlushDebounced
  <2>4. fits /\ state = "normal"
    <3>1. state = "normal"
      BY <1>a, <2>2, <2>3, StateAtSizeOwes
    <3>2. ~fits => Size - 1 \in Nat /\ Size - 1 >= FullScanThreshold
      BY <2>2
    <3>3. fits
      BY <2>3, <3>2, StateAtSizeOwes
    <3> QED BY <3>1, <3>3
  <2>5. FilesIn(watcherQueue') = FilesIn(watcherQueue) \cup {f}
    BY <1>2, <1>a, <2>1, <2>4, FilesInAppend DEF FlushDebounced
  <2>6. FilesIn(debounced) \subseteq FilesIn(debounced') \cup {f}
    BY <1>2, <1>a, <2>1, FilesInRemoveAt DEF FlushDebounced
  <2>7. UNCHANGED <<postScanQueue, postScanOverflowed, batch, rejected, accepted>>
    BY <1>2 DEF FlushDebounced, postScan, drainVars, handlers
  <2> QED BY <1>b, <1>c, <2>4, <2>5, <2>6, <2>7, HeldParts
<1>3. CASE StartDrain
  <2>0. batch = <<>> /\ rejected = <<>> /\ FilesIn(<<>>) = {}
    BY <1>3 DEF StartDrain, HandlersInPhase, FilesIn
  <2>1. UNCHANGED <<rejected, postScanQueue, postScanOverflowed, accepted>>
    BY <1>3 DEF StartDrain, TakeBatch, postScan
  <2>2. FlushedState = "normal"
    BY <1>3, <1>d DEF StartDrain, TakeBatch
  <2>3. state = "normal"
    BY <1>a, <2>2, SizeType, StateAtSizeOwes DEF FlushedState
  <2>4. FilesIn(FlushedQueue) = FilesIn(watcherQueue) \cup FilesIn(debounced)
    BY <2>2, DrainTakesAll
  <2>5. FilesIn(FlushedQueue) \subseteq FilesIn(watcherQueue') \cup FilesIn(batch')
    <3>1. CASE reindexQueue > 0
      BY <1>3, <3>1 DEF StartDrain, TakeBatch
    <3>2. CASE ~(reindexQueue > 0) /\ FlushedQueue # <<>>
      BY <1>3, <3>2 DEF StartDrain, TakeBatch
    <3>3. CASE ~(reindexQueue > 0) /\ FlushedQueue = <<>>
      BY <2>0, <3>3
    <3> QED BY <3>1, <3>2, <3>3
  <2> QED BY <1>b, <1>c, <2>0, <2>1, <2>3, <2>4, <2>5, HeldParts
<1>4. ASSUME NEW i \in 1 .. Concurrency, SettleHandled(i) PROVE accepted' \subseteq Held'
  <2>1. i \in DOMAIN batch
    BY <1>4 DEF SettleHandled, Running
  <2>2. FilesIn(batch) \subseteq FilesIn(batch') \cup {batch[i].file}
    BY <1>4, <1>a, <2>1, FilesInRemoveAt DEF SettleHandled
  <2>3. UNCHANGED <<state, debounced, watcherQueue, postScanQueue, postScanOverflowed, rejected>>
    BY <1>4 DEF SettleHandled, queues, postScan
  <2>4. Held \subseteq Held' \cup {batch[i].file}
    BY <1>c, <2>2, <2>3, HeldParts
  <2> QED BY <1>4, <1>b, <2>3, <2>4 DEF SettleHandled
<1>5. ASSUME NEW i \in 1 .. Concurrency, SettleRejected(i) PROVE accepted' \subseteq Held'
  <2>1. i \in DOMAIN batch /\ batch[i] \in Event
    BY <1>5, <1>a, LenProperties, ElementOfSeq DEF SettleRejected, Running
  <2>2. FilesIn(batch) \subseteq FilesIn(batch') \cup {batch[i].file}
    BY <1>5, <1>a, <2>1, FilesInRemoveAt DEF SettleRejected
  <2>3. FilesIn(rejected') = FilesIn(rejected) \cup {batch[i].file}
    BY <1>5, <1>a, <2>1, FilesInAppend DEF SettleRejected
  <2>4. UNCHANGED <<state, debounced, watcherQueue, postScanQueue, postScanOverflowed, accepted>>
    BY <1>5 DEF SettleRejected, queues, postScan, history
  <2> QED BY <1>b, <1>c, <2>2, <2>3, <2>4, HeldParts
<1>6. CASE FinishReindexPhase
  <2>0. batch = <<>> /\ rejected = <<>> /\ FilesIn(<<>>) = {}
    BY <1>6 DEF FinishReindexPhase, HandlersInPhase, FilesIn
  <2>1. UNCHANGED <<rejected, postScanQueue, postScanOverflowed, accepted>>
    BY <1>6 DEF FinishReindexPhase, postScan, history
  <2>2. StateAfterRequeue(reindexRejected) = "normal"
    BY <1>6, <1>d DEF FinishReindexPhase
  <2>3. state = "normal"
    <3>0. reindexRejected \in Nat
      BY DEF TypeOK
    <3>1. Size \in Nat /\ Requeued(reindexRejected) \in Nat
      <4>1. Requeued(reindexRejected) \in Nat
        BY <3>0, RequeuedType
      <4> QED BY <4>1, SizeType
    <3>2. Size + Requeued(reindexRejected) \in Nat
      BY <3>0, <3>1
    <3> QED BY <1>a, <2>2, <3>2, StateAtSizeOwes DEF StateAfterRequeue
  <2>4. debounced' = debounced /\ FilesIn(watcherQueue) \subseteq FilesIn(batch')
    <3>1. CASE watcherQueue # <<>>
      BY <1>6, <3>1 DEF FinishReindexPhase
    <3>2. CASE watcherQueue = <<>>
      BY <1>6, <1>d, <2>0, <3>2 DEF FinishReindexPhase
    <3> QED BY <3>1, <3>2
  <2> QED BY <1>b, <1>c, <2>0, <2>1, <2>3, <2>4, HeldParts
<1>7. CASE FinishWatcherPhase
  <2> DEFINE n == Len(rejected)
             back == SubSeq(rejected, 1, Requeued(n))
  <2>1. UNCHANGED <<batch, postScanQueue, postScanOverflowed, accepted>>
    BY <1>7 DEF FinishWatcherPhase, postScan
  <2>2. /\ StateAfterRequeue(n) = "normal" /\ debounced' = debounced
        /\ watcherQueue' = watcherQueue \o back
    BY <1>7, <1>d DEF FinishWatcherPhase
  <2>3. back = rejected
    BY <2>2, RequeuedAll
  <2>4. FilesIn(watcherQueue') = FilesIn(watcherQueue) \cup FilesIn(rejected)
    BY <1>a, <2>2, <2>3, FilesInConcat
  <2>5. state = "normal"
    <3>1. n \in Nat /\ Size \in Nat /\ Requeued(n) \in Nat
      BY SizeType, RequeuedType
    <3>2. Size + Requeued(n) \in Nat
      BY <3>1
    <3> QED BY <1>a, <2>2, <3>2, StateAtSizeOwes DEF StateAfterRequeue
  <2> QED BY <1>b, <1>c, <2>1, <2>2, <2>4, <2>5, HeldParts
<1>8. CASE MarkFullScanComplete \/ Clear
  BY <1>8, <1>c DEF MarkFullScanComplete, Clear, postScan, drainVars, handlers
<1>9. CASE AbortPostScanMode
  BY <1>9 DEF AbortPostScanMode
<1>10. CASE DrainPostScanQueue
  <2>1. FilesIn(watcherQueue') = FilesIn(watcherQueue) \cup FilesIn(postScanQueue)
    BY <1>10, <1>a, FilesInConcat DEF DrainPostScanQueue
  <2>2. state = "normal" /\ ~postScanOverflowed
    BY <1>10, <1>a DEF DrainPostScanQueue, Overflowed, TypeOK
  <2>3. UNCHANGED <<debounced, batch, rejected, accepted>>
    BY <1>10 DEF DrainPostScanQueue, drainVars, handlers, history
  <2> QED BY <1>b, <1>c, <2>1, <2>2, <2>3, HeldParts
<1>11. CASE EnterPostScanMode \/ StartPostScan
  <2>1. UNCHANGED <<debounced, watcherQueue, postScanQueue, batch, rejected, state, postScanOverflowed, accepted>>
    BY <1>11 DEF EnterPostScanMode, StartPostScan, queues, drainVars, handlers, history
  <2> QED BY <1>b, <1>c, <2>1, HeldParts
<1>12. CASE EnqueueReindex
  <2>1. RequestReindex
    BY <1>12 DEF EnqueueReindex, DropReindexPostScan
  <2>2. /\ UNCHANGED <<debounced, watcherQueue, postScanQueue, batch, rejected, postScanOverflowed, accepted>>
        /\ state = "normal"
    BY <2>1 DEF RequestReindex, postScan, drainVars, handlers, history
  <2> QED BY <1>b, <1>c, <2>2, HeldParts
<1>13. CASE SettleReindex \/ UNCHANGED vars
  <2>1. UNCHANGED <<debounced, watcherQueue, postScanQueue, batch, rejected, state, postScanOverflowed, accepted>>
    BY <1>13 DEF SettleReindex, vars, queues, postScan, drainVars, handlers, history
  <2> QED BY <1>b, <1>c, <2>1, HeldParts
<1> QED
  BY <1>1, <1>2, <1>3, <1>4, <1>5, <1>6, <1>7, <1>8, <1>9, <1>10, <1>11, <1>12, <1>13
     DEF ApiNext, Next, ReportChange, TimerFires, HandlerResolves, HandlerRejects

\* Every change that enqueue() accepted is held in one of the five places until
\* its handler settles, or a full scan is owed: merges, flushes, drains,
\* rejections and the post-scan buffer lose none, whatever the order of calls.
THEOREM NoAcceptedChangeLost == ApiSpec => []AcceptedNotLost
<1>1. Init => AcceptedNotLost /\ HandlersInPhase
  BY DEF Init, AcceptedNotLost, HandlersInPhase
<1>2. AcceptedNotLost /\ TypeOK /\ HandlersInPhase /\ [ApiNext]_vars => AcceptedNotLost'
  BY AcceptedStep
<1> QED BY <1>1, <1>2, HandlersInPhaseStep, TypesPreserved, PTL DEF ApiSpec
-----------------------------------------------------------------------------
(* The runtime uses the queue as Spec says. *)

USE StartAssumption, AttemptsAssumption, RuntimeBoundsAssumption

\* Until initialize() has run nothing is queued and no handler runs.
FreshUntilInitialized ==
  startup = "new" =>
    /\ debounced = <<>> /\ timers = {} /\ watcherQueue = <<>> /\ reindexQueue = 0
    /\ phase = "idle" /\ batch = <<>> /\ rejected = <<>> /\ state = "normal"

LEMMA FreshSize ==
  ASSUME FreshUntilInitialized, startup = "new"
  PROVE  phase = "idle" /\ Size = 0
  BY EmptySeq DEF FreshUntilInitialized, Size

LEMMA ReleaseIsStep == ASSUME Release PROVE MarkFullScanComplete \/ UNCHANGED vars
  BY DEF Release

\* Every step of the runtime is a step of the queue, or leaves it alone.
LEMMA RuntimeStepIsNext ==
  FreshUntilInitialized /\ [RuntimeNext]_allVars => [Next]_vars
<1> SUFFICES ASSUME FreshUntilInitialized, [RuntimeNext]_allVars PROVE [Next]_vars
  OBVIOUS
<1>1. ASSUME NEW f \in Files, NEW type \in ReportedTypes, Change(f, type) PROVE Next
  <2> DEFINE e == [file |-> f, type |-> type]
  <2>1. Enqueue(e) /\ e \in [file : Files, type : ReportedTypes]
    BY <1>1 DEF Change, Enqueue
  <2> QED BY <2>1 DEF Next, ReportChange
<1>2. CASE Flush \/ Drain \/ FinishDrain \/ StartupDrains
  BY <1>2 DEF Flush, Drain, FinishDrain, StartupDrains, Next
<1>3. CASE HandlerSteps \/ HandlersFail
  BY <1>3 DEF HandlerSteps, HandlersFail, HandlerReads, HandlerFindsNothing, HandlerWrites,
     HandlerFails, Next, HandlerResolves, HandlerRejects
<1>4. CASE Initialize
  BY <1>4, FreshSize DEF Initialize, Next, StartPostScan
<1>5. CASE ScanSteps
  BY <1>5, ReleaseIsStep DEF ScanSteps, ScanLists, ScanReads, ScanWrites, ScanCompletes, ScanFails, Next
<1>6. CASE RecoveryScans \/ RecoverySkipped \/ UserReindexes
  BY <1>6 DEF RecoveryScans, RecoverySkipped, UserReindexes, ManualReindex
<1>7. CASE UNCHANGED allVars
  BY <1>7 DEF allVars
<1> QED BY <1>1, <1>2, <1>3, <1>4, <1>5, <1>6, <1>7 DEF RuntimeNext, FileChanges

LEMMA FreshStep ==
  FreshUntilInitialized /\ [RuntimeNext]_allVars => FreshUntilInitialized'
<1> SUFFICES ASSUME FreshUntilInitialized, [RuntimeNext]_allVars, startup' = "new"
             PROVE  FreshUntilInitialized'
  BY DEF FreshUntilInitialized
<1> USE DEF FreshUntilInitialized
<1>1. CASE FileChanges \/ UserReindexes \/ StartupDrains \/ Initialize
  <2>1. startup' # "new"
    BY <1>1 DEF FileChanges, Change, UserReindexes, ManualReindex, StartupDrains, Initialize
  <2> QED BY <2>1
<1>2. CASE Flush
  BY <1>2 DEF Flush, TimerFires, FlushDebounced, runtimeVars
<1>3. CASE Drain
  <2>1. startup = "new" /\ StartDrain
    BY <1>3 DEF Drain
  <2>2. FlushedState = "normal" /\ FlushedQueue = <<>>
    <3>1. Size = 0 /\ Len(debounced) = 0
      BY <2>1, FreshSize, EmptySeq
    <3>2. FlushLost = 0
      BY <3>1 DEF FlushLost
    <3>3. SubSeq(debounced, 1, 0) = <<>>
      BY SubSeqEmpty
    <3>4. FlushedQueue = <<>> \o <<>>
      BY <2>1, <3>1, <3>2, <3>3 DEF FlushedQueue
    <3>5. <<>> \o <<>> = <<>>
      BY EmptySeq, ConcatEmptySeq
    <3> QED BY <2>1, <3>4, <3>5 DEF FlushedState
  <2>3. EndDrain(<<>>, 0, "normal", <<>>) /\ UNCHANGED <<batch, rejected>>
    BY <2>1, <2>2 DEF StartDrain, TakeBatch
  <2>4. FilesIn(<<>>) = {}
    BY DEF FilesIn
  <2> QED BY <2>1, <2>3, <2>4 DEF EndDrain
<1>4. CASE HandlerSteps \/ HandlersFail
  <2>1. startup = "new" => ~HandlerSteps /\ ~HandlersFail
    BY DEF HandlerSteps, HandlersFail, HandlerReads, HandlerFindsNothing, HandlerWrites,
       HandlerFails, SettleHandled, SettleRejected, Running
  <2>2. startup = "new"
    BY <1>4 DEF HandlerSteps, HandlersFail, HandlerReads, HandlerFindsNothing, HandlerWrites,
       HandlerFails
  <2> QED BY <1>4, <2>1, <2>2
<1>5. CASE FinishDrain
  BY <1>5 DEF FinishDrain, FinishWatcherPhase
<1>6. CASE ScanSteps
  <2>1. startup = "new"
    BY <1>6 DEF ScanSteps, ScanLists, ScanReads, ScanWrites, ScanCompletes, ScanFails, Release
  <2>2. UNCHANGED vars
    BY <1>6, <2>1 DEF ScanSteps, ScanLists, ScanReads, ScanWrites, ScanCompletes, ScanFails,
       Release
  <2> QED BY <2>1, <2>2 DEF vars, queues, postScan, drainVars, handlers
<1>7. CASE RecoveryScans \/ RecoverySkipped \/ UNCHANGED allVars
  <2>1. UNCHANGED vars /\ startup = "new"
    BY <1>7 DEF RecoveryScans, RecoverySkipped, allVars, runtimeVars
  <2> QED BY <2>1 DEF vars, queues, postScan, drainVars, handlers
<1> QED BY <1>1, <1>2, <1>3, <1>4, <1>5, <1>6, <1>7 DEF RuntimeNext

\* The runtime implements the specification of the queue that EventQueue's
\* theorems on the capacity are about: initialize() enters post-scan mode while
\* the queue is empty, and drains never overlap.
THEOREM QueueUseRefines == RuntimeSpec => QueueUsedAsSpecified
<1>1. RuntimeInit => Init /\ FreshUntilInitialized
  BY DEF RuntimeInit, Init, FreshUntilInitialized
<1> QED BY <1>1, FreshStep, RuntimeStepIsNext, PTL DEF RuntimeSpec, Spec, QueueUsedAsSpecified

LEMMA SpecIsApiSpec == Spec => ApiSpec
<1>1. [Next]_vars => [ApiNext]_vars
  BY DEF ApiNext
<1> QED BY <1>1, PTL DEF Spec, ApiSpec

\* In the runtime, too, with its watcher, drain loop, scans and recovery, no
\* accepted change is lost, what was dropped keeps a full scan owed, the fields
\* keep their types and the capacity holds.
THEOREM RuntimeKeepsQueue ==
  RuntimeSpec => [](TypeOK /\ SizeBounded /\ AcceptedNotLost /\ DropsOweScan)
  BY QueueUseRefines, SpecIsApiSpec, TypesPreserved, CapacityRespected, NoAcceptedChangeLost,
     DropsKeepScanOwed, PTL DEF QueueUsedAsSpecified
-----------------------------------------------------------------------------
(***************************************************************************)
(* Types of the events that a sequence holds of a file.                    *)
(***************************************************************************)
TypesIn(s, f) == {s[i].type : i \in {k \in DOMAIN s : s[k].file = f}}

LEMMA TypesInEmpty == \A f : TypesIn(<<>>, f) = {}
  BY DEF TypesIn

LEMMA TypesInAppend ==
  ASSUME NEW s \in Seq(Event), NEW e \in Event, NEW f
  PROVE  TypesIn(Append(s, e), f) = TypesIn(s, f) \cup (IF e.file = f THEN {e.type} ELSE {})
<1>1. /\ Len(Append(s, e)) = Len(s) + 1 /\ Len(s) \in Nat
      /\ \A i \in 1 .. Len(s) : Append(s, e)[i] = s[i]
      /\ Append(s, e)[Len(s) + 1] = e
      /\ DOMAIN Append(s, e) = 1 .. Len(s) + 1 /\ DOMAIN s = 1 .. Len(s)
  BY AppendProperties, LenProperties
<1>2. 1 .. Len(s) + 1 = 1 .. Len(s) \cup {Len(s) + 1}
  BY <1>1
<1> QED  BY <1>1, <1>2 DEF TypesIn

LEMMA TypesInConcat ==
  ASSUME NEW s \in Seq(Event), NEW t \in Seq(Event), NEW f
  PROVE  TypesIn(s \o t, f) = TypesIn(s, f) \cup TypesIn(t, f)
<1> DEFINE c == s \o t
           m == Len(s)
           n == Len(t)
<1>1. /\ m \in Nat /\ n \in Nat /\ DOMAIN s = 1 .. m /\ DOMAIN t = 1 .. n
      /\ c \in Seq(Event) /\ Len(c) = m + n /\ DOMAIN c = 1 .. m + n
      /\ \A i \in 1 .. m + n : c[i] = IF i <= m THEN s[i] ELSE t[i - m]
  BY ConcatProperties, LenProperties
<1> HIDE DEF c, m, n
<1>2. ASSUME NEW i \in DOMAIN c, c[i].file = f
      PROVE  c[i].type \in TypesIn(s, f) \cup TypesIn(t, f)
  <2>1. CASE i <= m
    BY <1>1, <1>2, <2>1 DEF TypesIn
  <2>2. CASE ~(i <= m)
    <3>1. i - m \in 1 .. n /\ c[i] = t[i - m]
      BY <1>1, <2>2
    <3> QED BY <1>1, <1>2, <3>1 DEF TypesIn
  <2> QED BY <2>1, <2>2
<1>3. ASSUME NEW i \in DOMAIN s, s[i].file = f PROVE s[i].type \in TypesIn(c, f)
  <2>1. i \in 1 .. m + n /\ c[i] = s[i]
    BY <1>1
  <2> QED BY <1>1, <1>3, <2>1 DEF TypesIn
<1>4. ASSUME NEW i \in DOMAIN t, t[i].file = f PROVE t[i].type \in TypesIn(c, f)
  <2>1. m + i \in 1 .. m + n /\ ~(m + i <= m) /\ (m + i) - m = i
    BY <1>1
  <2>2. c[m + i] = t[i]
    BY <1>1, <2>1
  <2> QED BY <1>1, <1>4, <2>1, <2>2 DEF TypesIn
<1>5. TypesIn(c, f) = TypesIn(s, f) \cup TypesIn(t, f)
  BY <1>2, <1>3, <1>4 DEF TypesIn
<1> QED BY <1>5 DEF c

\* Which element of a sequence comes where when one is taken out.
LEMMA RemoveAtElements ==
  ASSUME NEW S, NEW s \in Seq(S), NEW i \in DOMAIN s
  PROVE  /\ Len(s) \in Nat /\ DOMAIN s = 1 .. Len(s) /\ i \in 1 .. Len(s)
         /\ DOMAIN RemoveAt(s, i) = 1 .. Len(s) - 1
         /\ \A j \in 1 .. Len(s) - 1 :
              RemoveAt(s, i)[j] = IF j < i THEN s[j] ELSE s[j + 1]
<1>1. Len(s) \in Nat /\ DOMAIN s = 1 .. Len(s) /\ i \in 1 .. Len(s)
  BY LenProperties
<1> DEFINE l == SubSeq(s, 1, i - 1)
           r == SubSeq(s, i + 1, Len(s))
<1>2. \A j \in 1 .. Len(s) : s[j] \in S
  BY ElementOfSeq
<1>3. l \in Seq(S) /\ Len(l) = i - 1 /\ \A j \in 1 .. i - 1 : l[j] = s[j]
  <2>1. \A j \in 1 .. i - 1 : s[j] \in S
    BY <1>1, <1>2
  <2>2. i - 1 \in Int /\ 1 \in Int
    BY <1>1
  <2> QED BY <1>1, <2>1, <2>2, SubSeqProperties
<1>4. r \in Seq(S) /\ Len(r) = Len(s) - i /\ \A j \in 1 .. Len(s) - i : r[j] = s[i + j]
  <2>1. \A j \in i + 1 .. Len(s) : s[j] \in S
    BY <1>1, <1>2
  <2>2. i + 1 \in Int /\ Len(s) \in Int
    BY <1>1
  <2>3. /\ r \in Seq(S)
        /\ Len(r) = IF i + 1 <= Len(s) THEN Len(s) - (i + 1) + 1 ELSE 0
        /\ \A j \in 1 .. Len(s) - (i + 1) + 1 : r[j] = s[(i + 1) + j - 1]
    BY <2>1, <2>2, SubSeqProperties
  <2> QED BY <1>1, <2>3
<1>5. RemoveAt(s, i) = l \o r
  BY DEF RemoveAt
<1> HIDE DEF l, r
<1>6. /\ Len(l \o r) = Len(s) - 1 /\ l \o r \in Seq(S)
      /\ \A j \in 1 .. Len(s) - 1 : (l \o r)[j] = IF j <= i - 1 THEN l[j] ELSE r[j - (i - 1)]
  <2>1. /\ l \o r \in Seq(S) /\ Len(l \o r) = Len(l) + Len(r)
        /\ \A j \in 1 .. Len(l) + Len(r) :
             (l \o r)[j] = IF j <= Len(l) THEN l[j] ELSE r[j - Len(l)]
    BY <1>3, <1>4, ConcatProperties
  <2>2. Len(l) + Len(r) = Len(s) - 1
    BY <1>1, <1>3, <1>4
  <2> QED  BY <1>3, <2>1, <2>2
<1>7. ASSUME NEW j \in 1 .. Len(s) - 1
      PROVE  (l \o r)[j] = IF j < i THEN s[j] ELSE s[j + 1]
  <2>1. CASE j < i
    BY <1>1, <1>3, <1>6, <2>1
  <2>2. CASE ~(j < i)
    <3>1. j - (i - 1) \in 1 .. Len(s) - i /\ i + (j - (i - 1)) = j + 1 /\ ~(j <= i - 1)
      BY <1>1, <2>2
    <3> QED BY <1>4, <1>6, <2>2, <3>1
  <2> QED BY <2>1, <2>2
<1> QED BY <1>1, <1>5, <1>6, <1>7, LenProperties

\* The same, as a map from the places of what is left to those it had.
Before(j, i) == IF j < i THEN j ELSE j + 1

LEMMA RemoveAtPlaces ==
  ASSUME NEW S, NEW s \in Seq(S), NEW i \in DOMAIN s
  PROVE  /\ \A j \in DOMAIN RemoveAt(s, i) :
              Before(j, i) \in DOMAIN s \ {i} /\ RemoveAt(s, i)[j] = s[Before(j, i)]
         /\ \A j, k \in DOMAIN RemoveAt(s, i) : Before(j, i) = Before(k, i) => j = k
         /\ \A k \in DOMAIN s \ {i} : \E j \in DOMAIN RemoveAt(s, i) : k = Before(j, i)
<1>1. /\ Len(s) \in Nat /\ DOMAIN s = 1 .. Len(s) /\ i \in 1 .. Len(s)
      /\ DOMAIN RemoveAt(s, i) = 1 .. Len(s) - 1
      /\ \A j \in 1 .. Len(s) - 1 :
           RemoveAt(s, i)[j] = IF j < i THEN s[j] ELSE s[j + 1]
  BY RemoveAtElements
<1>2. ASSUME NEW k \in DOMAIN s \ {i}
      PROVE  \E j \in 1 .. Len(s) - 1 : k = Before(j, i)
  <2>1. CASE k < i
    <3>1. k \in 1 .. Len(s) - 1 /\ Before(k, i) = k
      BY <1>1, <2>1 DEF Before
    <3> QED  BY <3>1
  <2>2. CASE ~(k < i)
    <3>1. k - 1 \in 1 .. Len(s) - 1 /\ Before(k - 1, i) = k
      BY <1>1, <2>2 DEF Before
    <3> QED  BY <3>1
  <2> QED  BY <2>1, <2>2
<1>3. \A j \in 1 .. Len(s) - 1 : Before(j, i) \in 1 .. Len(s) /\ Before(j, i) # i
  BY <1>1 DEF Before
<1>4. \A j, k \in 1 .. Len(s) - 1 : Before(j, i) = Before(k, i) => j = k
  BY <1>1 DEF Before
<1>5. \A j \in 1 .. Len(s) - 1 : RemoveAt(s, i)[j] = s[Before(j, i)]
  BY <1>1 DEF Before
<1> QED  BY <1>1, <1>2, <1>3, <1>4, <1>5

LEMMA TypesInRemoveAt ==
  ASSUME NEW s \in Seq(Event), NEW i \in DOMAIN s, NEW f
  PROVE  /\ TypesIn(RemoveAt(s, i), f) \subseteq TypesIn(s, f)
         /\ TypesIn(s, f) \subseteq
              TypesIn(RemoveAt(s, i), f) \cup (IF s[i].file = f THEN {s[i].type} ELSE {})
<1> DEFINE r == RemoveAt(s, i)
<1>1. /\ \A j \in DOMAIN r : Before(j, i) \in DOMAIN s \ {i} /\ r[j] = s[Before(j, i)]
      /\ \A k \in DOMAIN s \ {i} : \E j \in DOMAIN r : k = Before(j, i)
  BY RemoveAtPlaces
<1> HIDE DEF r
<1>2. ASSUME NEW j \in DOMAIN r, r[j].file = f PROVE r[j].type \in TypesIn(s, f)
  BY <1>1, <1>2 DEF TypesIn
<1>3. ASSUME NEW k \in DOMAIN s, s[k].file = f, k # i PROVE s[k].type \in TypesIn(r, f)
  <2>1. PICK j \in DOMAIN r : k = Before(j, i)
    BY <1>1, <1>3
  <2>2. r[j] = s[k]
    BY <1>1, <2>1
  <2> QED  BY <1>3, <2>2 DEF TypesIn
<1>4. /\ TypesIn(r, f) \subseteq TypesIn(s, f)
      /\ TypesIn(s, f) \subseteq TypesIn(r, f) \cup (IF s[i].file = f THEN {s[i].type} ELSE {})
  BY <1>2, <1>3 DEF TypesIn
<1> QED  BY <1>4 DEF r

\* A file has one debounced event at most, whose type says what became of it.
DebouncedOnce ==
  \A i, j \in DOMAIN debounced : debounced[i].file = debounced[j].file => i = j

LEMMA OneDebounced ==
  ASSUME TypeOK, DebouncedOnce, NEW i \in DOMAIN debounced
  PROVE  TypesIn(debounced, debounced[i].file) = {debounced[i].type}
BY DEF DebouncedOnce, TypesIn

\* What becomes of them when the debounced event of a file is taken out.
LEMMA TakenOut ==
  ASSUME TypeOK, DebouncedOnce, NEW i \in DOMAIN debounced
  PROVE  /\ TypesIn(RemoveAt(debounced, i), debounced[i].file) = {}
         /\ \A f : f # debounced[i].file =>
              TypesIn(RemoveAt(debounced, i), f) = TypesIn(debounced, f)
         /\ \A j, k \in DOMAIN RemoveAt(debounced, i) :
              RemoveAt(debounced, i)[j].file = RemoveAt(debounced, i)[k].file => j = k
<1> DEFINE r == RemoveAt(debounced, i)
<1>0. debounced \in Seq(Event)
  BY DEF TypeOK
<1>1. /\ \A j \in DOMAIN r :
           Before(j, i) \in DOMAIN debounced \ {i} /\ r[j] = debounced[Before(j, i)]
      /\ \A j, k \in DOMAIN r : Before(j, i) = Before(k, i) => j = k
  BY <1>0, RemoveAtPlaces
<1>2. ASSUME NEW f, f # debounced[i].file
      PROVE  TypesIn(r, f) = TypesIn(debounced, f)
  <2>1. /\ TypesIn(r, f) \subseteq TypesIn(debounced, f)
        /\ TypesIn(debounced, f) \subseteq
             TypesIn(r, f) \cup (IF debounced[i].file = f THEN {debounced[i].type} ELSE {})
    BY <1>0, TypesInRemoveAt
  <2> QED  BY <1>2, <2>1
<1> HIDE DEF r
<1>3. \A j \in DOMAIN r : r[j].file # debounced[i].file
  BY <1>1 DEF DebouncedOnce
<1>4. TypesIn(r, debounced[i].file) = {}
  BY <1>3 DEF TypesIn
<1>5. \A j, k \in DOMAIN r : r[j].file = r[k].file => j = k
  BY <1>1 DEF DebouncedOnce
<1> QED  BY <1>2, <1>4, <1>5 DEF r

LEMMA MergedTypes ==
  ASSUME TypeOK, DebouncedOnce, NEW e \in [file : Files, type : ReportedTypes]
  PROVE  /\ \A f : f # e.file => TypesIn(Merged(e), f) = TypesIn(debounced, f)
         /\ \/ /\ TypesIn(debounced, e.file) = {}
               /\ TypesIn(Merged(e), e.file) = {e.type}
            \/ \E t \in EventTypes :
                 /\ TypesIn(debounced, e.file) = {t}
                 /\ TypesIn(Merged(e), e.file) =
                      IF MergedType(t, e.type) = "cancelled" THEN {} ELSE {MergedType(t, e.type)}
         /\ \A j, k \in DOMAIN Merged(e) : Merged(e)[j].file = Merged(e)[k].file => j = k
<1>1. e \in Event /\ debounced \in Seq(Event)
  BY DEF Event, EventTypes, TypeOK
<1>2. CASE ~IsDebounced(e.file)
  <2>1. Merged(e) = Append(debounced, e)
    BY <1>2 DEF Merged
  <2>2. TypesIn(debounced, e.file) = {}
    BY <1>2 DEF IsDebounced, TypesIn
  <2>3. \A f : TypesIn(Merged(e), f) = TypesIn(debounced, f) \cup (IF e.file = f THEN {e.type} ELSE {})
    BY <1>1, <2>1, TypesInAppend
  <2>4. \A j, k \in DOMAIN Merged(e) : Merged(e)[j].file = Merged(e)[k].file => j = k
    <3>1. /\ Len(Append(debounced, e)) = Len(debounced) + 1 /\ Len(debounced) \in Nat
          /\ \A i \in 1 .. Len(debounced) : Append(debounced, e)[i] = debounced[i]
          /\ Append(debounced, e)[Len(debounced) + 1] = e
          /\ DOMAIN Append(debounced, e) = 1 .. Len(debounced) + 1
          /\ DOMAIN debounced = 1 .. Len(debounced)
      BY <1>1, AppendProperties, LenProperties
    <3>2. \A j \in 1 .. Len(debounced) + 1 : j \in 1 .. Len(debounced) \/ j = Len(debounced) + 1
      BY <3>1
    <3>3. \A j \in 1 .. Len(debounced) : debounced[j].file # e.file
      BY <1>2, <3>1 DEF IsDebounced
    <3> QED  BY <2>1, <3>1, <3>2, <3>3 DEF DebouncedOnce
  <2> QED  BY <2>2, <2>3, <2>4
<1>3. CASE IsDebounced(e.file)
  <2> DEFINE i == IndexOf(e.file)
             type == MergedType(debounced[i].type, e.type)
             new == [e EXCEPT !.type = type]
  <2>1. i \in DOMAIN debounced /\ debounced[i].file = e.file
    BY <1>3, IndexOfType
  <2>2. debounced[i] \in Event
    BY <1>1, <2>1, LenProperties, ElementOfSeq
  <2>3. debounced[i].type \in EventTypes /\ TypesIn(debounced, e.file) = {debounced[i].type}
    BY <2>1, <2>2, OneDebounced DEF Event
  <2>4. CASE type = "cancelled"
    <3>1. Merged(e) = RemoveAt(debounced, i)
      BY <1>3, <2>4 DEF Merged
    <3> HIDE DEF i
    <3> QED  BY <2>1, <2>3, <2>4, <3>1, TakenOut
  <2>5. CASE type # "cancelled"
    <3>1. Merged(e) = [debounced EXCEPT ![i] = new]
      BY <1>3, <2>5 DEF Merged, ReplaceAt
    <3>2. new.file = e.file /\ new.type = type
      BY <1>1 DEF Event
    <3> HIDE DEF i, new
    <3>3. /\ DOMAIN Merged(e) = DOMAIN debounced /\ Merged(e)[i] = new
          /\ \A j \in DOMAIN debounced \ {i} : Merged(e)[j] = debounced[j]
      BY <2>1, <3>1
    <3>4. \A j, k \in DOMAIN Merged(e) : Merged(e)[j].file = Merged(e)[k].file => j = k
      BY <2>1, <3>2, <3>3 DEF DebouncedOnce
    <3>5. \A j \in DOMAIN debounced : debounced[j].file = e.file => j = i
      BY <2>1 DEF DebouncedOnce
    <3>6. TypesIn(Merged(e), e.file) = {type}
      BY <2>1, <3>2, <3>3, <3>5 DEF TypesIn
    <3>7. \A f : f # e.file => TypesIn(Merged(e), f) = TypesIn(debounced, f)
      BY <2>1, <3>2, <3>3, <3>5 DEF TypesIn
    <3> QED  BY <2>3, <2>5, <3>4, <3>6, <3>7
  <2> QED  BY <2>4, <2>5
<1> QED  BY <1>2, <1>3

-----------------------------------------------------------------------------
(***************************************************************************)
(* What the runtime keeps besides the queue's own invariants.              *)
(***************************************************************************)

\* The runtime enters post-scan mode in the normal state only, and a queue that
\* waits for its full scan holds nothing.
FullScanEmpty ==
  /\ postScanActive => state = "normal"
  /\ state = "full_scan" =>
       /\ phase = "idle"
       /\ debounced = <<>> /\ watcherQueue = <<>> /\ batch = <<>> /\ rejected = <<>>

\* A handler has read nothing or one content that was on disk.
LoadedOK == loaded \in Seq({NotRead} \cup {<<c>> : c \in Contents \ {Absent}})

\* A scan that ended left nothing behind, none runs before initialize(), and the
\* scan of an attempt belongs to one that is not over.
ScanInv ==
  /\ scan.step = "idle" => scan = Idle
  /\ startup = "new" => recovery = 0 /\ scan = Idle
  /\ scan.by = "recovery" => recovery # 0

\* The actions of the queue that the runtime takes.
QueueStep ==
  \/ ReportChange
  \/ TimerFires
  \/ StartDrain
  \/ HandlerResolves
  \/ HandlerRejects
  \/ FinishWatcherPhase
  \/ MarkFullScanComplete
  \/ startup = "new" /\ StartPostScan
  \/ DrainPostScanQueue
  \/ UNCHANGED vars

LEMMA RuntimeTakesQueueSteps ==
  ASSUME FreshUntilInitialized, [RuntimeNext]_allVars
  PROVE  QueueStep
<1>1. ASSUME NEW f \in Files, NEW type \in ReportedTypes, Change(f, type) PROVE QueueStep
  <2> DEFINE e == [file |-> f, type |-> type]
  <2>1. Enqueue(e) /\ e \in [file : Files, type : ReportedTypes]
    BY <1>1 DEF Change, Enqueue
  <2> QED  BY <2>1 DEF QueueStep, ReportChange
<1>2. CASE Flush \/ Drain \/ FinishDrain \/ StartupDrains
  BY <1>2 DEF Flush, Drain, FinishDrain, StartupDrains, QueueStep
<1>3. CASE HandlerSteps \/ HandlersFail
  BY <1>3 DEF HandlerSteps, HandlersFail, HandlerReads, HandlerFindsNothing, HandlerWrites,
     HandlerFails, QueueStep, HandlerResolves, HandlerRejects
<1>4. CASE Initialize
  BY <1>4, FreshSize DEF Initialize, QueueStep, StartPostScan
<1>5. CASE ScanSteps
  BY <1>5, ReleaseIsStep DEF ScanSteps, ScanLists, ScanReads, ScanWrites, ScanCompletes,
     ScanFails, QueueStep
<1>6. CASE RecoveryScans \/ RecoverySkipped \/ UserReindexes \/ UNCHANGED allVars
  BY <1>6 DEF RecoveryScans, RecoverySkipped, UserReindexes, ManualReindex, allVars, QueueStep
<1> QED
  BY <1>1, <1>2, <1>3, <1>4, <1>5, <1>6 DEF RuntimeNext, FileChanges

\* Within the capacity a drain takes everything that is queued or debounced as
\* its batch, or nothing when there is nothing.
LEMMA DrainEffects ==
  ASSUME CapacityInv, StartDrain
  PROVE  /\ batch = <<>> /\ rejected = <<>> /\ rejected' = <<>>
         /\ watcherQueue' = <<>> /\ debounced' = <<>>
         /\ batch' = watcherQueue \o debounced
         /\ UNCHANGED postScan
         /\ \/ /\ state' = "full_scan" <=> state = "full_scan"
               /\ phase' = "watcher" /\ ~postScanActive
            \/ /\ watcherQueue = <<>> /\ debounced = <<>> /\ batch' = <<>> /\ phase' = "idle"
               /\ state' = IF state = "overflow" THEN "full_scan" ELSE state
<1>1. /\ TypeOK /\ NoReindexRequests /\ BatchOnlyWhileDraining /\ PostScanIsQuiet /\ SizeBounded
      /\ watcherQueue \in Seq(Event) /\ debounced \in Seq(Event)
  BY DEF CapacityInv, TypeOK
<1>2. batch = <<>> /\ rejected = <<>> /\ rejected' = <<>> /\ UNCHANGED postScan
  BY <1>1 DEF BatchOnlyWhileDraining, StartDrain, TakeBatch
<1>3. FlushLost = 0
  <2>1. Size + Len(postScanQueue) <= MaxQueueSize /\ Size \in Nat /\ Len(postScanQueue) \in Nat
    BY <1>1, SizeType DEF SizeBounded
  <2>2. Size <= MaxQueueSize
    BY <2>1
  <2> QED  BY <2>2 DEF FlushLost
<1>4. FlushedQueue = watcherQueue \o debounced
  BY <1>1, <1>3, SubSeqWhole DEF FlushedQueue
<1>5. ~(reindexQueue > 0)
  BY <1>1 DEF NoReindexRequests
<1>6. FlushedState = "full_scan" <=> state = "full_scan"
  BY <1>1 DEF FlushedState, StateAtSize, Overflowed
<1>7. CASE FlushedQueue # <<>>
  <2>1. /\ phase' = "watcher" /\ batch' = FlushedQueue /\ watcherQueue' = <<>>
        /\ state' = FlushedState /\ debounced' = <<>>
    BY <1>5, <1>7 DEF StartDrain, TakeBatch
  <2>2. ~postScanActive
    <3>1. Len(FlushedQueue) # 0
      BY <1>1, <1>7, FlushedType, EmptySeq
    <3>2. Len(FlushedQueue) = Len(watcherQueue) + Len(debounced)
      BY <1>1, <1>3, FlushedType, SizeType
    <3>3. Size # 0
      BY <1>1, <3>1, <3>2, SizeType DEF Size, TypeOK
    <3> QED  BY <1>1, <3>3 DEF PostScanIsQuiet
  <2> QED  BY <1>2, <1>4, <1>6, <2>1, <2>2
<1>8. CASE FlushedQueue = <<>>
  <2>1. watcherQueue = <<>> /\ debounced = <<>>
    <3>1. Len(watcherQueue) + Len(debounced) = 0
      BY <1>1, <1>3, <1>8, FlushedType, SizeType, EmptySeq
    <3>2. Len(watcherQueue) = 0 /\ Len(debounced) = 0
      BY <1>1, <3>1, SizeType
    <3> QED  BY <1>1, <3>2, EmptySeq
  <2>2. FlushedState = state
    BY <2>1 DEF FlushedState
  <2>3. EndDrain(<<>>, 0, state, <<>>) /\ UNCHANGED batch
    BY <1>5, <1>8, <2>2 DEF StartDrain, TakeBatch
  <2>4. phase' = "idle" /\ watcherQueue' = <<>> /\ debounced' = <<>>
        /\ state' = IF state = "overflow" THEN "full_scan" ELSE state
    BY <2>3 DEF EndDrain
  <2> QED  BY <1>2, <1>4, <1>8, <2>1, <2>3, <2>4
<1> QED  BY <1>7, <1>8

\* The end of a drain splits what was rejected in what is queued again and what
\* finds no room; a queue that overflowed and ran empty loses what is debounced.
LEMMA FinishEffects ==
  ASSUME CapacityInv, FinishWatcherPhase
  PROVE  /\ batch = <<>> /\ batch' = <<>> /\ rejected' = <<>> /\ phase' = "idle"
         /\ phase = "watcher" /\ ~postScanActive /\ UNCHANGED postScan
         /\ \E kept, gone \in Seq(Event) :
              /\ rejected = kept \o gone
              /\ gone = SubSeq(rejected, Requeued(Len(rejected)) + 1, Len(rejected))
              /\ watcherQueue' = watcherQueue \o kept
              /\ \/ /\ state' = "full_scan" /\ state # "full_scan"
                    /\ watcherQueue' = <<>> /\ debounced' = <<>>
                 \/ /\ state' = "full_scan" <=> state = "full_scan"
                    /\ debounced' = debounced
<1> DEFINE n == Len(rejected)
           kept == SubSeq(rejected, 1, Requeued(n))
           gone == SubSeq(rejected, Requeued(n) + 1, n)
           s == StateAfterRequeue(n)
<1>1. /\ TypeOK /\ PostScanIsQuiet /\ watcherQueue \in Seq(Event) /\ rejected \in Seq(Event)
  BY DEF CapacityInv, TypeOK
<1>2. n \in Nat /\ Requeued(n) \in 0 .. n
  BY <1>1, SizeType, RequeuedType
<1>3. kept \in Seq(Event)
  BY <1>1, <1>2, SubSeqType
<1>4. gone \in Seq(Event)
  <2>1. Requeued(n) + 1 \in Nat \ {0} /\ n \in 0 .. n
    BY <1>2
  <2> QED  BY <1>1, <2>1, SubSeqType
<1>5. rejected = kept \o gone
  <2>1. 1 \in 1 .. n + 1 /\ Requeued(n) \in 1 - 1 .. n /\ n \in Requeued(n) .. n
    BY <1>2
  <2>2. kept \o gone = SubSeq(rejected, 1, n)
    BY <1>1, <2>1, ConcatAdjacentSubSeq
  <2> QED  BY <1>1, <2>2, SubSeqWhole
<1>6. EndDrain(watcherQueue \o kept, reindexQueue, s, debounced)
  BY DEF FinishWatcherPhase
<1>7. s = "full_scan" <=> state = "full_scan"
  BY DEF StateAfterRequeue, StateAtSize, Overflowed
<1>8. /\ batch = <<>> /\ batch' = <<>> /\ rejected' = <<>> /\ phase = "watcher"
      /\ ~postScanActive /\ UNCHANGED postScan
  BY <1>1 DEF FinishWatcherPhase, PostScanIsQuiet
<1> HIDE DEF kept, s, gone
<1>9. /\ phase' = "idle" /\ watcherQueue' = watcherQueue \o kept
      /\ \/ state' = "full_scan" /\ s = "overflow" /\ watcherQueue \o kept = <<>> /\ debounced' = <<>>
         \/ state' = s /\ debounced' = debounced
  BY <1>6 DEF EndDrain
<1>10. gone = SubSeq(rejected, Requeued(Len(rejected)) + 1, Len(rejected))
  BY DEF gone
<1> QED  BY <1>3, <1>4, <1>5, <1>7, <1>8, <1>9, <1>10

LEMMA DebouncedOnceStep ==
  ASSUME CapacityInv, DebouncedOnce, QueueStep
  PROVE  DebouncedOnce'
<1>0. TypeOK
  BY DEF CapacityInv
<1>1. CASE ReportChange
  <2>1. PICK e \in [file : Files, type : ReportedTypes] : Enqueue(e)
    BY <1>1 DEF ReportChange
  <2>2. debounced' = debounced \/ debounced' = Merged(e)
    BY <2>1 DEF Enqueue, BufferPostScan, DropPostScan, DropOverflowing, DropAtCapacity, Debounce, queues
  <2>3. \A j, k \in DOMAIN Merged(e) : Merged(e)[j].file = Merged(e)[k].file => j = k
    BY <1>0, MergedTypes
  <2> QED  BY <2>2, <2>3 DEF DebouncedOnce
<1>2. CASE TimerFires
  <2>1. PICK f \in Files : FlushDebounced(f)
    BY <1>2 DEF TimerFires
  <2>2. IndexOf(f) \in DOMAIN debounced /\ debounced' = RemoveAt(debounced, IndexOf(f))
    BY <2>1, IndexOfType DEF FlushDebounced
  <2> QED  BY <1>0, <2>2, TakenOut DEF DebouncedOnce
<1>3. CASE StartDrain
  <2>1. debounced' = <<>>
    BY <1>3, DrainEffects
  <2> QED  BY <2>1 DEF DebouncedOnce
<1>4. CASE FinishWatcherPhase
  <2>1. debounced' = <<>> \/ debounced' = debounced
    BY <1>4, FinishEffects
  <2> QED  BY <2>1 DEF DebouncedOnce
<1>5. CASE MarkFullScanComplete
  BY <1>5 DEF MarkFullScanComplete, DebouncedOnce
<1>6. CASE \/ HandlerResolves
           \/ HandlerRejects
           \/ startup = "new" /\ StartPostScan
           \/ DrainPostScanQueue
           \/ UNCHANGED vars
  <2>1. UNCHANGED debounced
    BY <1>6 DEF HandlerResolves, HandlerRejects, SettleHandled, SettleRejected, StartPostScan,
       EnterPostScanMode, DrainPostScanQueue, vars, queues
  <2> QED  BY <2>1 DEF DebouncedOnce
<1> QED  BY <1>1, <1>2, <1>3, <1>4, <1>5, <1>6 DEF QueueStep

LEMMA FullScanEmptyStep ==
  ASSUME CapacityInv, FreshUntilInitialized, FullScanEmpty, QueueStep
  PROVE  FullScanEmpty'
<1> USE DEF FullScanEmpty
<1>0. /\ TypeOK /\ PostScanIsQuiet /\ BatchOnlyWhileDraining
      /\ debounced \in Seq(Event) /\ watcherQueue \in Seq(Event)
  BY DEF CapacityInv, TypeOK
<1>a. postScanActive => watcherQueue = <<>> /\ debounced = <<>> /\ phase = "idle"
  <2> SUFFICES ASSUME postScanActive PROVE watcherQueue = <<>> /\ debounced = <<>> /\ phase = "idle"
    OBVIOUS
  <2>1. Len(watcherQueue) = 0 /\ Len(debounced) = 0 /\ phase = "idle"
    BY <1>0, SizeType DEF PostScanIsQuiet, Size, TypeOK
  <2> QED  BY <1>0, <2>1, EmptySeq
<1>b. ASSUME NEW n PROVE StateAtSize(n) = "full_scan" <=> state = "full_scan"
  BY DEF StateAtSize, Overflowed
<1>1. CASE ReportChange
  <2>1. PICK e \in [file : Files, type : ReportedTypes] : Enqueue(e)
    BY <1>1 DEF ReportChange
  <2>2. CASE BufferPostScan(e) \/ DropPostScan(e)
    <3>1. UNCHANGED <<state, postScanActive>> /\ postScanActive
      BY <2>2 DEF BufferPostScan, DropPostScan
    <3> QED  BY <3>1
  <2>3. CASE DropOverflowing(e)
    BY <2>3 DEF DropOverflowing, queues, postScan, drainVars, handlers
  <2>4. CASE DropAtCapacity(e) \/ Debounce(e)
    <3>1. ~postScanActive /\ UNCHANGED postScanActive /\ state' # "full_scan"
      BY <1>b, <2>4 DEF DropAtCapacity, Debounce, postScan
    <3> QED  BY <3>1
  <2> QED  BY <2>1, <2>2, <2>3, <2>4 DEF Enqueue
<1>2. CASE TimerFires
  <2>1. PICK f \in Files : FlushDebounced(f)
    BY <1>2 DEF TimerFires
  <2>2. debounced # <<>>
    BY <2>1 DEF FlushDebounced, IsDebounced
  <2>3. UNCHANGED postScanActive
    BY <2>1 DEF FlushDebounced, postScan
  <2> DEFINE n == IF Size - 1 < MaxQueueSize THEN Size ELSE Size - 1
  <2>4. state' = StateAtSize(n)
    BY <2>1 DEF FlushDebounced
  <2>5. state' # "full_scan"
    BY <1>b, <2>2, <2>4
  <2> QED  BY <1>a, <2>2, <2>3, <2>5
<1>3. CASE StartDrain
  <2>1. /\ rejected' = <<>> /\ watcherQueue' = <<>> /\ debounced' = <<>> /\ UNCHANGED postScanActive
        /\ batch' = watcherQueue \o debounced
        /\ \/ /\ state' = "full_scan" <=> state = "full_scan"
              /\ phase' = "watcher" /\ ~postScanActive
           \/ /\ batch' = <<>> /\ phase' = "idle"
              /\ state' = IF state = "overflow" THEN "full_scan" ELSE state
    BY <1>3, DrainEffects DEF postScan
  <2>2. CASE /\ batch' = <<>> /\ phase' = "idle"
             /\ state' = IF state = "overflow" THEN "full_scan" ELSE state
    <3>1. postScanActive' => state' = "normal"
      BY <2>1, <2>2
    <3> QED  BY <2>1, <2>2, <3>1
  <2>3. CASE (state' = "full_scan" <=> state = "full_scan") /\ phase' = "watcher" /\ ~postScanActive
    <3>1. state' # "full_scan"
      <4>1. FlushedQueue # <<>>
        BY <1>3, <2>3 DEF StartDrain, TakeBatch, EndDrain
      <4> SUFFICES ASSUME state = "full_scan" PROVE FALSE
        BY <2>3
      <4>2. FlushedState = state /\ watcherQueue = <<>> /\ debounced = <<>>
        BY DEF FlushedState
      <4>3. Len(FlushedQueue) = 0
        BY <1>0, <4>2, FlushedType, SizeType, EmptySeq
      <4> QED  BY <1>0, <4>1, <4>3, FlushedType, EmptySeq
    <3> QED  BY <2>1, <2>3, <3>1
  <2> QED  BY <2>1, <2>2, <2>3
<1>4. CASE HandlerResolves \/ HandlerRejects
  <2>1. batch # <<>> /\ UNCHANGED <<state, postScanActive, phase>> /\ phase # "idle"
    BY <1>0, <1>4 DEF HandlerResolves, HandlerRejects, SettleHandled, SettleRejected, Running,
       postScan, BatchOnlyWhileDraining
  <2> QED  BY <2>1
<1>5. CASE FinishWatcherPhase
  <2>1. /\ batch' = <<>> /\ rejected' = <<>> /\ phase' = "idle" /\ phase = "watcher"
        /\ ~postScanActive /\ UNCHANGED postScanActive
        /\ \/ state' = "full_scan" /\ watcherQueue' = <<>> /\ debounced' = <<>>
           \/ state' = "full_scan" <=> state = "full_scan"
    BY <1>5, FinishEffects DEF postScan
  <2> QED  BY <2>1
<1>6. CASE MarkFullScanComplete
  BY <1>6 DEF MarkFullScanComplete, postScan
<1>7. CASE startup = "new" /\ StartPostScan
  <2>1. state' = "normal"
    BY <1>7 DEF FreshUntilInitialized, StartPostScan, EnterPostScanMode
  <2> QED  BY <2>1
<1>8. CASE DrainPostScanQueue
  <2>1. ~postScanActive' /\ state' # "full_scan"
    BY <1>8 DEF DrainPostScanQueue, Overflowed
  <2> QED  BY <2>1
<1>9. CASE UNCHANGED vars
  BY <1>9 DEF vars, queues, postScan, drainVars, handlers
<1> QED  BY <1>1, <1>2, <1>3, <1>4, <1>5, <1>6, <1>7, <1>8, <1>9 DEF QueueStep

\* A handler that settles leaves batch and loaded together.
LEMMA LoadedGone ==
  ASSUME LoadedOK, TypeOK, DOMAIN loaded = DOMAIN batch, NEW i \in DOMAIN batch,
         batch' = RemoveAt(batch, i), loaded' = RemoveAt(loaded, i)
  PROVE  LoadedOK' /\ DOMAIN loaded' = DOMAIN batch'
<1>1. batch \in Seq(Event)
  BY DEF TypeOK
<1>2. DOMAIN RemoveAt(batch, i) = 1 .. Len(batch) - 1 /\ DOMAIN batch = 1 .. Len(batch) /\ Len(batch) \in Nat
  BY <1>1, RemoveAtElements
<1>3. DOMAIN RemoveAt(loaded, i) = 1 .. Len(loaded) - 1 /\ DOMAIN loaded = 1 .. Len(loaded) /\ Len(loaded) \in Nat
  BY RemoveAtElements DEF LoadedOK
<1>4. Len(loaded) = Len(batch)
  <2>1. 1 .. Len(loaded) = 1 .. Len(batch)
    BY <1>2, <1>3
  <2> QED  BY <1>2, <1>3, <2>1
<1>5. LoadedOK'
  BY RemoveAtType DEF LoadedOK
<1> QED  BY <1>2, <1>3, <1>4, <1>5

ReadTypes == LoadedOK /\ DOMAIN loaded = DOMAIN batch

LEMMA ReadStep ==
  ASSUME CapacityInv, RuntimeTypeOK, ReadTypes, FreshUntilInitialized, [RuntimeNext]_allVars
  PROVE  ReadTypes'
<1> USE DEF ReadTypes
<1>0. TypeOK /\ batch \in Seq(Event) /\ disk \in [Files -> Contents]
  BY DEF CapacityInv, TypeOK, RuntimeTypeOK
<1> DEFINE Values == {NotRead} \cup {<<c>> : c \in Contents \ {Absent}}
<1>1. CASE Drain
  <2>1. loaded' = [i \in DOMAIN batch' |-> NotRead]
    BY <1>1 DEF Drain
  <2>2. batch' = watcherQueue \o debounced /\ watcherQueue \in Seq(Event) /\ debounced \in Seq(Event)
    BY <1>0, <1>1, DrainEffects DEF Drain, TypeOK
  <2>3. batch' \in Seq(Event)
    BY <2>2, ConcatProperties
  <2>4. DOMAIN batch' = 1 .. Len(batch') /\ Len(batch') \in Nat
    BY <2>3, LenProperties
  <2>5. loaded' \in [1 .. Len(batch') -> Values]
    BY <2>1, <2>4
  <2>6. loaded' \in Seq(Values)
    BY <2>4, <2>5, SeqDef
  <2> QED  BY <2>1, <2>6 DEF LoadedOK
<1>2. ASSUME NEW i \in 1 .. Concurrency, HandlerReads(i) PROVE ReadTypes'
  <2>1. /\ i \in DOMAIN loaded /\ i \in DOMAIN batch /\ disk[batch[i].file] # Absent
        /\ loaded' = [loaded EXCEPT ![i] = <<disk[batch[i].file]>>]
        /\ UNCHANGED batch
    BY <1>2 DEF HandlerReads, Running, vars, drainVars, handlers
  <2>2. batch[i] \in Event
    BY <1>0, <2>1, LenProperties, ElementOfSeq
  <2>3. <<disk[batch[i].file]>> \in Values
    BY <1>0, <2>1, <2>2 DEF Event
  <2>4. loaded' \in Seq(Values)
    BY <2>1, <2>3, ExceptSeq DEF LoadedOK
  <2> QED  BY <2>1, <2>4 DEF LoadedOK
<1>3. ASSUME NEW i \in 1 .. Concurrency, HandlerFindsNothing(i) \/ HandlerWrites(i) \/ HandlerFails(i)
      PROVE ReadTypes'
  <2>1. i \in DOMAIN batch /\ batch' = RemoveAt(batch, i) /\ loaded' = RemoveAt(loaded, i)
    BY <1>3 DEF HandlerFindsNothing, HandlerWrites, HandlerFails, SettleHandled, SettleRejected, Running
  <2> QED  BY <1>0, <2>1, LoadedGone
<1>4. CASE FinishDrain
  <2>1. batch' = <<>> /\ loaded' = <<>>
    BY <1>4, FinishEffects DEF FinishDrain
  <2> QED  BY <2>1, EmptySeq DEF LoadedOK
<1>5. CASE \/ FileChanges \/ Flush \/ Initialize \/ RecoveryScans \/ RecoverySkipped
           \/ UserReindexes \/ ScanSteps \/ StartupDrains \/ UNCHANGED allVars
  <2>1. UNCHANGED <<loaded, batch>>
    <3>1. CASE FileChanges
      BY <3>1 DEF FileChanges, Change, BufferPostScan, Debounce, DropPostScan, DropOverflowing,
         DropAtCapacity, drainVars, handlers
    <3>2. CASE Flush \/ Initialize \/ StartupDrains
      BY <3>2 DEF Flush, TimerFires, FlushDebounced, Initialize, EnterPostScanMode, StartupDrains,
         DrainPostScanQueue, vars, drainVars, handlers, runtimeVars
    <3>3. CASE RecoveryScans \/ RecoverySkipped \/ UserReindexes
      BY <3>3 DEF RecoveryScans, RecoverySkipped, UserReindexes, ManualReindex, vars, drainVars, handlers
    <3>4. CASE ScanSteps
      BY <3>4 DEF ScanSteps, ScanLists, ScanReads, ScanWrites, ScanCompletes, ScanFails, Release,
         MarkFullScanComplete, vars, drainVars, handlers
    <3>5. CASE UNCHANGED allVars
      BY <3>5 DEF allVars, runtimeVars, vars, drainVars, handlers
    <3> QED  BY <1>5, <3>1, <3>2, <3>3, <3>4, <3>5
  <2> QED  BY <2>1 DEF LoadedOK
<1> QED  BY <1>1, <1>2, <1>3, <1>4, <1>5 DEF RuntimeNext, HandlerSteps, HandlersFail

LEMMA ScanInvStep ==
  ASSUME RuntimeTypeOK, ScanInv, FreshUntilInitialized, [RuntimeNext]_allVars
  PROVE  ScanInv'
<1>0. FreshUntilInitialized'
  BY FreshStep
<1>a. Idle' = Idle /\ Idle.step = "idle" /\ Idle.by = "none"
  BY DEF Idle
<1>1. CASE FileChanges \/ HandlerSteps \/ HandlersFail \/ Flush
  <2>1. UNCHANGED <<scan, startup, recovery>>
    BY <1>1 DEF FileChanges, Change, HandlerSteps, HandlersFail, HandlerReads, HandlerFindsNothing,
       HandlerWrites, HandlerFails, Flush, runtimeVars
  <2> QED  BY <1>a, <2>1 DEF ScanInv
<1>2. CASE Drain \/ FinishDrain
  <2>1. UNCHANGED <<scan, startup>>
    BY <1>2 DEF Drain, FinishDrain
  <2>2. startup = "new" => UNCHANGED recovery
    BY <1>0, <1>2, <2>1 DEF Drain, FinishDrain, AfterDrain, FreshUntilInitialized
  <2>3. recovery' = recovery \/ recovery' # 0
    BY <1>2 DEF Drain, FinishDrain, AfterDrain
  <2> QED  BY <1>a, <2>1, <2>2, <2>3 DEF ScanInv
<1>3. CASE Initialize
  <2>1. /\ startup' # "new" /\ UNCHANGED recovery
        /\ scan' = scan \/ scan' = [Idle EXCEPT !.step = "list", !.by = "startup", !.full = TRUE]
    BY <1>3 DEF Initialize, Acquire
  <2>2. scan' = scan \/ (scan'.step = "list" /\ scan'.by = "startup")
    BY <2>1 DEF Idle
  <2> QED  BY <1>a, <2>1, <2>2 DEF ScanInv
<1>4. CASE RecoveryScans
  <2>1. recovery > 0 /\ UNCHANGED <<startup, recovery>>
    BY <1>4 DEF RecoveryScans
  <2>2. recovery # 0
    BY <2>1
  <2>3. scan'.step = "list"
    BY <1>4 DEF RecoveryScans, Acquire, Idle
  <2> QED  BY <2>1, <2>2, <2>3 DEF ScanInv
<1>5. CASE UserReindexes
  <2>1. scan'.step = "list" /\ scan'.by = "manual" /\ startup' # "new"
    BY <1>5 DEF UserReindexes, ManualReindex, Acquire, Idle
  <2> QED  BY <2>1 DEF ScanInv
<1>6. CASE RecoverySkipped
  <2>1. startup # "new" /\ scan.by # "recovery" /\ UNCHANGED <<scan, startup>>
    <3>1. recovery # 0
      BY <1>6 DEF RecoverySkipped
    <3> QED  BY <1>6, <3>1 DEF RecoverySkipped, ScanInv
  <2> QED  BY <1>a, <2>1 DEF ScanInv
<1>7. CASE StartupDrains \/ UNCHANGED allVars
  <2>1. UNCHANGED <<scan, recovery>> /\ (startup' # "new" \/ UNCHANGED startup)
    BY <1>7 DEF StartupDrains, allVars, runtimeVars
  <2> QED  BY <1>a, <2>1 DEF ScanInv
<1>8. ASSUME ScanLists \/ \E f \in Files : ScanReads(f) \/ ScanWrites(f) PROVE ScanInv'
  <2>1. startup # "new" /\ UNCHANGED <<startup, recovery>>
    BY <1>8, <1>a DEF ScanLists, ScanReads, ScanWrites, ScanInv
  <2>2. scan'.step # "idle" /\ scan'.by = scan.by
    BY <1>8 DEF ScanLists, ScanReads, ScanWrites, RuntimeTypeOK
  <2> QED  BY <2>1, <2>2 DEF ScanInv
<1>9. CASE ScanCompletes \/ ScanFails
  <2>1. scan' = Idle /\ startup # "new"
    BY <1>9, <1>a DEF ScanCompletes, ScanFails, Release, ScanInv
  <2>2. startup' # "new"
    BY <1>9, <2>1 DEF ScanCompletes, ScanFails, Release
  <2> QED  BY <1>a, <2>1, <2>2 DEF ScanInv
<1> QED
  BY <1>1, <1>2, <1>3, <1>4, <1>5, <1>6, <1>7, <1>8, <1>9 DEF RuntimeNext, ScanSteps

\* Everything above together.
RuntimeBase ==
  /\ CapacityInv
  /\ RuntimeTypeOK
  /\ FreshUntilInitialized
  /\ ScanInv
  /\ LoadedOK
  /\ FullScanEmpty
  /\ DebouncedOnce

\* The content a handler has read.
LEMMA LoadedContent ==
  ASSUME LoadedOK, NEW i \in DOMAIN loaded, loaded[i] # NotRead
  PROVE  loaded[i][1] \in Contents \ {Absent} /\ loaded[i] = <<loaded[i][1]>>
<1>1. loaded[i] \in {NotRead} \cup {<<c>> : c \in Contents \ {Absent}}
  BY LenProperties, ElementOfSeq DEF LoadedOK
<1>2. PICK c \in Contents \ {Absent} : loaded[i] = <<c>>
  BY <1>1
<1> QED  BY <1>2

LEMMA AfterDrainType ==
  ASSUME NEW drops \in SUBSET Files, RuntimeTypeOK, AfterDrain(drops)
  PROVE  recovery' \in 0 .. ScanAttempts /\ lost' \subseteq Files
<1>1. FilesIn(debounced) \subseteq Files
  BY FilesInType DEF RuntimeTypeOK, TypeOK
<1>2. lost \subseteq Files /\ recovery \in 0 .. ScanAttempts
  BY DEF RuntimeTypeOK
<1>3. CASE state # "full_scan" /\ state' = "full_scan"
  BY <1>1, <1>2, <1>3 DEF AfterDrain
<1>4. CASE ~(state # "full_scan" /\ state' = "full_scan")
  BY <1>1, <1>2, <1>4 DEF AfterDrain
<1> QED  BY <1>3, <1>4

LEMMA RuntimeTypeStep ==
  ASSUME RuntimeBase, [RuntimeNext]_allVars
  PROVE  RuntimeTypeOK'
<1>0. /\ CapacityInv /\ RuntimeTypeOK /\ FreshUntilInitialized /\ LoadedOK
      /\ ScanInv /\ TypeOK /\ batch \in Seq(Event)
  BY DEF RuntimeBase, CapacityInv, TypeOK
<1>a. TypeOK'
  BY <1>0, RuntimeStepIsNext, StepType DEF ApiNext
<1>b. DOMAIN loaded' = DOMAIN batch'
  BY <1>0, ReadStep DEF ReadTypes, RuntimeTypeOK
<1> DEFINE Rest ==
      /\ disk \in [Files -> Contents]
      /\ index \in [Files -> Contents]
      /\ changes \in Contents
      /\ startup \in {"new", "scanning", "scanned", "done"}
      /\ scan \in [step : {"idle", "list", "read"},
                   by : {"none", "startup", "recovery", "manual"},
                   full : BOOLEAN, todo : SUBSET Files, content : [Files -> Contents]]
      /\ recovery \in 0 .. ScanAttempts
      /\ manual \in 0 .. MaxManual
      /\ lost \subseteq Files
      /\ raced \subseteq Files
<1>c. Rest
  BY <1>0 DEF RuntimeTypeOK
<1> SUFFICES Rest'
  BY <1>a, <1>b DEF RuntimeTypeOK
<1>d. Idle \in [step : {"idle", "list", "read"},
                by : {"none", "startup", "recovery", "manual"},
                full : BOOLEAN, todo : SUBSET Files, content : [Files -> Contents]]
  BY DEF Idle, Contents, Absent
<1>1. ASSUME NEW f \in Files, NEW type \in ReportedTypes, Change(f, type) PROVE Rest'
  <2>1. changes + 1 \in Contents /\ NewContent(f, type) \in Contents
    BY <1>1, <1>c DEF Change, Contents, NewContent, Absent
  <2>2. MeetsCancel(f) \subseteq Files
    BY DEF MeetsCancel
  <2>3. /\ disk' = [disk EXCEPT ![f] = NewContent(f, type)] /\ changes' = changes + 1
        /\ lost' \in {lost, lost \cup {f}} /\ raced' = raced \cup MeetsCancel(f)
        /\ UNCHANGED <<index, startup, scan, recovery, manual>>
    BY <1>1 DEF Change
  <2> QED  BY <1>c, <2>1, <2>2, <2>3
<1>2. CASE Flush \/ UNCHANGED allVars
  BY <1>2, <1>c DEF Flush, allVars, runtimeVars
<1>3. CASE Drain
  <2>1. recovery' \in 0 .. ScanAttempts /\ lost' \subseteq Files
    <3>1. {} \in SUBSET Files /\ AfterDrain({})
      BY <1>3 DEF Drain
    <3> QED  BY <1>0, <3>1, AfterDrainType
  <2>2. raced' \subseteq Files
    <3>1. DOMAIN batch' = 1 .. Len(batch') /\ \A i \in DOMAIN batch' : batch'[i] \in Event
      BY <1>a, LenProperties, ElementOfSeq DEF TypeOK
    <3>2. DeletedAmongOthers(batch') \subseteq Files
      BY <3>1 DEF DeletedAmongOthers, Event
    <3> QED  BY <1>3, <1>c, <3>2 DEF Drain
  <2> QED  BY <1>3, <1>c, <2>1, <2>2 DEF Drain, content
<1>4. ASSUME NEW i \in 1 .. Concurrency, HandlerReads(i) \/ HandlerFindsNothing(i) \/ HandlerFails(i)
      PROVE Rest'
  <2>1. UNCHANGED <<disk, index, changes, startup, scan, recovery, manual, lost, raced>>
    BY <1>4 DEF HandlerReads, HandlerFindsNothing, HandlerFails, content, runtimeHistory
  <2> QED  BY <1>c, <2>1
<1>5. ASSUME NEW i \in 1 .. Concurrency, HandlerWrites(i) PROVE Rest'
  <2> DEFINE f == batch[i].file
  <2>1. i \in DOMAIN batch /\ f \in Files
    <3>1. i \in DOMAIN batch
      BY <1>5 DEF HandlerWrites, SettleHandled, Running
    <3>2. batch[i] \in Event
      BY <1>0, <3>1, LenProperties, ElementOfSeq
    <3> QED  BY <3>1, <3>2 DEF Event
  <2>2. (IF batch[i].type = "deleted" THEN Absent ELSE loaded[i][1]) \in Contents
    <3>1. i \in DOMAIN loaded
      BY <1>0, <2>1 DEF RuntimeTypeOK
    <3> QED  BY <1>0, <1>5, <3>1, LoadedContent DEF HandlerWrites, Contents, Absent
  <2>3. MeetsScan(f) \subseteq Files
    BY <2>1 DEF MeetsScan
  <2> QED  BY <1>5, <1>c, <2>1, <2>2, <2>3 DEF HandlerWrites, content
<1>6. CASE FinishDrain
  <2> DEFINE drops == FilesIn(SubSeq(rejected, Requeued(Len(rejected)) + 1, Len(rejected)))
  <2>1. drops \in SUBSET Files /\ AfterDrain(drops)
    BY <1>0, <1>6, FinishEffects, FilesInType DEF FinishDrain
  <2>2. recovery' \in 0 .. ScanAttempts /\ lost' \subseteq Files
    BY <1>0, <2>1, AfterDrainType
  <2> QED  BY <1>6, <1>c, <2>2 DEF FinishDrain, content
<1>7. CASE Initialize
  <2>1. /\ scan' = scan \/ scan' = [Idle EXCEPT !.step = "list", !.by = "startup", !.full = TRUE]
        /\ startup' \in {"done", "scanning"}
        /\ UNCHANGED <<disk, index, changes, recovery, manual, lost, raced>>
    BY <1>7 DEF Initialize, Acquire, content, runtimeHistory
  <2> QED  BY <1>c, <1>d, <2>1
<1>8. CASE RecoveryScans \/ UserReindexes
  <2>1. \E by \in {"recovery", "manual"}, full \in BOOLEAN :
          scan' = [Idle EXCEPT !.step = "list", !.by = by, !.full = full]
    BY <1>8 DEF RecoveryScans, UserReindexes, ManualReindex, Acquire
  <2>2. UNCHANGED <<disk, index, changes, startup, recovery, lost, raced>>
    BY <1>8 DEF RecoveryScans, UserReindexes, ManualReindex, content, runtimeHistory
  <2>3. manual' \in 0 .. MaxManual
    <3>1. manual' = manual \/ (manual < MaxManual /\ manual' = manual + 1)
      BY <1>8 DEF RecoveryScans, UserReindexes, ManualReindex
    <3> QED  BY <1>c, <3>1
  <2> QED  BY <1>c, <1>d, <2>1, <2>2, <2>3
<1>9. CASE RecoverySkipped
  <2>1. recovery' \in 0 .. ScanAttempts
    BY <1>9, <1>c DEF RecoverySkipped
  <2>2. UNCHANGED <<disk, index, changes, startup, scan, manual, lost, raced>>
    BY <1>9 DEF RecoverySkipped, content, runtimeHistory
  <2> QED  BY <1>c, <2>1, <2>2
<1>10. CASE ScanLists
  <2>1. Present \subseteq Files
    BY DEF Present
  <2>2. UNCHANGED <<disk, index, changes, startup, recovery, manual, lost, raced>>
    BY <1>10 DEF ScanLists, content, runtimeHistory
  <2> QED  BY <1>10, <1>c, <2>1, <2>2 DEF ScanLists
<1>11. ASSUME NEW f \in Files, ScanReads(f) PROVE Rest'
  <2>1. UNCHANGED <<disk, index, changes, startup, recovery, manual, lost, raced>>
    BY <1>11 DEF ScanReads, content, runtimeHistory
  <2>2. scan' = [scan EXCEPT !.content[f] = disk[f]] /\ disk[f] \in Contents
    BY <1>11, <1>c DEF ScanReads
  <2> QED  BY <1>c, <2>1, <2>2
<1>12. ASSUME NEW f \in Files, ScanWrites(f) PROVE Rest'
  <2>1. UNCHANGED <<disk, changes, startup, recovery, manual>>
    BY <1>12 DEF ScanWrites, content
  <2>2. scan.content[f] \in Contents /\ Absent \in Contents
    BY <1>c DEF Contents, Absent
  <2>3. index' \in [Files -> Contents] /\ raced' \subseteq Files /\ lost' \subseteq Files
    BY <1>12, <1>c, <2>2 DEF ScanWrites
  <2>4. scan' = [scan EXCEPT !.todo = @ \ {f}, !.content[f] = Absent]
    BY <1>12 DEF ScanWrites
  <2> QED  BY <1>c, <2>1, <2>2, <2>3, <2>4
<1>13. CASE ScanCompletes \/ ScanFails
  <2>1. UNCHANGED <<disk, index, changes, manual, raced>> /\ scan' = Idle
    BY <1>13 DEF ScanCompletes, ScanFails, Release, content
  <2>2. startup' \in {startup, "scanned"} /\ lost' \in {lost, lost \cup Files}
    BY <1>13 DEF ScanCompletes, ScanFails, Release
  <2>3. recovery' \in 0 .. ScanAttempts
    <3>1. scan.by = "recovery" => recovery # 0
      BY <1>0 DEF ScanInv
    <3>2. CASE ScanCompletes
      BY <1>c, <3>2 DEF ScanCompletes
    <3>3. CASE ScanFails
      BY <1>c, <3>1, <3>3 DEF ScanFails
    <3> QED  BY <1>13, <3>2, <3>3
  <2> QED  BY <1>c, <1>d, <2>1, <2>2, <2>3
<1>14. CASE StartupDrains
  <2>1. UNCHANGED <<disk, index, changes, scan, recovery, manual, lost, raced>> /\ startup' = "done"
    BY <1>14 DEF StartupDrains, content, runtimeHistory
  <2> QED  BY <1>c, <2>1
<1> QED
  BY <1>1, <1>2, <1>3, <1>4, <1>5, <1>6, <1>7, <1>8, <1>9, <1>10, <1>11, <1>12, <1>13, <1>14
     DEF RuntimeNext, FileChanges, HandlerSteps, HandlersFail, ScanSteps

LEMMA RuntimeBaseStep ==
  ASSUME RuntimeBase, [RuntimeNext]_allVars
  PROVE  RuntimeBase'
<1>1. /\ CapacityInv /\ RuntimeTypeOK /\ FreshUntilInitialized /\ ScanInv /\ LoadedOK
      /\ FullScanEmpty /\ DebouncedOnce
  BY DEF RuntimeBase
<1>2. QueueStep
  BY <1>1, RuntimeTakesQueueSteps
<1>3. CapacityInv'
  BY <1>1, RuntimeStepIsNext, CapacityStep
<1>4. FreshUntilInitialized' /\ ScanInv'
  BY <1>1, FreshStep, ScanInvStep
<1>5. LoadedOK'
  BY <1>1, ReadStep DEF ReadTypes, RuntimeTypeOK
<1>6. FullScanEmpty' /\ DebouncedOnce'
  BY <1>1, <1>2, FullScanEmptyStep, DebouncedOnceStep
<1> QED  BY <1>3, <1>4, <1>5, <1>6, RuntimeTypeStep DEF RuntimeBase

LEMMA RuntimeBaseInit == RuntimeInit => RuntimeBase
<1> SUFFICES ASSUME RuntimeInit PROVE RuntimeBase
  OBVIOUS
<1>1. CapacityInv
  BY InitFits DEF RuntimeInit
<1>2. 0 \in Contents /\ 1 \in Contents
  BY DEF Contents
<1>3. RuntimeTypeOK
  <2>1. disk \in [Files -> Contents] /\ index \in [Files -> Contents] /\ changes \in Contents
    BY <1>2 DEF RuntimeInit, Absent
  <2>2. scan = Idle /\ loaded = batch
    BY DEF RuntimeInit, Init
  <2>3. scan \in [step : {"idle", "list", "read"},
                  by : {"none", "startup", "recovery", "manual"},
                  full : BOOLEAN, todo : SUBSET Files, content : [Files -> Contents]]
    BY <1>2, <2>2 DEF Idle, Absent
  <2>4. recovery \in 0 .. ScanAttempts /\ manual \in 0 .. MaxManual
    BY DEF RuntimeInit
  <2> QED  BY <1>1, <2>1, <2>2, <2>3, <2>4 DEF RuntimeInit, RuntimeTypeOK, CapacityInv
<1>4. LoadedOK
  BY EmptySeq DEF RuntimeInit, LoadedOK
<1>5. FreshUntilInitialized /\ FullScanEmpty /\ DebouncedOnce
  BY DEF RuntimeInit, Init, FreshUntilInitialized, FullScanEmpty, DebouncedOnce
<1>6. ScanInv
  BY DEF RuntimeInit, ScanInv, Idle
<1> QED  BY <1>1, <1>3, <1>4, <1>5, <1>6 DEF RuntimeBase

-----------------------------------------------------------------------------
(***************************************************************************)
(* What the runtime holds of a file.                                       *)
(***************************************************************************)

\* Events that no drain has taken, and those that one has.
Waiting(f) ==
  TypesIn(debounced, f) \cup TypesIn(watcherQueue, f) \cup TypesIn(postScanQueue, f)
Taken(f) == TypesIn(batch, f) \cup TypesIn(rejected, f)

\* What the handlers at work on the file have read.
Reads(f) ==
  {loaded[i] : i \in {k \in DOMAIN batch : batch[k].file = f /\ batch[k].type # "deleted"}}

\* A deletion that is taken is alone with its file, or the file has raced.
DeletedAlone(f) ==
  /\ \A i, j \in DOMAIN batch :
       i # j /\ batch[i].file = f /\ batch[j].file = f => batch[i].type # "deleted"
  /\ TypesIn(batch, f) # {} /\ TypesIn(rejected, f) # {} => "deleted" \notin Taken(f)

LEMMA RunningEvent ==
  ASSUME TypeOK, NEW i \in DOMAIN batch
  PROVE  /\ batch[i] \in Event
         /\ batch[i].file \in Files /\ batch[i].type \in EventTypes
         /\ batch[i].type \in TypesIn(batch, batch[i].file)
<1>1. batch[i] \in Event
  BY LenProperties, ElementOfSeq DEF TypeOK
<1> QED  BY <1>1 DEF Event, TypesIn

\* A handler that settles takes its own event and what it read along, nothing
\* else.
LEMMA HandlerGone ==
  ASSUME RuntimeBase, NEW i \in DOMAIN batch,
         batch' = RemoveAt(batch, i), loaded' = RemoveAt(loaded, i)
  PROVE  /\ \A f : f # batch[i].file =>
              TypesIn(batch', f) = TypesIn(batch, f) /\ Reads(f)' = Reads(f)
         /\ \A f : f = batch[i].file =>
              /\ TypesIn(batch', f) \subseteq TypesIn(batch, f)
              /\ TypesIn(batch, f) \subseteq TypesIn(batch', f) \cup {batch[i].type}
              /\ Reads(f)' \subseteq Reads(f)
              /\ Reads(f) \subseteq Reads(f)' \cup {loaded[i]}
              /\ batch[i].type = "deleted" => Reads(f)' = Reads(f)
<1>1. batch \in Seq(Event) /\ DOMAIN loaded = DOMAIN batch /\ LoadedOK
  BY DEF RuntimeBase, RuntimeTypeOK, TypeOK
<1>2. /\ \A j \in DOMAIN batch' :
           Before(j, i) \in DOMAIN batch \ {i} /\ batch'[j] = batch[Before(j, i)]
      /\ \A k \in DOMAIN batch \ {i} : \E j \in DOMAIN batch' : k = Before(j, i)
  BY <1>1, RemoveAtPlaces
<1>3. DOMAIN loaded' = DOMAIN batch'
  BY <1>1, LoadedGone DEF RuntimeBase, RuntimeTypeOK
<1>4. \A j \in DOMAIN batch' : loaded'[j] = loaded[Before(j, i)]
  BY <1>1, <1>3, RemoveAtPlaces DEF LoadedOK
<1> DEFINE At(b, f) == {k \in DOMAIN b : b[k].file = f /\ b[k].type # "deleted"}
<1>5. ASSUME NEW f, NEW j \in At(batch', f)
      PROVE  Before(j, i) \in At(batch, f) /\ loaded'[j] = loaded[Before(j, i)]
  BY <1>2, <1>4
<1>6. ASSUME NEW f, NEW k \in At(batch, f), k # i
      PROVE  \E j \in At(batch', f) : loaded'[j] = loaded[k]
  <2>1. PICK j \in DOMAIN batch' : k = Before(j, i)
    BY <1>2, <1>6
  <2> QED  BY <1>2, <1>4, <2>1
<1>7. \A f : Reads(f) = {loaded[k] : k \in At(batch, f)} /\ Reads(f)' = {loaded'[k] : k \in At(batch', f)}
  BY DEF Reads
<1> HIDE DEF At
<1>8. \A f : Reads(f)' \subseteq Reads(f)
  BY <1>5, <1>7
<1>9. \A f : i \notin At(batch, f) => Reads(f) \subseteq Reads(f)'
  BY <1>6, <1>7
<1>10. \A f : Reads(f) \subseteq Reads(f)' \cup {loaded[i]}
  BY <1>6, <1>7
<1>11. \A f : f # batch[i].file \/ batch[i].type = "deleted" => Reads(f)' = Reads(f)
  BY <1>8, <1>9 DEF At
<1>12. \A f : /\ TypesIn(batch', f) \subseteq TypesIn(batch, f)
              /\ TypesIn(batch, f) \subseteq
                   TypesIn(batch', f) \cup (IF batch[i].file = f THEN {batch[i].type} ELSE {})
  BY <1>1, TypesInRemoveAt
<1>13. \A f : f # batch[i].file => TypesIn(batch', f) = TypesIn(batch, f)
  BY <1>12
<1>14. \A f : f = batch[i].file =>
              /\ TypesIn(batch', f) \subseteq TypesIn(batch, f)
              /\ TypesIn(batch, f) \subseteq TypesIn(batch', f) \cup {batch[i].type}
  BY <1>12
<1> QED  BY <1>8, <1>10, <1>11, <1>13, <1>14

\* A deletion that is alone leaves nothing of its file behind.
LEMMA DeletionGone ==
  ASSUME RuntimeBase, NEW i \in DOMAIN batch, batch' = RemoveAt(batch, i),
         batch[i].type = "deleted", DeletedAlone(batch[i].file)
  PROVE  TypesIn(batch', batch[i].file) = {} /\ TypesIn(rejected, batch[i].file) = {}
<1> DEFINE f == batch[i].file
<1>1. TypeOK /\ batch \in Seq(Event)
  BY DEF RuntimeBase, RuntimeTypeOK, TypeOK
<1>2. \A j \in DOMAIN batch' : Before(j, i) \in DOMAIN batch \ {i} /\ batch'[j] = batch[Before(j, i)]
  BY <1>1, RemoveAtPlaces
<1>3. \A j \in DOMAIN batch' : batch'[j].file # f
  BY <1>2 DEF DeletedAlone
<1>4. "deleted" \in TypesIn(batch, f)
  BY <1>1, RunningEvent
<1> QED  BY <1>3, <1>4 DEF TypesIn, DeletedAlone, Taken

LEMMA DeletedAloneStep ==
  ASSUME RuntimeBase, [RuntimeNext]_allVars, NEW f \in Files, f \notin raced', DeletedAlone(f)
  PROVE  DeletedAlone(f)'
<1>0. /\ TypeOK /\ CapacityInv /\ batch \in Seq(Event) /\ rejected \in Seq(Event)
      /\ DOMAIN loaded = DOMAIN batch
  BY DEF RuntimeBase, RuntimeTypeOK, TypeOK
<1>a. UNCHANGED <<batch, rejected>> => DeletedAlone(f)'
  BY DEF DeletedAlone, Taken, TypesIn
<1>b. ASSUME NEW i \in DOMAIN batch, batch' = RemoveAt(batch, i)
      PROVE  /\ \A k, l \in DOMAIN batch' :
                  k # l /\ batch'[k].file = f /\ batch'[l].file = f => batch'[k].type # "deleted"
             /\ TypesIn(batch', f) \subseteq TypesIn(batch, f)
             /\ TypesIn(batch', f) # {} /\ batch[i].file = f =>
                  batch[i].type # "deleted" /\ "deleted" \notin TypesIn(batch', f)
  <2>1. /\ \A j \in DOMAIN batch' :
             Before(j, i) \in DOMAIN batch \ {i} /\ batch'[j] = batch[Before(j, i)]
        /\ \A j, k \in DOMAIN batch' : Before(j, i) = Before(k, i) => j = k
    BY <1>0, <1>b, RemoveAtPlaces
  <2>2. TypesIn(batch', f) \subseteq TypesIn(batch, f)
    BY <1>0, <1>b, TypesInRemoveAt
  <2>3. ASSUME batch[i].file = f, NEW j \in DOMAIN batch', batch'[j].file = f
        PROVE  batch[i].type # "deleted" /\ batch'[j].type # "deleted"
    BY <2>1, <2>3 DEF DeletedAlone
  <2>4. TypesIn(batch', f) # {} /\ batch[i].file = f =>
          batch[i].type # "deleted" /\ "deleted" \notin TypesIn(batch', f)
    BY <2>3 DEF TypesIn
  <2>5. \A k, l \in DOMAIN batch' :
          k # l /\ batch'[k].file = f /\ batch'[l].file = f => batch'[k].type # "deleted"
    BY <2>1 DEF DeletedAlone
  <2> QED  BY <2>2, <2>4, <2>5
<1>1. CASE Drain
  <2>1. rejected' = <<>>
    BY <1>0, <1>1, DrainEffects DEF Drain
  <2>2. f \notin DeletedAmongOthers(batch')
    BY <1>1 DEF Drain
  <2>3. \A i, j \in DOMAIN batch' :
          i # j /\ batch'[i].file = f /\ batch'[j].file = f => batch'[i].type # "deleted"
    BY <2>2 DEF DeletedAmongOthers
  <2>4. TypesIn(rejected', f) = {}
    BY <2>1, TypesInEmpty
  <2> QED  BY <2>3, <2>4 DEF DeletedAlone, Taken, TypesIn
<1>2. ASSUME NEW i \in 1 .. Concurrency, HandlerFindsNothing(i) \/ HandlerWrites(i)
      PROVE  DeletedAlone(f)'
  <2>1. i \in DOMAIN batch /\ batch' = RemoveAt(batch, i) /\ UNCHANGED rejected
    BY <1>2 DEF HandlerFindsNothing, HandlerWrites, SettleHandled, Running
  <2> QED  BY <1>b, <2>1 DEF DeletedAlone, Taken, TypesIn
<1>3. ASSUME NEW i \in 1 .. Concurrency, HandlerFails(i) PROVE DeletedAlone(f)'
  <2>1. i \in DOMAIN batch /\ batch' = RemoveAt(batch, i) /\ rejected' = Append(rejected, batch[i])
    BY <1>3 DEF HandlerFails, SettleRejected, Running
  <2>2. /\ \A k, l \in DOMAIN batch' :
             k # l /\ batch'[k].file = f /\ batch'[l].file = f => batch'[k].type # "deleted"
        /\ TypesIn(batch', f) \subseteq TypesIn(batch, f)
    BY <1>b, <2>1
  <2>3. batch[i] \in Event
    BY <1>0, <2>1, RunningEvent
  <2>4. TypesIn(rejected', f) = TypesIn(rejected, f)
                                  \cup (IF batch[i].file = f THEN {batch[i].type} ELSE {})
    BY <1>0, <2>1, <2>3, TypesInAppend
  <2>6. batch[i].file = f => TypesIn(batch, f) # {}
    BY <1>0, <2>1, RunningEvent
  <2>7. TypesIn(batch', f) # {} /\ batch[i].file = f =>
          batch[i].type # "deleted" /\ "deleted" \notin TypesIn(batch', f)
    BY <1>b, <2>1
  <2>5. TypesIn(batch', f) # {} /\ TypesIn(rejected', f) # {} =>
          "deleted" \notin TypesIn(batch', f) \cup TypesIn(rejected', f)
    <3>1. CASE batch[i].file # f
      BY <2>2, <2>4, <3>1 DEF DeletedAlone, Taken
    <3>2. CASE batch[i].file = f
      BY <2>2, <2>4, <2>6, <2>7, <3>2 DEF DeletedAlone, Taken
    <3> QED  BY <3>1, <3>2
  <2> QED  BY <2>2, <2>5 DEF DeletedAlone, Taken, TypesIn
<1>4. CASE FinishDrain
  <2>1. batch' = <<>> /\ rejected' = <<>>
    BY <1>0, <1>4, FinishEffects DEF FinishDrain
  <2> QED  BY <2>1, TypesInEmpty DEF DeletedAlone, Taken, TypesIn
<1>5. CASE \/ FileChanges
           \/ Flush
           \/ Initialize
           \/ RecoveryScans
           \/ RecoverySkipped
           \/ UserReindexes
           \/ ScanSteps
           \/ StartupDrains
           \/ \E i \in 1 .. Concurrency : HandlerReads(i)
           \/ UNCHANGED allVars
  <2>1. UNCHANGED <<batch, rejected>>
    <3>1. CASE FileChanges
      BY <3>1 DEF FileChanges, Change, BufferPostScan, Debounce, DropPostScan, DropOverflowing,
         DropAtCapacity, drainVars, handlers
    <3>2. CASE Flush \/ Initialize \/ StartupDrains
      BY <3>2 DEF Flush, TimerFires, FlushDebounced, Initialize, EnterPostScanMode, StartupDrains,
         DrainPostScanQueue, vars, drainVars, handlers, runtimeVars
    <3>3. CASE \/ RecoveryScans
               \/ RecoverySkipped
               \/ UserReindexes
               \/ \E i \in 1 .. Concurrency : HandlerReads(i)
      BY <3>3 DEF RecoveryScans, RecoverySkipped, UserReindexes, ManualReindex, HandlerReads, vars,
         drainVars, handlers
    <3>4. CASE ScanSteps
      BY <3>4 DEF ScanSteps, ScanLists, ScanReads, ScanWrites, ScanCompletes, ScanFails, Release,
         MarkFullScanComplete, vars, drainVars, handlers
    <3>5. CASE UNCHANGED allVars
      BY <3>5 DEF allVars, runtimeVars, vars, drainVars, handlers
    <3> QED  BY <1>5, <3>1, <3>2, <3>3, <3>4, <3>5
  <2> QED  BY <1>a, <2>1
<1> QED  BY <1>1, <1>2, <1>3, <1>4, <1>5 DEF RuntimeNext, HandlerSteps, HandlersFail

-----------------------------------------------------------------------------
(***************************************************************************)
(* Why the index of a file will be right: what is held of it, in terms of  *)
(* what is on disk.  The exception are the files that were lost or raced.  *)
(***************************************************************************)

\* An event will take the file out of the index.
Deleting(f) == "deleted" \in Waiting(f) \cup Taken(f)

\* An event that no drain has taken will have the file read.
Updating(f) == Waiting(f) \ {"deleted"} # {}

\* A handler will write what is on disk now, or has still to read it.
Fresh(f) ==
  \/ Updating(f)
  \/ TypesIn(rejected, f) \ {"deleted"} # {}
  \/ Reads(f) \cap {NotRead, <<disk[f]>>} # {}

\* The startup reindex will come to the file.
ToCome(f) ==
  \/ startup = "new" /\ ~StartsIndexed
  \/ scan.by = "startup" /\ (scan.step = "list" \/ f \in scan.todo)

\* A file that is gone: whatever is held of it includes its deletion, and without
\* one the index does not hold it and no scan will put it there.
AbsentOK(f) ==
  /\ Waiting(f) # {} => "deleted" \in Waiting(f)
  /\ Taken(f) # {} => Deleting(f)
  /\ ~Deleting(f) => index[f] = Absent /\ scan.content[f] = Absent

\* Behind what is debounced, every deletion that was owed is still on its way.
Behind(f) ==
  /\ TypesIn(watcherQueue, f) # {} => "deleted" \in TypesIn(watcherQueue, f)
  /\ Taken(f) # {} => "deleted" \in TypesIn(watcherQueue, f) \cup Taken(f)

\* A file that is there: a deletion is followed by an event that reads the file;
\* the index is right or a fresh read will come; what handlers and scans have
\* read is right or a fresh read comes after it; and an "added" that a deletion
\* may still cancel hides nothing.
PresentOK(f) ==
  /\ Deleting(f) => Updating(f)
  /\ Fresh(f) \/ index[f] = disk[f] \/ ToCome(f)
  /\ Reads(f) \subseteq {NotRead, <<disk[f]>>} \/ Updating(f)
  /\ scan.content[f] \in {Absent, disk[f]} \/ Fresh(f)
  /\ "added" \in TypesIn(debounced, f) =>
       Behind(f) \/ (index[f] # Absent /\ ~Deleting(f))

FileOK(f) == IF disk[f] = Absent THEN AbsentOK(f) ELSE PresentOK(f)

LEMMA NoTypes ==
  ASSUME NEW s, NEW f
  PROVE  TypesIn(s, f) = {} <=> f \notin FilesIn(s)
BY DEF TypesIn, FilesIn

\* While the post-scan buffer is in use nothing else is held, and conversely.
LEMMA BufferAlone ==
  ASSUME RuntimeBase
  PROVE  /\ postScanActive =>
              watcherQueue = <<>> /\ debounced = <<>> /\ batch = <<>> /\ rejected = <<>>
         /\ ~postScanActive => postScanQueue = <<>>
<1>1. /\ TypeOK /\ PostScanIsQuiet /\ BatchOnlyWhileDraining
      /\ debounced \in Seq(Event) /\ watcherQueue \in Seq(Event)
  BY DEF RuntimeBase, CapacityInv, TypeOK
<1>2. ASSUME postScanActive PROVE Len(watcherQueue) = 0 /\ Len(debounced) = 0
  BY <1>1, <1>2, SizeType DEF PostScanIsQuiet, Size, TypeOK
<1>3. postScanActive => watcherQueue = <<>> /\ debounced = <<>>
  BY <1>1, <1>2, EmptySeq
<1> QED  BY <1>1, <1>3 DEF PostScanIsQuiet, BatchOnlyWhileDraining

\* Steps that change nothing of a file but whether the startup reindex will come
\* to it.
LEMMA FileKept ==
  ASSUME NEW f \in Files, FileOK(f),
         TypesIn(debounced', f) = TypesIn(debounced, f),
         TypesIn(watcherQueue', f) = TypesIn(watcherQueue, f),
         TypesIn(postScanQueue', f) = TypesIn(postScanQueue, f),
         TypesIn(batch', f) = TypesIn(batch, f),
         TypesIn(rejected', f) = TypesIn(rejected, f),
         Reads(f)' = Reads(f),
         disk'[f] = disk[f], index'[f] = index[f],
         scan'.content[f] \in {scan.content[f], Absent},
         disk[f] # Absent /\ ToCome(f) => ToCome(f)'
  PROVE  FileOK(f)'
<1>1. Waiting(f)' = Waiting(f) /\ Taken(f)' = Taken(f)
  BY DEF Waiting, Taken
<1>2. Deleting(f)' = Deleting(f) /\ Updating(f)' = Updating(f)
  BY <1>1 DEF Deleting, Updating
<1>3. Fresh(f)' = Fresh(f) /\ Behind(f)' = Behind(f)
  BY <1>1, <1>2 DEF Fresh, Behind
<1>4. CASE disk[f] = Absent
  BY <1>1, <1>2, <1>4 DEF FileOK, AbsentOK
<1>5. CASE disk[f] # Absent
  BY <1>1, <1>2, <1>3, <1>5 DEF FileOK, PresentOK
<1> QED  BY <1>4, <1>5

LEMMA QueuesKept ==
  ASSUME NEW f,
         UNCHANGED <<debounced, watcherQueue, postScanQueue, batch, rejected>>
  PROVE  /\ TypesIn(debounced', f) = TypesIn(debounced, f)
         /\ TypesIn(watcherQueue', f) = TypesIn(watcherQueue, f)
         /\ TypesIn(postScanQueue', f) = TypesIn(postScanQueue, f)
         /\ TypesIn(batch', f) = TypesIn(batch, f)
         /\ TypesIn(rejected', f) = TypesIn(rejected, f)
         /\ loaded' = loaded => Reads(f)' = Reads(f)
BY DEF Reads

-----------------------------------------------------------------------------
(* The changes. *)

\* A change of another file.
LEMMA OtherChanges ==
  ASSUME RuntimeBase, NEW f \in Files, FileOK(f),
         NEW g \in Files \ {f}, NEW type \in ReportedTypes, Change(g, type)
  PROVE  FileOK(f)'
<1> DEFINE e == [file |-> g, type |-> type]
<1>0. TypeOK /\ DebouncedOnce /\ e \in [file : Files, type : ReportedTypes] /\ e \in Event /\ e.file # f
  BY DEF RuntimeBase, RuntimeTypeOK, Event, EventTypes
<1>1. disk'[f] = disk[f] /\ UNCHANGED <<index, loaded, startup, scan>>
  BY DEF Change, RuntimeBase, RuntimeTypeOK
<1>2. \/ BufferPostScan(e)
      \/ Debounce(e)
      \/ DropPostScan(e) \/ DropOverflowing(e) \/ DropAtCapacity(e)
  BY DEF Change
<1>3. UNCHANGED <<watcherQueue, batch, rejected>>
  BY <1>2 DEF BufferPostScan, Debounce, DropPostScan, DropOverflowing, DropAtCapacity, queues,
     drainVars, handlers
<1>4. TypesIn(debounced', f) = TypesIn(debounced, f)
  <2>1. TypesIn(Merged(e), f) = TypesIn(debounced, f)
    BY <1>0, MergedTypes
  <2>2. debounced' = debounced \/ debounced' = Merged(e)
    BY <1>2 DEF BufferPostScan, Debounce, DropPostScan, DropOverflowing, DropAtCapacity, queues
  <2> QED  BY <2>1, <2>2
<1>5. TypesIn(postScanQueue', f) = TypesIn(postScanQueue, f)
  <2>1. TypesIn(Append(postScanQueue, e), f) = TypesIn(postScanQueue, f)
    <3>1. TypesIn(Append(postScanQueue, e), f) = TypesIn(postScanQueue, f) \cup {}
      BY <1>0, TypesInAppend DEF TypeOK
    <3> QED  BY <3>1
  <2>2. postScanQueue' = postScanQueue \/ postScanQueue' = Append(postScanQueue, e)
    BY <1>2 DEF BufferPostScan, Debounce, DropPostScan, DropOverflowing, DropAtCapacity, postScan
  <2> QED  BY <2>1, <2>2
<1>6. Reads(f)' = Reads(f) /\ (ToCome(f) => ToCome(f)')
  BY <1>1, <1>3 DEF Reads, ToCome
<1> QED  BY <1>1, <1>3, <1>4, <1>5, <1>6, FileKept

\* The report of a change is held with what is held already, or it cancels an
\* "added" that no drain has taken.
LEMMA ReportEffects ==
  ASSUME RuntimeBase, NEW f \in Files, NEW type \in ReportedTypes, Change(f, type),
         f \notin lost'
  PROVE  /\ UNCHANGED <<index, scan, startup, watcherQueue, batch, rejected, loaded>>
         /\ disk[f] = Absent <=> type = "added"
         /\ disk'[f] = Absent <=> type = "deleted"
         /\ \/ /\ TypesIn(postScanQueue', f) = TypesIn(postScanQueue, f) \cup {type}
               /\ debounced' = debounced
               /\ TypesIn(debounced, f) = {}
            \/ /\ TypesIn(postScanQueue, f) = {} /\ TypesIn(postScanQueue', f) = {}
               /\ \/ /\ TypesIn(debounced, f) = {}
                     /\ TypesIn(debounced', f) = {type}
                  \/ \E t \in EventTypes :
                       /\ TypesIn(debounced, f) = {t}
                       /\ TypesIn(debounced', f) =
                            IF MergedType(t, type) = "cancelled" THEN {} ELSE {MergedType(t, type)}
<1> DEFINE e == [file |-> f, type |-> type]
<1>0. /\ TypeOK /\ DebouncedOnce /\ e \in [file : Files, type : ReportedTypes] /\ e \in Event
      /\ e.file = f /\ e.type = type
  BY DEF RuntimeBase, RuntimeTypeOK, Event, EventTypes
<1>1. BufferPostScan(e) \/ Debounce(e)
  <2>1. f \in Files /\ lost \subseteq Files
    BY DEF RuntimeBase, RuntimeTypeOK
  <2> QED  BY <2>1 DEF Change
<1>2. disk'[f] = Absent <=> type = "deleted"
  <2>1. disk'[f] = NewContent(f, type) /\ changes + 1 # Absent
    BY DEF Change, RuntimeBase, RuntimeTypeOK, Contents, Absent
  <2> QED  BY <2>1 DEF NewContent
<1>3. /\ UNCHANGED <<index, scan, startup, loaded>>
      /\ disk[f] = Absent <=> type = "added"
  BY DEF Change
<1>4. UNCHANGED <<watcherQueue, batch, rejected>>
  BY <1>1 DEF BufferPostScan, Debounce, queues, drainVars, handlers
<1>5. CASE BufferPostScan(e)
  <2>1. TypesIn(postScanQueue', f) = TypesIn(postScanQueue, f) \cup {type}
    BY <1>0, <1>5, TypesInAppend DEF BufferPostScan, TypeOK
  <2>2. TypesIn(debounced, f) = {} /\ debounced' = debounced
    BY <1>5, BufferAlone, TypesInEmpty DEF BufferPostScan, queues
  <2> QED  BY <1>2, <1>3, <1>4, <2>1, <2>2
<1>6. CASE Debounce(e)
  <2>1. postScanQueue = <<>> /\ postScanQueue' = <<>> /\ debounced' = Merged(e)
    BY <1>6, BufferAlone DEF Debounce, postScan
  <2>2. TypesIn(postScanQueue, f) = {} /\ TypesIn(postScanQueue', f) = {}
    BY <2>1, TypesInEmpty
  <2> HIDE DEF e
  <2>3. \/ /\ TypesIn(debounced, f) = {}
           /\ TypesIn(Merged(e), f) = {type}
        \/ \E t \in EventTypes :
             /\ TypesIn(debounced, f) = {t}
             /\ TypesIn(Merged(e), f) =
                  IF MergedType(t, type) = "cancelled" THEN {} ELSE {MergedType(t, type)}
    BY <1>0, MergedTypes
  <2> QED  BY <1>2, <1>3, <1>4, <2>1, <2>2, <2>3
<1> QED  BY <1>1, <1>5, <1>6

LEMMA OwnChange ==
  ASSUME RuntimeBase, NEW f \in Files, FileOK(f), NEW type \in ReportedTypes, Change(f, type),
         f \notin lost', f \notin raced'
  PROVE  FileOK(f)'
<1> DEFINE D == TypesIn(debounced, f)
           W == TypesIn(watcherQueue, f)
           P == TypesIn(postScanQueue, f)
<1>1. /\ UNCHANGED <<index, scan, startup, watcherQueue, batch, rejected, loaded>>
      /\ disk[f] = Absent <=> type = "added"
      /\ disk'[f] = Absent <=> type = "deleted"
      /\ \/ P' = P \cup {type} /\ debounced' = debounced /\ D = {}
         \/ /\ P = {} /\ P' = {}
            /\ \/ D = {} /\ D' = {type}
               \/ \E t \in EventTypes :
                    /\ D = {t}
                    /\ D' = IF MergedType(t, type) = "cancelled" THEN {}
                            ELSE {MergedType(t, type)}
  BY ReportEffects
<1>2. type \in EventTypes
  OBVIOUS
<1>3. Taken(f)' = Taken(f) /\ W' = W
  BY <1>1 DEF Taken
<1>4. Waiting(f) = D \cup W \cup P /\ Waiting(f)' = D' \cup W' \cup P'
  BY DEF Waiting
<1>5. type = "deleted" => AbsentOK(f)'
  <2> SUFFICES ASSUME type = "deleted" PROVE AbsentOK(f)'
    OBVIOUS
  <2>1. CASE "deleted" \in D' \cup P'
    BY <1>4, <2>1 DEF AbsentOK, Deleting
  <2>2. CASE "deleted" \notin D' \cup P'
    <3>1. D = {"added"} /\ D' = {} /\ P = {} /\ P' = {}
      BY <1>1, <1>2, <2>2 DEF MergedType, EventTypes
    <3>2. f \in FilesIn(debounced) \ FilesIn(debounced')
      BY <3>1, NoTypes
    <3>3. index[f] = Absent /\ scan.content[f] = Absent
      BY <3>2 DEF Change, MeetsCancel
    <3>4. PresentOK(f)
      BY <1>1 DEF FileOK
    <3>5. Behind(f)
      BY <3>1, <3>3, <3>4 DEF PresentOK
    <3>6. Waiting(f)' = W
      BY <1>3, <1>4, <3>1
    <3>7. Deleting(f)' <=> "deleted" \in W \cup Taken(f)
      BY <1>3, <3>6 DEF Deleting
    <3> QED  BY <1>1, <1>3, <3>3, <3>5, <3>6, <3>7 DEF AbsentOK, Behind
  <2> QED  BY <2>1, <2>2
<1>6. type # "deleted" => PresentOK(f)'
  <2> SUFFICES ASSUME type # "deleted" PROVE PresentOK(f)'
    OBVIOUS
  <2>1. (D' \cup P') \ {"deleted"} # {}
    BY <1>1, <1>2 DEF MergedType, EventTypes
  <2>2. Updating(f)'
    BY <1>4, <2>1 DEF Updating
  <2>3. Fresh(f)'
    BY <2>2 DEF Fresh
  <2>4. "added" \in D' => Behind(f)' \/ (index'[f] # Absent /\ ~Deleting(f)')
    <3> SUFFICES ASSUME "added" \in D' PROVE Behind(f)' \/ (index'[f] # Absent /\ ~Deleting(f)')
      OBVIOUS
    <3>1. P = {} /\ P' = {} /\ "deleted" \notin D' /\ "deleted" \notin D
      BY <1>1, <1>2 DEF MergedType, EventTypes
    <3>2. Behind(f)' = Behind(f)
      BY <1>3 DEF Behind
    <3>3. Deleting(f)' <=> Deleting(f)
      BY <1>3, <1>4, <3>1 DEF Deleting
    <3>4. CASE type = "added"
      <4>1. AbsentOK(f)
        BY <1>1, <3>4 DEF FileOK
      <4>2. Behind(f)
        BY <1>4, <3>1, <4>1 DEF AbsentOK, Behind, Deleting
      <4> QED  BY <3>2, <4>2
    <3>5. CASE type # "added"
      <4>1. "added" \in D
        BY <1>1, <1>2, <3>1, <3>5 DEF MergedType, EventTypes
      <4>2. PresentOK(f)
        BY <1>1, <3>5 DEF FileOK
      <4> QED  BY <1>1, <3>2, <3>3, <4>1, <4>2 DEF PresentOK
    <3> QED  BY <3>4, <3>5
  <2> QED  BY <2>2, <2>3, <2>4 DEF PresentOK
<1> QED  BY <1>1, <1>5, <1>6 DEF FileOK

-----------------------------------------------------------------------------
(* The queue. *)

\* A timer moves a debounced event on.
LEMMA FlushFile ==
  ASSUME RuntimeBase, NEW f \in Files, FileOK(f), Flush
  PROVE  FileOK(f)'
<1>0. TypeOK /\ DebouncedOnce /\ SizeBounded /\ debounced \in Seq(Event) /\ watcherQueue \in Seq(Event)
  BY DEF RuntimeBase, RuntimeTypeOK, CapacityInv, TypeOK
<1>1. PICK g \in Files : FlushDebounced(g)
  BY DEF Flush, TimerFires
<1> DEFINE i == IndexOf(g)
<1>2. i \in DOMAIN debounced /\ debounced[i].file = g
  BY <1>1, IndexOfType DEF FlushDebounced
<1>3. debounced[i] \in Event
  BY <1>0, <1>2, LenProperties, ElementOfSeq
<1>4. watcherQueue' = Append(watcherQueue, debounced[i]) /\ debounced' = RemoveAt(debounced, i)
  <2>1. Size \in Nat /\ Len(postScanQueue) \in Nat /\ Size + Len(postScanQueue) <= MaxQueueSize
    BY <1>0, SizeType DEF SizeBounded
  <2>2. Size - 1 < MaxQueueSize
    BY <2>1
  <2> QED  BY <1>1, <2>2 DEF FlushDebounced
<1>5. /\ UNCHANGED <<postScanQueue, batch, rejected, disk, index, loaded, startup, scan>>
  BY <1>1 DEF Flush, FlushDebounced, postScan, drainVars, handlers, runtimeVars
<1>6. Reads(f)' = Reads(f) /\ ToCome(f)' = ToCome(f) /\ Taken(f)' = Taken(f)
  BY <1>5 DEF Reads, ToCome, Taken
<1>7. CASE f # g
  <2>1. TypesIn(debounced', f) = TypesIn(debounced, f)
    BY <1>0, <1>2, <1>4, <1>7, TakenOut
  <2>2. TypesIn(watcherQueue', f) = TypesIn(watcherQueue, f)
    <3>1. TypesIn(watcherQueue', f) = TypesIn(watcherQueue, f) \cup {}
      BY <1>0, <1>2, <1>3, <1>4, <1>7, TypesInAppend
    <3> QED  BY <3>1
  <2> QED  BY <1>5, <1>6, <2>1, <2>2, FileKept
<1>8. CASE f = g
  <2>1. TypesIn(debounced', f) = {} /\ TypesIn(debounced, f) = {debounced[i].type}
    BY <1>0, <1>2, <1>4, <1>8, TakenOut, OneDebounced
  <2>2. TypesIn(watcherQueue', f) = TypesIn(watcherQueue, f) \cup {debounced[i].type}
    BY <1>0, <1>2, <1>3, <1>4, <1>8, TypesInAppend
  <2>3. Waiting(f)' = Waiting(f)
    BY <1>5, <2>1, <2>2 DEF Waiting
  <2>4. Deleting(f)' = Deleting(f) /\ Updating(f)' = Updating(f)
    BY <1>6, <2>3 DEF Deleting, Updating
  <2>5. Fresh(f)' = Fresh(f)
    BY <1>5, <1>6, <2>4 DEF Fresh
  <2>6. AbsentOK(f) => AbsentOK(f)'
    BY <1>5, <1>6, <2>3, <2>4 DEF AbsentOK
  <2>7. PresentOK(f) => PresentOK(f)'
    BY <1>5, <1>6, <2>1, <2>4, <2>5 DEF PresentOK
  <2> QED  BY <1>5, <2>6, <2>7 DEF FileOK
<1> QED  BY <1>7, <1>8

\* A drain takes what waits; a deletion among other events of its file races.
LEMMA DrainFile ==
  ASSUME RuntimeBase, NEW f \in Files, FileOK(f), Drain, f \notin raced'
  PROVE  FileOK(f)'
<1> DEFINE D == TypesIn(debounced, f)
           W == TypesIn(watcherQueue, f)
           P == TypesIn(postScanQueue, f)
<1>0. CapacityInv /\ watcherQueue \in Seq(Event) /\ debounced \in Seq(Event)
  BY DEF RuntimeBase, RuntimeTypeOK, TypeOK
<1>1. /\ batch = <<>> /\ rejected = <<>> /\ rejected' = <<>>
      /\ watcherQueue' = <<>> /\ debounced' = <<>> /\ batch' = watcherQueue \o debounced
      /\ UNCHANGED postScanQueue
  BY <1>0, DrainEffects DEF Drain, postScan
<1>2. /\ UNCHANGED <<disk, index, startup, scan>>
      /\ loaded' = [i \in DOMAIN batch' |-> NotRead] /\ f \notin DeletedAmongOthers(batch')
  BY DEF Drain, content
<1>3. TypesIn(batch', f) = W \cup D /\ W' = {} /\ D' = {} /\ P' = P
  BY <1>0, <1>1, TypesInConcat, TypesInEmpty
<1>4. TypesIn(batch, f) = {} /\ TypesIn(rejected, f) = {} /\ TypesIn(rejected', f) = {}
  BY <1>1, TypesInEmpty
<1>5. Reads(f) = {}
  BY <1>1 DEF Reads
<1>6. Reads(f)' \subseteq {NotRead} /\ ((W \cup D) \ {"deleted"} # {} => NotRead \in Reads(f)')
  <2>1. Reads(f)' \subseteq {NotRead}
    BY <1>2 DEF Reads
  <2>2. ASSUME NEW t \in W \cup D, t # "deleted" PROVE NotRead \in Reads(f)'
    <3>1. PICK k \in DOMAIN batch' : batch'[k].file = f /\ batch'[k].type = t
      BY <1>3 DEF TypesIn
    <3>2. loaded'[k] = NotRead
      BY <1>2
    <3> QED  BY <2>2, <3>1, <3>2 DEF Reads
  <2> QED  BY <2>1, <2>2
<1>7. "deleted" \in W \cup D => (W \cup D) = {"deleted"}
  <2> SUFFICES ASSUME "deleted" \in W \cup D, NEW t \in W \cup D, t # "deleted" PROVE FALSE
    OBVIOUS
  <2>1. PICK i \in DOMAIN batch' : batch'[i].file = f /\ batch'[i].type = "deleted"
    BY <1>3 DEF TypesIn
  <2>2. PICK j \in DOMAIN batch' : batch'[j].file = f /\ batch'[j].type = t
    BY <1>3 DEF TypesIn
  <2>3. f \in DeletedAmongOthers(batch')
    BY <2>1, <2>2 DEF DeletedAmongOthers
  <2> QED  BY <1>2, <2>3
<1>8. P = {} \/ (W = {} /\ D = {})
  BY BufferAlone, TypesInEmpty
<1>9. /\ Waiting(f) = D \cup W \cup P /\ Waiting(f)' = P
      /\ Taken(f) = {} /\ Taken(f)' = W \cup D
  BY <1>3, <1>4 DEF Waiting, Taken
<1> HIDE DEF D, W, P
<1>10. Deleting(f)' <=> Deleting(f)
  BY <1>9 DEF Deleting
<1>11. AbsentOK(f) => AbsentOK(f)'
  <2> SUFFICES ASSUME AbsentOK(f) PROVE AbsentOK(f)'
    OBVIOUS
  <2>1. Waiting(f)' # {} => "deleted" \in Waiting(f)'
    BY <1>8, <1>9 DEF AbsentOK
  <2>2. Taken(f)' # {} => Deleting(f)'
    BY <1>8, <1>9 DEF AbsentOK, Deleting
  <2> QED  BY <1>2, <1>10, <2>1, <2>2 DEF AbsentOK
<1>12. PresentOK(f) => PresentOK(f)'
  <2> SUFFICES ASSUME PresentOK(f) PROVE PresentOK(f)'
    OBVIOUS
  <2>1. Deleting(f)' => Updating(f)'
    <3> SUFFICES ASSUME Deleting(f) PROVE Updating(f)'
      BY <1>10
    <3>1. (D \cup W \cup P) \ {"deleted"} # {}
      BY <1>9 DEF PresentOK, Updating
    <3>2. P \ {"deleted"} # {}
      BY <1>7, <1>8, <1>9, <3>1 DEF Deleting
    <3> QED  BY <1>9, <3>2 DEF Updating
  <2>2. Fresh(f) => Fresh(f)'
    <3> SUFFICES ASSUME Fresh(f) PROVE Fresh(f)'
      OBVIOUS
    <3>1. (D \cup W \cup P) \ {"deleted"} # {}
      BY <1>4, <1>5, <1>9 DEF Fresh, Updating
    <3>2. CASE P \ {"deleted"} # {}
      BY <1>9, <3>2 DEF Fresh, Updating
    <3>3. CASE (W \cup D) \ {"deleted"} # {}
      BY <1>6, <3>3 DEF Fresh
    <3> QED  BY <3>1, <3>2, <3>3
  <2>3. ToCome(f)' = ToCome(f)
    BY <1>2 DEF ToCome
  <2>4. "added" \notin TypesIn(debounced', f)
    BY <1>3 DEF D
  <2> QED  BY <1>2, <1>6, <2>1, <2>2, <2>3, <2>4 DEF PresentOK
<1> QED  BY <1>2, <1>11, <1>12 DEF FileOK

\* What was rejected waits again, or it found no room and the file is lost.
LEMMA FinishFile ==
  ASSUME RuntimeBase, NEW f \in Files, FileOK(f), FinishDrain, f \notin lost'
  PROVE  FileOK(f)'
<1> DEFINE R == TypesIn(rejected, f)
           W == TypesIn(watcherQueue, f)
<1>0. CapacityInv /\ watcherQueue \in Seq(Event) /\ debounced \in Seq(Event)
  BY DEF RuntimeBase, RuntimeTypeOK, TypeOK
<1>1. /\ batch = <<>> /\ batch' = <<>> /\ rejected' = <<>>
      /\ ~postScanActive /\ UNCHANGED postScanQueue
  BY <1>0, FinishEffects DEF FinishDrain, postScan
<1>2. PICK kept, gone \in Seq(Event) :
        /\ rejected = kept \o gone
        /\ gone = SubSeq(rejected, Requeued(Len(rejected)) + 1, Len(rejected))
        /\ watcherQueue' = watcherQueue \o kept
        /\ \/ /\ state' = "full_scan" /\ state # "full_scan"
              /\ watcherQueue' = <<>> /\ debounced' = <<>>
           \/ /\ state' = "full_scan" <=> state = "full_scan"
              /\ debounced' = debounced
  BY <1>0, FinishEffects DEF FinishDrain
<1>3. UNCHANGED <<disk, index, startup, scan>> /\ AfterDrain(FilesIn(gone))
  BY <1>2 DEF FinishDrain, content
<1>4. /\ f \notin FilesIn(gone)
      /\ state' = "full_scan" /\ state # "full_scan" => f \notin FilesIn(debounced)
  BY <1>3 DEF AfterDrain
<1>5. TypesIn(gone, f) = {}
  BY <1>4, NoTypes
<1>6. R = TypesIn(kept, f)
  <2>1. TypesIn(kept \o gone, f) = TypesIn(kept, f) \cup TypesIn(gone, f)
    BY TypesInConcat
  <2>2. rejected = kept \o gone
    BY <1>2
  <2> QED  BY <1>5, <2>1, <2>2
<1>7. TypesIn(watcherQueue', f) = W \cup R
  BY <1>0, <1>2, <1>6, TypesInConcat
<1>8. TypesIn(debounced', f) = TypesIn(debounced, f)
  BY <1>2, <1>4, NoTypes, TypesInEmpty
<1>9. TypesIn(batch, f) = {} /\ TypesIn(batch', f) = {} /\ TypesIn(rejected', f) = {}
  BY <1>1, TypesInEmpty
<1>10. Reads(f) = {} /\ Reads(f)' = {}
  BY <1>1 DEF Reads
<1>11. ToCome(f)' = ToCome(f)
  BY <1>3 DEF ToCome
<1>12. /\ Waiting(f)' = Waiting(f) \cup R /\ Taken(f)' = {} /\ Taken(f) = R
  BY <1>1, <1>7, <1>8, <1>9 DEF Waiting, Taken
<1> HIDE DEF R, W
<1>13. Deleting(f)' <=> Deleting(f)
  BY <1>12 DEF Deleting
<1>14. AbsentOK(f) => AbsentOK(f)'
  BY <1>3, <1>12, <1>13 DEF AbsentOK, Deleting
<1>15. Updating(f) \/ R \ {"deleted"} # {} => Updating(f)'
  BY <1>12 DEF Updating
<1>16. Fresh(f) => Fresh(f)'
  BY <1>10, <1>15 DEF Fresh, R
<1>17. Behind(f) => Behind(f)'
  BY <1>7, <1>12 DEF Behind, W
<1>18. PresentOK(f) => PresentOK(f)'
  BY <1>3, <1>8, <1>10, <1>11, <1>13, <1>15, <1>16, <1>17 DEF PresentOK
<1> QED  BY <1>3, <1>14, <1>18 DEF FileOK

\* The buffer is forwarded as it is.
LEMMA ForwardFile ==
  ASSUME RuntimeBase, NEW f \in Files, FileOK(f), StartupDrains
  PROVE  FileOK(f)'
<1>1. /\ watcherQueue = <<>> /\ debounced = <<>> /\ batch = <<>> /\ rejected = <<>>
      /\ UNCHANGED <<debounced, batch, rejected, loaded, disk, index, scan>>
      /\ watcherQueue' = watcherQueue \o postScanQueue /\ postScanQueue' = <<>>
      /\ startup = "scanned"
  BY BufferAlone DEF StartupDrains, DrainPostScanQueue, drainVars, handlers, content
<1>2. /\ TypesIn(watcherQueue', f) = TypesIn(watcherQueue, f) \cup TypesIn(postScanQueue, f)
      /\ TypesIn(postScanQueue', f) = {} /\ TypesIn(debounced, f) = {}
      /\ TypesIn(batch, f) = {} /\ TypesIn(rejected, f) = {}
  <2>1. watcherQueue \in Seq(Event) /\ postScanQueue \in Seq(Event)
    BY DEF RuntimeBase, RuntimeTypeOK, TypeOK
  <2> QED  BY <1>1, <2>1, TypesInConcat, TypesInEmpty
<1>3. Waiting(f)' = Waiting(f) /\ Taken(f)' = Taken(f)
  BY <1>1, <1>2 DEF Waiting, Taken
<1>4. Deleting(f)' = Deleting(f) /\ Updating(f)' = Updating(f)
  BY <1>3 DEF Deleting, Updating
<1>5. Reads(f)' = Reads(f) /\ (ToCome(f) => ToCome(f)')
  BY <1>1 DEF Reads, ToCome
<1>6. Fresh(f)' = Fresh(f)
  BY <1>1, <1>4, <1>5 DEF Fresh
<1>7. AbsentOK(f) => AbsentOK(f)'
  BY <1>1, <1>3, <1>4 DEF AbsentOK
<1>8. PresentOK(f) => PresentOK(f)'
  BY <1>1, <1>2, <1>4, <1>5, <1>6 DEF PresentOK
<1> QED  BY <1>1, <1>7, <1>8 DEF FileOK

-----------------------------------------------------------------------------
(* The handlers. *)

LEMMA ReadFile ==
  ASSUME RuntimeBase, NEW f \in Files, FileOK(f), NEW i \in 1 .. Concurrency, HandlerReads(i)
  PROVE  FileOK(f)'
<1>1. /\ UNCHANGED <<debounced, watcherQueue, postScanQueue, batch, rejected>>
      /\ UNCHANGED <<disk, index, startup, scan>>
  BY DEF HandlerReads, vars, queues, postScan, drainVars, handlers, content
<1>2. /\ i \in DOMAIN batch /\ i \in DOMAIN loaded /\ batch[i].type # "deleted"
      /\ disk[batch[i].file] # Absent
      /\ loaded' = [loaded EXCEPT ![i] = <<disk[batch[i].file]>>]
      /\ DOMAIN loaded = DOMAIN batch
  BY DEF HandlerReads, Running, RuntimeBase, RuntimeTypeOK
<1>3. /\ TypesIn(debounced', f) = TypesIn(debounced, f)
      /\ TypesIn(watcherQueue', f) = TypesIn(watcherQueue, f)
      /\ TypesIn(postScanQueue', f) = TypesIn(postScanQueue, f)
      /\ TypesIn(batch', f) = TypesIn(batch, f)
      /\ TypesIn(rejected', f) = TypesIn(rejected, f)
  BY <1>1
<1>4. ToCome(f)' = ToCome(f)
  BY <1>1 DEF ToCome
<1>5. CASE batch[i].file # f
  <2>1. Reads(f)' = Reads(f)
    BY <1>1, <1>2, <1>5 DEF Reads
  <2> QED  BY <1>1, <1>3, <1>4, <2>1, FileKept
<1>6. CASE batch[i].file = f
  <2>1. Reads(f)' \subseteq Reads(f) \cup {<<disk[f]>>} /\ <<disk[f]>> \in Reads(f)'
    BY <1>1, <1>2, <1>6 DEF Reads
  <2>2. Waiting(f)' = Waiting(f) /\ Taken(f)' = Taken(f)
    BY <1>3 DEF Waiting, Taken
  <2>3. Deleting(f)' = Deleting(f) /\ Updating(f)' = Updating(f) /\ Behind(f)' = Behind(f)
    BY <1>3, <2>2 DEF Deleting, Updating, Behind
  <2>4. Fresh(f)'
    BY <1>1, <2>1 DEF Fresh
  <2>5. PresentOK(f)
    BY <1>2, <1>6 DEF FileOK
  <2>6. PresentOK(f)'
    BY <1>1, <1>3, <2>1, <2>3, <2>4, <2>5 DEF PresentOK
  <2> QED  BY <1>1, <1>2, <1>6, <2>6 DEF FileOK
<1> QED  BY <1>5, <1>6

\* What every handler that settles leaves alone.
LEMMA SettleKeeps ==
  ASSUME RuntimeBase, NEW i \in 1 .. Concurrency,
         HandlerFindsNothing(i) \/ HandlerWrites(i) \/ HandlerFails(i)
  PROVE  /\ i \in DOMAIN batch /\ batch' = RemoveAt(batch, i) /\ loaded' = RemoveAt(loaded, i)
         /\ UNCHANGED <<debounced, watcherQueue, postScanQueue, disk, startup, scan>>
         /\ \A f : Waiting(f)' = Waiting(f) /\ Updating(f)' = Updating(f) /\ ToCome(f)' = ToCome(f)
         /\ batch[i] \in Event /\ batch[i].type \in TypesIn(batch, batch[i].file)
<1>1. /\ i \in DOMAIN batch /\ batch' = RemoveAt(batch, i) /\ loaded' = RemoveAt(loaded, i)
      /\ UNCHANGED <<debounced, watcherQueue, postScanQueue, disk, startup, scan>>
  BY DEF HandlerFindsNothing, HandlerWrites, HandlerFails, SettleHandled, SettleRejected, Running,
     queues, postScan, content
<1>2. batch[i] \in Event /\ batch[i].type \in TypesIn(batch, batch[i].file)
  BY <1>1, RunningEvent DEF RuntimeBase, RuntimeTypeOK
<1> QED  BY <1>1, <1>2 DEF Waiting, Updating, ToCome

\* A handler settles that works on another file.
LEMMA OtherSettles ==
  ASSUME RuntimeBase, NEW f \in Files, FileOK(f), NEW i \in 1 .. Concurrency,
         HandlerFindsNothing(i) \/ HandlerWrites(i) \/ HandlerFails(i), batch[i].file # f
  PROVE  FileOK(f)'
<1>1. /\ i \in DOMAIN batch /\ batch' = RemoveAt(batch, i) /\ loaded' = RemoveAt(loaded, i)
      /\ UNCHANGED <<debounced, watcherQueue, postScanQueue, disk, startup, scan>>
      /\ ToCome(f)' = ToCome(f)
      /\ batch[i] \in Event
  BY SettleKeeps
<1>2. TypesIn(batch', f) = TypesIn(batch, f) /\ Reads(f)' = Reads(f)
  BY <1>1, HandlerGone
<1>3. TypesIn(rejected', f) = TypesIn(rejected, f)
  <2>1. TypesIn(Append(rejected, batch[i]), f) = TypesIn(rejected, f) \cup {}
    <3>1. rejected \in Seq(Event)
      BY DEF RuntimeBase, RuntimeTypeOK, TypeOK
    <3> QED  BY <1>1, <3>1, TypesInAppend
  <2>2. rejected' = rejected \/ rejected' = Append(rejected, batch[i])
    BY DEF HandlerFindsNothing, HandlerWrites, HandlerFails, SettleHandled, SettleRejected
  <2> QED  BY <2>1, <2>2
<1>4. index'[f] = index[f]
  BY DEF HandlerFindsNothing, HandlerWrites, HandlerFails, RuntimeBase, RuntimeTypeOK
<1> QED  BY <1>1, <1>2, <1>3, <1>4, FileKept

\* The file is gone: the deletion that is owed is still on its way.
LEMMA NothingFound ==
  ASSUME RuntimeBase, NEW i \in 1 .. Concurrency, HandlerFindsNothing(i),
         NEW f \in Files, f = batch[i].file, FileOK(f)
  PROVE  FileOK(f)'
<1>1. /\ i \in DOMAIN batch /\ batch' = RemoveAt(batch, i) /\ loaded' = RemoveAt(loaded, i)
      /\ UNCHANGED <<disk, scan>> /\ Waiting(f)' = Waiting(f)
  BY SettleKeeps
<1>2. /\ batch[i].type # "deleted" /\ disk[f] = Absent
      /\ UNCHANGED <<index, rejected>>
  BY DEF HandlerFindsNothing, SettleHandled
<1>3. /\ TypesIn(batch', f) \subseteq TypesIn(batch, f)
      /\ TypesIn(batch, f) \subseteq TypesIn(batch', f) \cup {batch[i].type}
  BY <1>1, HandlerGone
<1>4. Taken(f)' \subseteq Taken(f) /\ (Deleting(f)' <=> Deleting(f))
  BY <1>1, <1>2, <1>3 DEF Taken, Deleting
<1>5. AbsentOK(f)
  BY <1>2 DEF FileOK
<1>6. AbsentOK(f)'
  BY <1>1, <1>2, <1>4, <1>5 DEF AbsentOK
<1> QED  BY <1>1, <1>2, <1>6 DEF FileOK

\* A handler that fails leaves its event to be handled again.
LEMMA FailedFile ==
  ASSUME RuntimeBase, NEW i \in 1 .. Concurrency, HandlerFails(i),
         NEW f \in Files, f = batch[i].file, FileOK(f)
  PROVE  FileOK(f)'
<1> DEFINE B == TypesIn(batch, f)
           R == TypesIn(rejected, f)
           t == batch[i].type
<1>1. /\ i \in DOMAIN batch /\ batch' = RemoveAt(batch, i) /\ loaded' = RemoveAt(loaded, i)
      /\ UNCHANGED <<debounced, watcherQueue, disk, scan>>
      /\ Waiting(f)' = Waiting(f) /\ Updating(f)' = Updating(f) /\ ToCome(f)' = ToCome(f)
      /\ batch[i] \in Event /\ t \in B
  BY SettleKeeps
<1>2. UNCHANGED index /\ rejected' = Append(rejected, batch[i])
  BY DEF HandlerFails, SettleRejected
<1>3. /\ TypesIn(batch', f) \subseteq B
      /\ B \subseteq TypesIn(batch', f) \cup {t}
      /\ Reads(f)' \subseteq Reads(f)
      /\ t = "deleted" => Reads(f)' = Reads(f)
  BY <1>1, HandlerGone
<1>4. TypesIn(rejected', f) = R \cup {t}
  BY <1>1, <1>2, TypesInAppend DEF RuntimeBase, RuntimeTypeOK, TypeOK
<1>5. Taken(f)' = Taken(f)
  BY <1>1, <1>3, <1>4 DEF Taken
<1> HIDE DEF B, R, t
<1>6. Deleting(f)' = Deleting(f) /\ Behind(f)' = Behind(f)
  BY <1>1, <1>5 DEF Deleting, Behind
<1>7. Fresh(f) => Fresh(f)'
  BY <1>1, <1>3, <1>4 DEF Fresh, R
<1>8. AbsentOK(f) => AbsentOK(f)'
  BY <1>1, <1>2, <1>5, <1>6 DEF AbsentOK
<1>9. PresentOK(f) => PresentOK(f)'
  BY <1>1, <1>2, <1>3, <1>6, <1>7 DEF PresentOK
<1> QED  BY <1>1, <1>8, <1>9 DEF FileOK

\* A handler writes: what it read is what is on disk, or a newer event waits.
LEMMA WrittenFile ==
  ASSUME RuntimeBase, NEW i \in 1 .. Concurrency, HandlerWrites(i),
         NEW f \in Files, f = batch[i].file, FileOK(f), DeletedAlone(f), f \notin raced'
  PROVE  FileOK(f)'
<1> DEFINE B == TypesIn(batch, f)
           t == batch[i].type
<1>1. /\ i \in DOMAIN batch /\ batch' = RemoveAt(batch, i) /\ loaded' = RemoveAt(loaded, i)
      /\ UNCHANGED <<debounced, watcherQueue, disk, scan>>
      /\ Waiting(f)' = Waiting(f) /\ Updating(f)' = Updating(f) /\ ToCome(f)' = ToCome(f)
      /\ t \in B
  BY SettleKeeps
<1>2. /\ UNCHANGED rejected /\ scan.content[f] = Absent
      /\ t = "deleted" \/ loaded[i] # NotRead
      /\ index'[f] = IF t = "deleted" THEN Absent ELSE loaded[i][1]
  BY DEF HandlerWrites, SettleHandled, MeetsScan, RuntimeBase, RuntimeTypeOK
<1>3. /\ TypesIn(batch', f) \subseteq B
      /\ B \subseteq TypesIn(batch', f) \cup {t}
      /\ Reads(f)' \subseteq Reads(f)
  BY <1>1, HandlerGone
<1>4. Taken(f)' \subseteq Taken(f)
  BY <1>2, <1>3 DEF Taken
<1>5. CASE t = "deleted"
  <2>1. Taken(f)' = {}
    BY <1>1, <1>2, <1>5, DeletionGone DEF Taken
  <2>2. Deleting(f)
    BY <1>1, <1>5 DEF Deleting, Taken
  <2>3. AbsentOK(f) => AbsentOK(f)'
    BY <1>1, <1>2, <1>5, <2>1 DEF AbsentOK, Deleting
  <2>4. PresentOK(f) => PresentOK(f)'
    <3> SUFFICES ASSUME PresentOK(f) PROVE PresentOK(f)'
      OBVIOUS
    <3>1. Updating(f)' /\ Fresh(f)'
      BY <1>1, <2>2 DEF PresentOK, Fresh
    <3>2. "added" \in TypesIn(debounced, f) => Behind(f)'
      BY <1>1, <2>1, <2>2 DEF PresentOK, Behind
    <3> QED  BY <1>1, <3>1, <3>2 DEF PresentOK
  <2> QED  BY <1>1, <2>3, <2>4 DEF FileOK
<1>6. CASE t # "deleted"
  <2>1. Deleting(f)' <=> Deleting(f)
    BY <1>1, <1>2, <1>3, <1>6 DEF Deleting, Taken
  <2>2. AbsentOK(f) => AbsentOK(f)'
    BY <1>1, <1>4, <2>1 DEF AbsentOK, Taken
  <2>3. loaded[i] \in Reads(f) /\ loaded[i] # NotRead
    BY <1>1, <1>2, <1>6 DEF Reads
  <2>4. loaded[i][1] # Absent /\ loaded[i] = <<loaded[i][1]>>
    BY <1>1, <2>3, LoadedContent DEF RuntimeBase, RuntimeTypeOK
  <2>5. Behind(f) => Behind(f)'
    BY <1>1, <1>2, <1>3, <1>6 DEF Behind, Taken
  <2>6. PresentOK(f) => PresentOK(f)'
    <3> SUFFICES ASSUME PresentOK(f) PROVE PresentOK(f)'
      OBVIOUS
    <3>1. Fresh(f)' \/ index'[f] = disk'[f]
      <4>1. CASE Updating(f)
        BY <1>1, <4>1 DEF Fresh
      <4>2. CASE ~Updating(f)
        BY <1>1, <1>2, <1>6, <2>3, <2>4, <4>2 DEF PresentOK
      <4> QED  BY <4>1, <4>2
    <3>2. index'[f] # Absent
      BY <1>2, <1>6, <2>4
    <3> QED  BY <1>1, <1>2, <1>3, <2>1, <2>5, <3>1, <3>2 DEF PresentOK
  <2> QED  BY <1>1, <2>2, <2>6 DEF FileOK
<1> QED  BY <1>5, <1>6

-----------------------------------------------------------------------------
(* The scans. *)

\* A step that only begins a scan, or gives an attempt up.
LEMMA BegunFile ==
  ASSUME RuntimeBase, NEW f \in Files, FileOK(f),
         Initialize \/ RecoveryScans \/ RecoverySkipped \/ UserReindexes \/ ScanLists
  PROVE  FileOK(f)'
<1>0. ScanInv /\ RuntimeTypeOK
  BY DEF RuntimeBase
<1>1. UNCHANGED <<debounced, watcherQueue, postScanQueue, batch, rejected, loaded, disk, index>>
  BY DEF Initialize, RecoveryScans, RecoverySkipped, UserReindexes, ManualReindex, ScanLists,
     EnterPostScanMode, vars, queues, drainVars, handlers, content, postScan
<1>2. scan'.content = scan.content
  <2>1. ASSUME scan = Idle, NEW by, NEW full, scan' = [Idle EXCEPT !.step = "list", !.by = by, !.full = full]
        PROVE  scan'.content = scan.content
    BY <2>1 DEF Idle
  <2>2. CASE Initialize \/ RecoveryScans \/ UserReindexes
    <3>1. scan' = scan \/ scan = Idle
      BY <1>0, <2>2 DEF Initialize, RecoveryScans, UserReindexes, ManualReindex, Acquire, ScanInv
    <3>2. scan' = scan \/ \E by, full : scan' = [Idle EXCEPT !.step = "list", !.by = by, !.full = full]
      BY <2>2 DEF Initialize, RecoveryScans, UserReindexes, ManualReindex, Acquire
    <3> QED  BY <2>1, <3>1, <3>2
  <2>3. CASE RecoverySkipped \/ ScanLists
    BY <1>0, <2>3 DEF RecoverySkipped, ScanLists, RuntimeTypeOK
  <2> QED  BY <2>2, <2>3
<1>3. disk[f] # Absent /\ ToCome(f) => ToCome(f)'
  <2>1. CASE Initialize
    BY <2>1 DEF Initialize, Acquire, ToCome, Idle
  <2>2. CASE RecoveryScans \/ UserReindexes
    <3>1. scan = Idle
      BY <1>0, <2>2 DEF RecoveryScans, UserReindexes, ManualReindex, Acquire, ScanInv
    <3>2. startup # "new"
      <4>1. CASE UserReindexes
        BY <4>1 DEF UserReindexes, ManualReindex
      <4>2. CASE RecoveryScans
        <5>1. recovery # 0
          BY <4>2 DEF RecoveryScans
        <5> QED  BY <1>0, <5>1 DEF ScanInv
      <4> QED  BY <2>2, <4>1, <4>2
    <3> QED  BY <3>1, <3>2 DEF ToCome, Idle
  <2>3. CASE RecoverySkipped
    BY <2>3 DEF RecoverySkipped, ToCome
  <2>4. CASE ScanLists
    BY <1>0, <2>4 DEF ScanLists, ToCome, Present, RuntimeTypeOK
  <2> QED  BY <2>1, <2>2, <2>3, <2>4
<1> QED  BY <1>1, <1>2, <1>3, QueuesKept, FileKept

LEMMA ScannedFile ==
  ASSUME RuntimeBase, NEW f \in Files, FileOK(f), NEW g \in Files, ScanReads(g)
  PROVE  FileOK(f)'
<1>0. RuntimeTypeOK
  BY DEF RuntimeBase
<1>1. UNCHANGED <<debounced, watcherQueue, postScanQueue, batch, rejected, loaded, disk, index, startup>>
  BY DEF ScanReads, vars, queues, drainVars, handlers, content, postScan
<1>2. /\ scan'.step = scan.step /\ scan'.by = scan.by /\ scan'.todo = scan.todo
      /\ scan'.content = [scan.content EXCEPT ![g] = disk[g]] /\ disk[g] # Absent
  BY <1>0 DEF ScanReads, RuntimeTypeOK
<1>3. ToCome(f)' = ToCome(f)
  BY <1>1, <1>2 DEF ToCome
<1>4. CASE f # g
  <2>1. scan'.content[f] = scan.content[f]
    BY <1>0, <1>2, <1>4 DEF RuntimeTypeOK
  <2> QED  BY <1>1, <1>3, <2>1, QueuesKept, FileKept
<1>5. CASE f = g
  <2>1. scan'.content[f] = disk[f]
    BY <1>0, <1>2, <1>5 DEF RuntimeTypeOK
  <2>2. PresentOK(f)
    BY <1>2, <1>5 DEF FileOK
  <2>3. Waiting(f)' = Waiting(f) /\ Taken(f)' = Taken(f) /\ Reads(f)' = Reads(f)
    BY <1>1 DEF Waiting, Taken, Reads
  <2>4. Deleting(f)' = Deleting(f) /\ Updating(f)' = Updating(f) /\ Behind(f)' = Behind(f)
    BY <1>1, <2>3 DEF Deleting, Updating, Behind
  <2>5. Fresh(f)' = Fresh(f)
    BY <1>1, <2>3, <2>4 DEF Fresh
  <2>6. PresentOK(f)'
    BY <1>1, <1>3, <2>1, <2>2, <2>3, <2>4, <2>5 DEF PresentOK
  <2> QED  BY <1>1, <1>2, <1>5, <2>6 DEF FileOK
<1> QED  BY <1>4, <1>5

\* A scan writes another file.
LEMMA OtherScanned ==
  ASSUME RuntimeBase, NEW f \in Files, FileOK(f), NEW g \in Files \ {f}, ScanWrites(g)
  PROVE  FileOK(f)'
<1>0. RuntimeTypeOK
  BY DEF RuntimeBase
<1>1. UNCHANGED <<debounced, watcherQueue, postScanQueue, batch, rejected, loaded, disk, startup>>
  BY DEF ScanWrites, vars, queues, drainVars, handlers, content, postScan
<1>2. /\ scan'.step = scan.step /\ scan'.by = scan.by /\ scan'.todo = scan.todo \ {g}
      /\ scan'.content[f] = scan.content[f] /\ index'[f] = index[f]
  BY <1>0 DEF ScanWrites, RuntimeTypeOK
<1>3. ToCome(f)' = ToCome(f)
  BY <1>1, <1>2 DEF ToCome
<1> QED  BY <1>1, <1>2, <1>3, QueuesKept, FileKept

\* A scan writes the file.  If the file was lost it no longer is when the scan
\* wrote what is on disk and nothing that is held takes it out again.
LEMMA ScanWritesFile ==
  ASSUME RuntimeBase, NEW f \in Files, f \notin lost => FileOK(f), ScanWrites(f),
         f \notin lost', f \notin raced'
  PROVE  FileOK(f)'
<1>0. RuntimeTypeOK /\ DOMAIN loaded = DOMAIN batch
  BY DEF RuntimeBase, RuntimeTypeOK
<1>1. UNCHANGED <<debounced, watcherQueue, postScanQueue, batch, rejected, loaded, disk>>
  BY DEF ScanWrites, vars, queues, drainVars, handlers, content, postScan
<1>2. /\ index'[f] = scan.content[f] /\ scan'.content[f] = Absent /\ scan.content[f] # Absent
  BY <1>0 DEF ScanWrites, RuntimeTypeOK
<1>3. Reads(f) \subseteq {NotRead} /\ Reads(f)' = Reads(f)
  <2>1. f \notin Handling
    BY DEF ScanWrites
  <2> QED  BY <1>1, <2>1 DEF Handling, Reads
<1>4. Waiting(f)' = Waiting(f) /\ Taken(f)' = Taken(f)
  BY <1>1 DEF Waiting, Taken
<1>5. Deleting(f)' = Deleting(f) /\ Updating(f)' = Updating(f) /\ Behind(f)' = Behind(f)
  BY <1>1, <1>4 DEF Deleting, Updating, Behind
<1>6. Fresh(f)' = Fresh(f)
  BY <1>1, <1>3, <1>5 DEF Fresh
<1>7. CASE f \notin lost
  <2>1. AbsentOK(f) => AbsentOK(f)'
    BY <1>2, <1>4, <1>5 DEF AbsentOK
  <2>2. PresentOK(f) => PresentOK(f)'
    BY <1>1, <1>2, <1>3, <1>5, <1>6 DEF PresentOK
  <2> QED  BY <1>1, <1>7, <2>1, <2>2 DEF FileOK
<1>8. CASE f \in lost
  <2>1. scan.content[f] = disk[f] /\ f \notin ToBeDeleted
    BY <1>8 DEF ScanWrites
  <2>2. ~Deleting(f)
    <3>1. \A q \in {debounced, watcherQueue, postScanQueue, batch, rejected} :
            "deleted" \notin TypesIn(q, f)
      BY <2>1 DEF ToBeDeleted, TypesIn
    <3> QED  BY <3>1 DEF Deleting, Waiting, Taken
  <2>3. PresentOK(f)'
    BY <1>1, <1>2, <1>3, <1>5, <2>1, <2>2 DEF PresentOK
  <2> QED  BY <1>1, <1>2, <2>1, <2>3 DEF FileOK
<1> QED  BY <1>7, <1>8

\* A scan ends: it has come to every file, or it fails, which is made up for by
\* an attempt that is left, or loses every file.
LEMMA EndedFile ==
  ASSUME RuntimeBase, NEW f \in Files, FileOK(f), ScanCompletes \/ ScanFails, f \notin lost'
  PROVE  FileOK(f)'
<1>0. ScanInv /\ RuntimeTypeOK /\ FullScanEmpty
  BY DEF RuntimeBase
<1>1. UNCHANGED <<disk, index, loaded>> /\ scan' = Idle
  BY DEF ScanCompletes, ScanFails, Release, content
<1>2. UNCHANGED <<debounced, watcherQueue, postScanQueue, batch, rejected>>
  <2>1. MarkFullScanComplete \/ UNCHANGED vars
    BY ReleaseIsStep DEF ScanCompletes, ScanFails
  <2>2. CASE MarkFullScanComplete
    BY <1>0, <2>2 DEF MarkFullScanComplete, FullScanEmpty, postScan, drainVars, handlers
  <2>3. CASE UNCHANGED vars
    BY <2>3 DEF vars, queues, postScan, drainVars, handlers
  <2> QED  BY <2>1, <2>2, <2>3
<1>3. scan'.content[f] = Absent
  BY <1>1 DEF Idle
<1>4. ~ToCome(f)
  <2>1. scan.step = "read" /\ startup # "new"
    BY <1>0 DEF ScanCompletes, ScanFails, ScanInv, Idle
  <2>2. CASE ScanCompletes
    BY <2>1, <2>2 DEF ScanCompletes, ToCome
  <2>3. CASE ScanFails
    BY <2>1, <2>3 DEF ScanFails, ToCome
  <2> QED  BY <2>2, <2>3
<1> QED  BY <1>1, <1>2, <1>3, <1>4, QueuesKept, FileKept

-----------------------------------------------------------------------------
FilesOK ==
  /\ \A f \in Files \ (lost \cup raced) : FileOK(f)
  /\ \A f \in Files \ raced : DeletedAlone(f)

\* The histories: a race is never forgotten, a loss only when a scan writes the
\* file.
LEMMA HistoriesGrow ==
  ASSUME [RuntimeNext]_allVars, NEW f, ~ScanWrites(f) \/ f \notin Files
  PROVE  (f \in lost => f \in lost') /\ (f \in raced => f \in raced')
<1>1. CASE FileChanges
  BY <1>1 DEF FileChanges, Change
<1>2. CASE Flush \/ Initialize \/ RecoveryScans \/ RecoverySkipped \/ UserReindexes \/ StartupDrains
           \/ UNCHANGED allVars
  BY <1>2 DEF Flush, Initialize, RecoveryScans, RecoverySkipped, UserReindexes, ManualReindex,
     StartupDrains, allVars, runtimeVars, runtimeHistory
<1>3. CASE Drain \/ FinishDrain
  BY <1>3 DEF Drain, FinishDrain, AfterDrain
<1>4. CASE HandlerSteps \/ HandlersFail
  BY <1>4 DEF HandlerSteps, HandlersFail, HandlerReads, HandlerFindsNothing, HandlerWrites,
     HandlerFails, runtimeHistory
<1>5. CASE ScanLists \/ ScanCompletes \/ ScanFails
  <2>1. raced' = raced
    BY <1>5 DEF ScanLists, ScanCompletes, ScanFails, Release, runtimeHistory
  <2>2. lost' = lost \/ lost' = lost \cup Files
    BY <1>5 DEF ScanLists, ScanCompletes, ScanFails, runtimeHistory
  <2> QED  BY <2>1, <2>2
<1>6. ASSUME NEW g \in Files, ScanReads(g) \/ ScanWrites(g)
      PROVE  (f \in lost => f \in lost') /\ (f \in raced => f \in raced')
  <2>1. CASE ScanReads(g)
    BY <2>1 DEF ScanReads, runtimeHistory
  <2>2. CASE ScanWrites(g)
    <3>1. f # g
      BY <2>2
    <3> QED  BY <2>2, <3>1 DEF ScanWrites
  <2> QED  BY <1>6, <2>1, <2>2
<1> QED  BY <1>1, <1>2, <1>3, <1>4, <1>5, <1>6 DEF RuntimeNext, ScanSteps

LEMMA FileStep ==
  ASSUME RuntimeBase, FilesOK, [RuntimeNext]_allVars, NEW f \in Files, f \notin lost' \cup raced'
  PROVE  FileOK(f)'
<1>1. CASE ScanWrites(f)
  <2>1. f \notin raced
    BY <1>1 DEF ScanWrites
  <2>2. f \notin lost => FileOK(f)
    BY <2>1 DEF FilesOK
  <2> QED  BY <1>1, <2>2, ScanWritesFile
<1>2. CASE ~ScanWrites(f)
  <2>1. f \notin lost /\ f \notin raced
    BY <1>2, HistoriesGrow
  <2>2. FileOK(f) /\ DeletedAlone(f)
    BY <2>1 DEF FilesOK
  <2>3. ASSUME NEW g \in Files, NEW type \in ReportedTypes, Change(g, type) PROVE FileOK(f)'
    <3>1. CASE g = f
      BY <2>2, <2>3, <3>1, OwnChange
    <3>2. CASE g # f
      BY <2>2, <2>3, <3>2, OtherChanges
    <3> QED  BY <3>1, <3>2
  <2>4. CASE Flush
    BY <2>2, <2>4, FlushFile
  <2>5. CASE Drain
    BY <2>2, <2>5, DrainFile
  <2>6. ASSUME NEW i \in 1 .. Concurrency, HandlerReads(i) PROVE FileOK(f)'
    BY <2>2, <2>6, ReadFile
  <2>7. ASSUME NEW i \in 1 .. Concurrency,
               HandlerFindsNothing(i) \/ HandlerWrites(i) \/ HandlerFails(i)
        PROVE  FileOK(f)'
    <3>1. CASE batch[i].file # f
      BY <2>2, <2>7, <3>1, OtherSettles
    <3>2. CASE batch[i].file = f
      <4>1. CASE HandlerFindsNothing(i)
        BY <2>2, <3>2, <4>1, NothingFound
      <4>2. CASE HandlerWrites(i)
        BY <2>2, <3>2, <4>2, WrittenFile
      <4>3. CASE HandlerFails(i)
        BY <2>2, <3>2, <4>3, FailedFile
      <4> QED  BY <2>7, <4>1, <4>2, <4>3
    <3> QED  BY <3>1, <3>2
  <2>8. CASE FinishDrain
    BY <2>2, <2>8, FinishFile
  <2>9. CASE Initialize \/ RecoveryScans \/ RecoverySkipped \/ UserReindexes \/ ScanLists
    BY <2>2, <2>9, BegunFile
  <2>10. ASSUME NEW g \in Files, ScanReads(g) PROVE FileOK(f)'
    BY <2>2, <2>10, ScannedFile
  <2>11. ASSUME NEW g \in Files, ScanWrites(g) PROVE FileOK(f)'
    <3>1. g \in Files \ {f}
      BY <1>2, <2>11
    <3> QED  BY <2>2, <2>11, <3>1, OtherScanned
  <2>12. CASE ScanCompletes \/ ScanFails
    BY <2>2, <2>12, EndedFile
  <2>13. CASE StartupDrains
    BY <2>2, <2>13, ForwardFile
  <2>14. CASE UNCHANGED allVars
    <3>1. UNCHANGED <<debounced, watcherQueue, postScanQueue, batch, rejected, loaded, disk, index,
                      scan, startup>>
      BY <2>14 DEF allVars, vars, queues, postScan, drainVars, handlers, runtimeVars
    <3>2. ToCome(f)' = ToCome(f)
      BY <3>1 DEF ToCome
    <3> QED  BY <2>2, <3>1, <3>2, QueuesKept, FileKept
  <2> QED
    BY <2>3, <2>4, <2>5, <2>6, <2>7, <2>8, <2>9, <2>10, <2>11, <2>12, <2>13, <2>14
       DEF RuntimeNext, FileChanges, HandlerSteps, HandlersFail, ScanSteps
<1> QED  BY <1>1, <1>2

LEMMA FilesStep ==
  ASSUME RuntimeBase, FilesOK, [RuntimeNext]_allVars
  PROVE  FilesOK'
<1>1. ASSUME NEW f \in Files \ raced' PROVE DeletedAlone(f)'
  <2>1. f \notin raced
    <3>1. CASE ScanWrites(f)
      BY <3>1 DEF ScanWrites
    <3>2. CASE ~ScanWrites(f)
      BY <3>2, HistoriesGrow
    <3> QED  BY <3>1, <3>2
  <2> QED  BY <2>1, DeletedAloneStep DEF FilesOK
<1> QED  BY <1>1, FileStep DEF FilesOK

LEMMA FilesInit == RuntimeInit => FilesOK
<1> SUFFICES ASSUME RuntimeInit, NEW f \in Files PROVE FileOK(f) /\ DeletedAlone(f)
  BY DEF FilesOK
<1>1. /\ debounced = <<>> /\ watcherQueue = <<>> /\ postScanQueue = <<>>
      /\ batch = <<>> /\ rejected = <<>> /\ scan = Idle /\ startup = "new"
      /\ index = IF StartsIndexed THEN disk ELSE [g \in Files |-> Absent]
  BY DEF RuntimeInit, Init
<1>2. /\ TypesIn(debounced, f) = {} /\ TypesIn(batch, f) = {} /\ TypesIn(rejected, f) = {}
      /\ Waiting(f) = {} /\ Taken(f) = {} /\ Reads(f) = {}
  BY <1>1, TypesInEmpty DEF Waiting, Taken, Reads
<1>3. scan.content[f] = Absent
  BY <1>1 DEF Idle
<1>4. AbsentOK(f) \/ disk[f] # Absent
  BY <1>1, <1>2, <1>3 DEF AbsentOK
<1>5. PresentOK(f)
  BY <1>1, <1>2, <1>3 DEF PresentOK, ToCome, Deleting
<1>6. DeletedAlone(f)
  BY <1>1, <1>2 DEF DeletedAlone
<1> QED  BY <1>4, <1>5, <1>6 DEF FileOK

\* At rest nothing is held and nothing is to come, so the index is right.
LEMMA RestIsRight ==
  ASSUME RuntimeBase, FilesOK
  PROVE  StaleOnlyWhenExcused
<1> SUFFICES ASSUME Quiescent, NEW f \in Files \ (lost \cup raced) PROVE index[f] = disk[f]
  BY DEF StaleOnlyWhenExcused
<1>0. /\ TypeOK /\ ScanInv /\ BatchOnlyWhileDraining
      /\ debounced \in Seq(Event) /\ watcherQueue \in Seq(Event)
  BY DEF RuntimeBase, CapacityInv, TypeOK
<1>1. Len(watcherQueue) = 0 /\ Len(debounced) = 0
  BY <1>0, SizeType DEF Quiescent, Size, TypeOK
<1>2. debounced = <<>> /\ watcherQueue = <<>> /\ postScanQueue = <<>> /\ batch = <<>> /\ rejected = <<>>
  BY <1>0, <1>1, EmptySeq, BufferAlone DEF Quiescent, BatchOnlyWhileDraining
<1>3. Waiting(f) = {} /\ Taken(f) = {} /\ Reads(f) = {} /\ TypesIn(rejected, f) = {}
  BY <1>2, TypesInEmpty DEF Waiting, Taken, Reads
<1>4. ~ToCome(f)
  BY <1>0 DEF Quiescent, ToCome, ScanInv, Idle
<1>5. FileOK(f)
  BY DEF FilesOK
<1> QED  BY <1>3, <1>4, <1>5 DEF FileOK, AbsentOK, PresentOK, Fresh, Updating, Deleting

\* Whenever the runtime is at rest, the index holds what the disk holds of every
\* file, but for the files a change of which was dropped and not scanned since,
\* and those on which two unordered writers met: for any number of files,
\* changes, handlers, scans and attempts, and any capacity of the queue.
THEOREM IndexRightAtRest == RuntimeSpec => []StaleOnlyWhenExcused
<1>1. RuntimeBase /\ FilesOK /\ [RuntimeNext]_allVars => (RuntimeBase /\ FilesOK)'
  BY RuntimeBaseStep, FilesStep
<1>2. RuntimeBase /\ FilesOK => StaleOnlyWhenExcused
  BY RestIsRight
<1> QED  BY <1>1, <1>2, RuntimeBaseInit, FilesInit, PTL DEF RuntimeSpec

\* The variables of the runtime keep their types.
THEOREM RuntimeTyped == RuntimeSpec => []RuntimeTypeOK
<1>1. RuntimeBase /\ [RuntimeNext]_allVars => RuntimeBase'
  BY RuntimeBaseStep
<1>2. RuntimeBase => RuntimeTypeOK
  BY DEF RuntimeBase
<1> QED  BY <1>1, <1>2, RuntimeBaseInit, PTL DEF RuntimeSpec

-----------------------------------------------------------------------------
\* As long as no user has asked for a reindex, a queue that waits for a full scan
\* has one that runs, or attempts at one to come, and every scan is a full one.
FullScanHasWayOut ==
  manual = 0 =>
    /\ state = "full_scan" => recovery > 0 \/ scan.step # "idle"
    /\ scan.step # "idle" => scan.full

\* Only a drain asks for a full scan.
NoScanAsked == state' = "full_scan" => state = "full_scan"

LEMMA OnlyDrainsAsk ==
  ASSUME \/ FileChanges \/ Flush \/ HandlerSteps \/ HandlersFail \/ StartupDrains
  PROVE  NoScanAsked /\ UNCHANGED <<scan, recovery, manual>>
<1> USE DEF NoScanAsked
<1>1. CASE FileChanges
  <2>1. PICK f \in Files, type \in ReportedTypes : Change(f, type)
    BY <1>1 DEF FileChanges
  <2>2. PICK e : e = [file |-> f, type |-> type]
    OBVIOUS
  <2>3. /\ UNCHANGED <<scan, recovery, manual>>
        /\ \/ BufferPostScan(e) \/ Debounce(e) \/ DropPostScan(e)
           \/ DropOverflowing(e) \/ DropAtCapacity(e)
    BY <2>1, <2>2 DEF Change
  <2>4. BufferPostScan(e) \/ DropPostScan(e) \/ DropOverflowing(e) => state' = state
    BY DEF BufferPostScan, DropPostScan, DropOverflowing
  <2>5. DropAtCapacity(e) => state' = "overflow"
    BY DEF DropAtCapacity
  <2>6. Debounce(e) => state' = StateAtSize(SizeWith(Merged(e)))
    BY DEF Debounce
  <2>7. ASSUME NEW n PROVE StateAtSize(n) = "full_scan" => state = "full_scan"
    BY DEF StateAtSize, Overflowed
  <2> QED BY <2>3, <2>4, <2>5, <2>6, <2>7
<1>2. CASE Flush
  <2>1. UNCHANGED <<scan, recovery, manual>> /\ \E n : state' = StateAtSize(n)
    BY <1>2 DEF Flush, TimerFires, FlushDebounced, runtimeVars
  <2> QED BY <2>1 DEF StateAtSize, Overflowed
<1>3. CASE HandlerSteps
  BY <1>3 DEF HandlerSteps, HandlerReads, HandlerFindsNothing, HandlerWrites, SettleHandled, vars
<1>4. CASE HandlersFail
  BY <1>4 DEF HandlersFail, HandlerFails, SettleRejected
<1>5. CASE StartupDrains
  BY <1>5 DEF StartupDrains, DrainPostScanQueue, Overflowed
<1> QED BY <1>1, <1>2, <1>3, <1>4, <1>5

LEMMA WayOutKept ==
  ASSUME FullScanHasWayOut, RuntimeTypeOK, RuntimeTypeOK', [RuntimeNext]_allVars
  PROVE  FullScanHasWayOut'
<1>0. /\ recovery \in Nat /\ recovery' \in Nat /\ manual \in Nat
      /\ scan = [step |-> scan.step, by |-> scan.by, full |-> scan.full, todo |-> scan.todo,
                 content |-> scan.content]
  BY AttemptsAssumption, RuntimeBoundsAssumption DEF RuntimeTypeOK
<1>1. CASE FileChanges \/ Flush \/ HandlerSteps \/ HandlersFail \/ StartupDrains
  BY <1>1, OnlyDrainsAsk DEF FullScanHasWayOut, NoScanAsked
<1>2. CASE Drain \/ FinishDrain
  <2>1. UNCHANGED <<scan, manual>> /\ \E drops : AfterDrain(drops)
    BY <1>2 DEF Drain, FinishDrain
  <2>2. IF state # "full_scan" /\ state' = "full_scan" THEN recovery' = ScanAttempts
                                                       ELSE recovery' = recovery
    BY <2>1 DEF AfterDrain
  <2> QED BY <2>1, <2>2, AttemptsAssumption DEF FullScanHasWayOut
<1>3. CASE Initialize \/ RecoveryScans
  <2>1. state' = state /\ UNCHANGED <<recovery, manual>>
        /\ (scan' = scan \/ \E by : scan' = [Idle EXCEPT !.step = "list", !.by = by, !.full = TRUE])
    BY <1>3 DEF Initialize, RecoveryScans, EnterPostScanMode, Acquire, vars
  <2>2. \A by : /\ [Idle EXCEPT !.step = "list", !.by = by, !.full = TRUE].step = "list"
                /\ [Idle EXCEPT !.step = "list", !.by = by, !.full = TRUE].full
    BY DEF Idle
  <2> QED BY <2>1, <2>2 DEF FullScanHasWayOut
<1>4. CASE RecoverySkipped
  BY <1>4 DEF RecoverySkipped, FullScanHasWayOut, vars
<1>5. CASE UserReindexes
  BY <1>0, <1>5 DEF UserReindexes, ManualReindex, FullScanHasWayOut
<1>6. CASE ScanLists \/ \E f \in Files : ScanReads(f) \/ ScanWrites(f)
  <2>1. state' = state /\ UNCHANGED <<recovery, manual>>
    BY <1>6 DEF ScanLists, ScanReads, ScanWrites, vars
  <2>2. scan.step # "idle" /\ scan'.full = scan.full /\ scan'.step # "idle"
    <3>1. CASE ScanLists
      BY <1>0, <3>1 DEF ScanLists
    <3>2. ASSUME NEW f \in Files, ScanReads(f)
          PROVE  scan.step # "idle" /\ scan'.full = scan.full /\ scan'.step # "idle"
      BY <1>0, <3>2 DEF ScanReads
    <3>3. ASSUME NEW f \in Files, ScanWrites(f)
          PROVE  scan.step # "idle" /\ scan'.full = scan.full /\ scan'.step # "idle"
      <4>1. scan.step = "read"
            /\ scan' = [scan EXCEPT !.todo = scan.todo \ {f},
                                    !.content = [scan.content EXCEPT ![f] = Absent]]
        BY <3>3 DEF ScanWrites
      <4>2. PICK todo, content1 : scan' = [scan EXCEPT !.todo = todo, !.content = content1]
        BY <4>1
      <4> QED BY <1>0, <4>1, <4>2
    <3> QED BY <1>6, <3>1, <3>2, <3>3
  <2> QED BY <2>1, <2>2 DEF FullScanHasWayOut
<1>7. CASE ScanCompletes \/ ScanFails
  <2>1. scan.step = "read" /\ Release
    BY <1>7 DEF ScanCompletes, ScanFails
  <2>2. scan' = Idle /\ manual' = manual
        /\ (scan.full /\ state = "full_scan" => MarkFullScanComplete)
        /\ (~(scan.full /\ state = "full_scan") => UNCHANGED vars)
    BY <2>1 DEF Release
  <2>3. manual = 0 => state' # "full_scan"
    <3>1. CASE scan.full /\ state = "full_scan"
      BY <2>2, <3>1 DEF MarkFullScanComplete
    <3>2. CASE ~(scan.full /\ state = "full_scan")
      <4>1. state' = state
        BY <2>2, <3>2 DEF vars
      <4> QED BY <2>1, <3>2, <4>1 DEF FullScanHasWayOut
    <3> QED BY <3>1, <3>2
  <2> QED BY <2>2, <2>3 DEF FullScanHasWayOut, Idle
<1>8. CASE UNCHANGED allVars
  BY <1>8 DEF allVars, vars, runtimeVars, FullScanHasWayOut
<1> QED BY <1>1, <1>2, <1>3, <1>4, <1>5, <1>6, <1>7, <1>8 DEF RuntimeNext, ScanSteps

\* What FullScanEnds rests on: a queue in the state "full_scan", which refuses
\* every event, is never left without a scan (triggerFullScan() in
\* src/server/factory.ts, markFullScanComplete()), whatever attempts are skipped or
\* fail; the reindexes users ask for, which can use up the attempts, are excepted.
THEOREM FullScanNeverForgotten == RuntimeSpec => []FullScanHasWayOut
<1>1. RuntimeInit => FullScanHasWayOut
  BY DEF RuntimeInit, Init, Idle, FullScanHasWayOut
<1> QED BY <1>1, WayOutKept, RuntimeTyped, PTL DEF RuntimeSpec
=============================================================================
