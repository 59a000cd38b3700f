---------------------------- MODULE IndexingRuntime ----------------------------
(***************************************************************************)
(* The event queue put to work: files change on disk, the watcher reports  *)
(* them, the drain loop and its handlers read and index them, and full     *)
(* scans run at startup, after an overflow and on demand                   *)
(* (src/server/factory.ts, src/server/index.ts, src/indexer/pipeline.ts).  *)
(*                                                                         *)
(* A content is the number of the change that wrote it; a file's share of  *)
(* the index is the content its vectors were made from.  A handler reads   *)
(* its file in one step and writes the index in a later one; a scan lists  *)
(* the directory, reads every listed file and then writes them one by one  *)
(* (one window of processEventWindow).  The watcher reports a change when  *)
(* it is made: a later report is handled later and hides no behaviour.     *)
(* Embedding failures, which go to the dead-letter queue, and shutdown are *)
(* not part of this module.                                                *)
(***************************************************************************)
EXTENDS EventQueue

CONSTANTS
  StartsIndexed,   \* whether a completed index exists at startup
  ScanAttempts,    \* retryCount of triggerFullScan
  MaxChanges,      \* bound: changes a behaviour may contain
  MaxManual        \* bound: reindexes a user may ask for

ASSUME StartAssumption == StartsIndexed \in BOOLEAN
ASSUME AttemptsAssumption == ScanAttempts \in Nat \ {0}
ASSUME RuntimeBoundsAssumption == MaxChanges \in Nat \ {0} /\ MaxManual \in Nat

VARIABLES
  disk,       \* content of every file, Absent when there is none
  index,      \* content the index holds of every file
  changes,    \* changes made so far, the last content written
  loaded,     \* for each event of batch the content its handler read, if any
  startup,    \* how far initialize() has come with the startup index
  scan,       \* the reindex that holds the pipeline's mutex
  recovery,   \* attempts triggerFullScan has left, 0 when it is not running
  manual,     \* reindexes asked for so far
  lost,       \* history: files with a change no event and no scan carried on
  raced       \* history: files two unordered writers met on

content == <<disk, changes>>
runtimeHistory == <<lost, raced>>
runtimeVars == <<disk, index, changes, loaded, startup, scan, recovery, manual, lost, raced>>
allVars == <<vars, runtimeVars>>

-----------------------------------------------------------------------------
Absent == 0
Contents == 0 .. MaxChanges

Idle == [step |-> "idle", by |-> "none", full |-> FALSE, todo |-> {},
         content |-> [f \in Files |-> Absent]]

Present == {f \in Files : disk[f] # Absent}

NotRead == <<>>

\* Files whose deletion shares a batch with another event: the handlers of one
\* batch run side by side.
DeletedAmongOthers(seq) ==
  {seq[i].file : i \in {k \in DOMAIN seq : \E j \in DOMAIN seq \ {k} :
      seq[j].file = seq[k].file /\ "deleted" \in {seq[j].type, seq[k].type}}}

\* Files whose handler has read them and not written.
Handling == {batch[i].file : i \in {k \in DOMAIN batch : loaded[k] # NotRead}}

\* Files that will be taken out of the index by an event that is held.
ToBeDeleted ==
  UNION {{q[i].file : i \in {k \in DOMAIN q : q[k].type = "deleted"}} :
           q \in {debounced, watcherQueue, postScanQueue, batch, rejected}}

\* A scan that has read the file will write what it read, whatever a handler
\* writes in the meantime.
MeetsScan(f) == IF scan.content[f] # Absent THEN {f} ELSE {}

\* "added" and "deleted" cancel each other although a scan indexes the file.
MeetsCancel(f) ==
  IF /\ f \in FilesIn(debounced) \ FilesIn(debounced')
     /\ index[f] # Absent \/ scan.content[f] # Absent
  THEN {f} ELSE {}

-----------------------------------------------------------------------------
\* A file is written or removed and the watcher reports it.
NewContent(f, type) == IF type = "deleted" THEN Absent ELSE changes + 1

Change(f, type) ==
  /\ changes < MaxChanges
  /\ startup # "new"
  /\ (disk[f] = Absent) = (type = "added")
  /\ disk' = [disk EXCEPT ![f] = NewContent(f, type)]
  /\ changes' = changes + 1
  /\ LET e == [file |-> f, type |-> type]
     IN  \/ (BufferPostScan(e) \/ Debounce(e)) /\ UNCHANGED lost
         \/ /\ DropPostScan(e) \/ DropOverflowing(e) \/ DropAtCapacity(e)
            /\ lost' = lost \cup {f}
  /\ raced' = raced \cup MeetsCancel(f)
  /\ UNCHANGED <<index, loaded, startup, scan, recovery, manual>>

\* A queue built without onFullScanRequired.
MutantAfterDrain(drops) == UNCHANGED recovery /\ lost' = lost \cup drops

\* onFullScanRequired() starts triggerFullScan() and does not wait for it.
\* The tail of a drain that calls it throws the debounced events away.
AfterDrain(drops) ==
  IF state # "full_scan" /\ state' = "full_scan"
  THEN recovery' = ScanAttempts /\ lost' = lost \cup drops \cup FilesIn(debounced)
  ELSE UNCHANGED recovery /\ lost' = lost \cup drops

Flush ==
  /\ TimerFires
  /\ UNCHANGED runtimeVars

\* The drain loop takes its next batch.
Drain ==
  /\ StartDrain
  /\ AfterDrain({})
  /\ loaded' = [i \in DOMAIN batch' |-> NotRead]
  /\ raced' = raced \cup DeletedAmongOthers(batch')
  /\ UNCHANGED <<content, index, startup, scan, manual>>

\* readAndChunkFile() on behalf of a handler.
HandlerReads(i) ==
  /\ Running(i)
  /\ batch[i].type # "deleted"
  /\ loaded[i] = NotRead
  /\ disk[batch[i].file] # Absent
  /\ loaded' = [loaded EXCEPT ![i] = <<disk[batch[i].file]>>]
  /\ UNCHANGED <<vars, content, index, startup, scan, recovery, manual, runtimeHistory>>

\* A file that is gone rejects its handler with ENOENT, which drain() skips.
HandlerFindsNothing(i) ==
  /\ SettleHandled(i)
  /\ batch[i].type # "deleted"
  /\ loaded[i] = NotRead
  /\ disk[batch[i].file] = Absent
  /\ loaded' = RemoveAt(loaded, i)
  /\ UNCHANGED <<content, index, startup, scan, recovery, manual, runtimeHistory>>

\* The last stage of processEventWindow(), and handleDeleteEvent().
HandlerWrites(i) ==
  /\ SettleHandled(i)
  /\ LET f == batch[i].file
     IN  /\ batch[i].type = "deleted" \/ loaded[i] # NotRead
         /\ index' = [index EXCEPT ![f] =
                        IF batch[i].type = "deleted" THEN Absent ELSE loaded[i][1]]
         /\ raced' = raced \cup MeetsScan(f)
  /\ loaded' = RemoveAt(loaded, i)
  /\ UNCHANGED <<content, startup, scan, recovery, manual, lost>>

\* A storage error rejects the handler.
HandlerFails(i) ==
  /\ SettleRejected(i)
  /\ loaded' = RemoveAt(loaded, i)
  /\ UNCHANGED <<content, index, startup, scan, recovery, manual, runtimeHistory>>

FinishDrain ==
  /\ FinishWatcherPhase
  /\ AfterDrain(FilesIn(SubSeq(rejected, Requeued(Len(rejected)) + 1, Len(rejected))))
  /\ loaded' = <<>>
  /\ UNCHANGED <<content, index, startup, scan, manual, raced>>

-----------------------------------------------------------------------------
\* reindex() takes the mutex; tryAcquire() fails when another one holds it.
Acquire(by, full) ==
  /\ scan.step = "idle"
  /\ scan' = [Idle EXCEPT !.step = "list", !.by = by, !.full = full]

\* initialize() runs again when a tool calls it a second time.
MutantInitialize ==
  /\ startup \in {"new", "done"}
  /\ IF StartsIndexed
     THEN startup' = "done" /\ UNCHANGED <<vars, scan>>
     ELSE startup' = "scanning" /\ EnterPostScanMode /\ Acquire("startup", TRUE)
  /\ UNCHANGED <<content, index, loaded, recovery, manual, runtimeHistory>>

\* initialize(): without a completed index it enters post-scan mode, starts the
\* watcher and the startup reindex.
Initialize ==
  /\ startup = "new"
  /\ IF StartsIndexed
     THEN startup' = "done" /\ UNCHANGED <<vars, scan>>
     ELSE startup' = "scanning" /\ EnterPostScanMode /\ Acquire("startup", TRUE)
  /\ UNCHANGED <<content, index, loaded, recovery, manual, runtimeHistory>>

\* An attempt of triggerFullScan().
RecoveryScans ==
  /\ recovery > 0
  /\ Acquire("recovery", TRUE)
  /\ UNCHANGED <<vars, content, index, loaded, startup, recovery, manual, runtimeHistory>>

\* An attempt that finds the mutex taken counts like one that fails.
RecoverySkipped ==
  /\ recovery > 0
  /\ scan.step # "idle"
  /\ scan.by # "recovery"
  /\ recovery' = recovery - 1
  /\ UNCHANGED <<vars, content, index, loaded, startup, scan, manual, runtimeHistory>>

\* The reindex tool; tools wait for initialize().
ManualReindex(full) ==
  /\ startup # "new"
  /\ manual < MaxManual
  /\ manual' = manual + 1
  /\ Acquire("manual", full)
  /\ UNCHANGED <<vars, content, index, loaded, startup, recovery, runtimeHistory>>

\* DirectoryScanner.scan(): every file that is there is "added".
ScanLists ==
  /\ scan.step = "list"
  /\ scan' = [scan EXCEPT !.step = "read", !.todo = Present]
  /\ UNCHANGED <<vars, content, index, loaded, startup, recovery, manual, runtimeHistory>>

ScanReads(f) ==
  /\ scan.step = "read"
  /\ f \in scan.todo
  /\ scan.content[f] = Absent
  /\ disk[f] # Absent
  /\ scan' = [scan EXCEPT !.content[f] = disk[f]]
  /\ UNCHANGED <<vars, content, index, loaded, startup, recovery, manual, runtimeHistory>>

\* A drop is made up for when the scan indexes what the file holds now, and no
\* event that came before the drop undoes it.
ScanWrites(f) ==
  /\ scan.step = "read"
  /\ f \in scan.todo
  /\ \A g \in scan.todo : scan.content[g] # Absent
  /\ index' = [index EXCEPT ![f] = scan.content[f]]
  /\ scan' = [scan EXCEPT !.todo = @ \ {f}, !.content[f] = Absent]
  /\ raced' = IF f \in Handling THEN raced \cup {f} ELSE raced
  /\ lost' = IF scan.content[f] = disk[f] /\ f \notin ToBeDeleted THEN lost \ {f} ELSE lost
  /\ UNCHANGED <<vars, content, loaded, startup, recovery, manual>>

\* Only a full reindex that succeeded tells the queue.
MutantRelease ==
  /\ scan' = Idle
  /\ IF scan.full /\ state = "full_scan" /\ scan.todo = {}
     THEN MarkFullScanComplete ELSE UNCHANGED vars
  /\ startup' = IF scan.by = "startup" THEN "scanned" ELSE startup
  /\ UNCHANGED <<content, index, loaded, manual, raced>>

\* reindex() ends: a full one tells the queue, whether it succeeded or not.
Release ==
  /\ scan' = Idle
  /\ IF scan.full /\ state = "full_scan" THEN MarkFullScanComplete ELSE UNCHANGED vars
  /\ startup' = IF scan.by = "startup" THEN "scanned" ELSE startup
  /\ UNCHANGED <<content, index, loaded, manual, raced>>

ScanCompletes ==
  /\ scan.step = "read"
  /\ scan.todo = {}
  /\ recovery' = IF scan.by = "recovery" THEN 0 ELSE recovery
  /\ UNCHANGED lost
  /\ Release

\* A listed file that is gone when it is read fails the whole reindex.  The
\* startup index is not tried again.
ScanFails ==
  /\ scan.step = "read"
  /\ \E f \in scan.todo : scan.content[f] = Absent /\ disk[f] = Absent
  /\ recovery' = IF scan.by = "recovery" THEN recovery - 1 ELSE recovery
  /\ lost' = IF scan.by = "startup" THEN lost \cup Files ELSE lost
  /\ Release

\* What happened during the startup reindex is forwarded after it.
StartupDrains ==
  /\ startup = "scanned"
  /\ DrainPostScanQueue
  /\ startup' = "done"
  /\ UNCHANGED <<content, index, loaded, scan, recovery, manual, runtimeHistory>>

-----------------------------------------------------------------------------
\* At startup the project may hold files already; a completed index matches
\* them.
RuntimeInit ==
  /\ Init
  /\ disk \in [Files -> {0, 1}]
  /\ index = IF StartsIndexed THEN disk ELSE [f \in Files |-> Absent]
  /\ changes = 1
  /\ loaded = <<>>
  /\ startup = "new"
  /\ scan = Idle
  /\ recovery = 0
  /\ manual = 0
  /\ lost = {}
  /\ raced = {}

FileChanges == \E f \in Files, type \in ReportedTypes : Change(f, type)
HandlerSteps ==
  \E i \in 1 .. Concurrency :
    HandlerReads(i) \/ HandlerFindsNothing(i) \/ HandlerWrites(i)
HandlersFail == \E i \in 1 .. Concurrency : HandlerFails(i)
ScanSteps ==
  \/ ScanLists
  \/ \E f \in Files : ScanReads(f) \/ ScanWrites(f)
  \/ ScanCompletes
  \/ ScanFails
UserReindexes == \E full \in BOOLEAN : ManualReindex(full)

RuntimeNext ==
  \/ FileChanges
  \/ Flush
  \/ Drain
  \/ HandlerSteps
  \/ HandlersFail
  \/ FinishDrain
  \/ Initialize
  \/ RecoveryScans
  \/ RecoverySkipped
  \/ UserReindexes
  \/ ScanSteps
  \/ StartupDrains

RuntimeSpec == RuntimeInit /\ [][RuntimeNext]_allVars

\* The drain loop and triggerFullScan() go on until the runtime closes,
\* handlers and scans end, timers fire.
RuntimeFairness ==
  /\ WF_allVars(Initialize)
  /\ WF_allVars(Flush)
  /\ WF_allVars(Drain)
  /\ WF_allVars(HandlerSteps)
  /\ WF_allVars(FinishDrain)
  /\ WF_allVars(RecoveryScans \/ RecoverySkipped)
  /\ WF_allVars(ScanSteps)
  /\ WF_allVars(StartupDrains)

FairRuntimeSpec == RuntimeSpec /\ RuntimeFairness

-----------------------------------------------------------------------------
RuntimeTypeOK ==
  /\ TypeOK
  /\ disk \in [Files -> Contents]
  /\ index \in [Files -> Contents]
  /\ changes \in Contents
  /\ DOMAIN loaded = DOMAIN batch
  /\ startup \in {"new", "scanning", "scanned", "done"}
  /\ scan \in [step : {"idle", "list", "read"},
               by : {"none", "startup", "recovery", "manual"},
               full : BOOLEAN, todo : SUBSET Files, content : [Files -> Contents]]
  /\ recovery \in 0 .. ScanAttempts
  /\ manual \in 0 .. MaxManual
  /\ lost \subseteq Files
  /\ raced \subseteq Files

\* Nothing is under way: no event is held and no scan runs or is owed.
Quiescent ==
  /\ Size = 0
  /\ phase = "idle"
  /\ state = "normal"
  /\ ~postScanActive
  /\ startup = "done"
  /\ scan.step = "idle"
  /\ recovery = 0

\* When the runtime is at rest, the index holds what the disk holds of every
\* file, but for those a change of which was dropped and never scanned and
\* those two unordered writers met on.
StaleOnlyWhenExcused ==
  Quiescent => \A f \in Files : index[f] = disk[f] \/ f \in lost \cup raced

\* triggerFullScan() has no attempt left, and a reindex that is not full holds
\* the mutex: its end tells the queue nothing.
OutOfAttempts == state = "full_scan" /\ recovery = 0 /\ scan.step # "idle" /\ ~scan.full

\* A queue that waits for a full scan accepts events again in the end, though
\* scans may fail, and though a full reindex of the startup or of the user may
\* use up the attempts; unless one that is not full uses them up.
FullScanEnds == (state = "full_scan" ~> state = "normal") \/ <>OutOfAttempts

\* Once files have stopped changing the runtime comes to rest, whatever was
\* dropped, thrown away or read again until then; unless its full scan never
\* comes.
ComesToRest == (changes = MaxChanges ~> Quiescent) \/ <>OutOfAttempts

\* The runtime uses the queue as EventQueue's Spec says: post-scan mode is
\* entered while it is empty and no handler runs, and drains do not overlap.
QueueUsedAsSpecified == Spec
=============================================================================
