---------------------------- MODULE DeadLetterQueue ----------------------------
(***************************************************************************)
(* The dead-letter queue (src/indexer/dead-letter-queue.ts): files whose   *)
(* embedding or structured parsing failed, kept in memory and in SQLite,   *)
(* and the sweep that tries them again every minute, together with the     *)
(* calls the pipeline makes of it (src/indexer/pipeline.ts).               *)
(*                                                                         *)
(* A content is the number of the change that wrote it and stands for its  *)
(* hash.  An entry's id also is its place in the order of createdAt.  The  *)
(* sections under the completion lock are one step each: what they write   *)
(* to the database and to memory is read outside the lock only by readers  *)
(* that could as well have come before.  What such a section is about to   *)
(* remove was chosen in an earlier step, without the lock.                 *)
(*                                                                         *)
(* The sweep counts a failed attempt when it stores the entry; the code    *)
(* counts it on the object first, while it waits for the lock.             *)
(***************************************************************************)
EXTENDS Naturals, FiniteSets, FiniteSetsExt

CONSTANTS
  Files,                \* paths of the project
  MaxEntries,           \* maxEntries
  MaxRecoveryAttempts,  \* maxRecoveryAttempts
  HashesMayCome,        \* whether events may carry the hash of their content
  MayExpire,            \* whether entries may outlive ttlMs
  MaxChanges,           \* bound: changes of files
  MaxIds,               \* bound: entries created
  MaxCrashes            \* bound: crashes of the process

ASSUME DlqCapacityAssumption == MaxEntries \in Nat \ {0}
ASSUME DlqAttemptsAssumption == MaxRecoveryAttempts \in Nat \ {0}
ASSUME DlqSwitchesAssumption == HashesMayCome \in BOOLEAN /\ MayExpire \in BOOLEAN
ASSUME DlqBoundsAssumption ==
  MaxChanges \in Nat \ {0} /\ MaxIds \in Nat /\ MaxCrashes \in Nat

VARIABLES
  disk,       \* content of every file, Absent when there is none
  index,      \* content its vectors were made from
  changes,    \* changes so far
  owed,       \* files with a change whose event has not been handled
  store,      \* rows of dead_letter_queue
  entries,    \* the entries in memory
  loaded,
  nextId,     \* ids are given out in order
  lock,       \* whether the completion lock is held over several steps
  sweep,      \* recoverySweep()
  removing,   \* for every file the ids removeByFilePath() is about to remove
  crashes,
  givenUp,    \* history: files dropped by a limit, or forgotten in a crash
  raced,      \* history: files a handler met the sweep on
  unprocessed \* history: files whose entry, without a hash, the sweep took for stale

files == <<disk, changes, owed>>
queue == <<store, entries, loaded, nextId>>
dlqHistory == <<givenUp, raced, unprocessed>>
dlqVars ==
  <<files, index, queue, lock, sweep, removing, crashes, dlqHistory>>

-----------------------------------------------------------------------------
Absent == 0
Contents == 0 .. MaxChanges
Ids == 1 .. MaxIds
Entry ==
  [id : Ids, file : Files, hash : Contents, recoveryAttempts : 0 .. MaxRecoveryAttempts - 1]

\* The pipeline hands on event.contentHash ?? ''. The field is optional: neither
\* the watcher nor the scan fills it in, and other callers of the queue may.
NoHash == 0
EventHashes(f) == {NoHash} \cup (IF HashesMayCome THEN {disk[f]} ELSE {})

NoEntry == [id |-> 0, file |-> "none", hash |-> NoHash, recoveryAttempts |-> 0]
Asleep == [step |-> "idle", ids |-> {}, todo |-> {}, cur |-> NoEntry, content |-> Absent]

Present == {f \in Files : disk[f] # Absent}
FilesOf(set) == {e.file : e \in set}
WithIds(set, ids) == {e \in set : e.id \in ids}

\* trimToCapacity() keeps the entries created last.
Newest(set) ==
  {e \in set : Cardinality({o \in set : o.id > e.id}) < MaxEntries}

\* Files of which the sweep holds an entry.
Swept ==
  FilesOf(sweep.todo) \cup (IF sweep.step \in {"idle", "next"} THEN {} ELSE {sweep.cur.file})

\* A handler leaves its mark on a file that the sweep or a removal works on.
MeetsOthers(f) ==
  IF f \in Swept \/ removing[f] # {} THEN raced \cup {f} ELSE raced \ {f}

\* A file whose vectors are not those of its content, with no event to come.
Unresolved == {f \in Present : index[f] # disk[f]} \ owed

-----------------------------------------------------------------------------
\* ensureLoaded(), the first step of every method.
Load ==
  /\ ~loaded
  /\ loaded' = TRUE
  /\ entries' = Newest(store)
  /\ store' = Newest(store)
  /\ givenUp' = givenUp \cup FilesOf(store \ Newest(store))
  /\ UNCHANGED <<files, index, nextId, lock, sweep, removing, crashes, raced, unprocessed>>

\* Rows and entries after e was upserted.
Upserted(set, e) == {o \in set : o.id # e.id} \cup {e}

\* What enqueue() stores: the file's entry keeps its id, hence its age, and the
\* count of its recovery attempts.
Renewed(f, hash) ==
  IF f \in FilesOf(entries)
  THEN {[e EXCEPT !.hash = hash] : e \in {o \in entries : o.file = f}}
  ELSE {[id |-> nextId, file |-> f, hash |-> hash, recoveryAttempts |-> 0]}

\* enqueue(), under the lock; it trims the queue.
Enqueue(f, hash) ==
  /\ loaded
  /\ ~lock
  /\ \E e \in Renewed(f, hash) :
       /\ e.id <= MaxIds
       /\ LET out == Upserted(entries, e) \ Newest(Upserted(entries, e))
          IN  /\ entries' = Newest(Upserted(entries, e))
              /\ store' = Upserted(store, e) \ out
              /\ givenUp' = (givenUp \ {f}) \cup FilesOf(out)
       /\ nextId' = IF e.id = nextId THEN nextId + 1 ELSE nextId
  /\ unprocessed' = unprocessed \ {f}
  /\ UNCHANGED <<index, loaded, lock, removing, crashes>>

\* The entries leave the database only.
MutantRemoveEntries(ids) ==
  /\ ~lock
  /\ store' = store \ WithIds(store, ids)
  /\ UNCHANGED <<entries, loaded, nextId>>

\* removeEntries(), under the lock.
RemoveEntries(ids) ==
  /\ ~lock
  /\ store' = store \ WithIds(store, ids)
  /\ entries' = entries \ WithIds(entries, ids)
  /\ UNCHANGED <<loaded, nextId>>

-----------------------------------------------------------------------------
\* The project and the handlers of the pipeline.

Change(f) ==
  /\ changes < MaxChanges
  /\ changes' = changes + 1
  /\ \E c \in {Absent, changes + 1} \ {disk[f]} : disk' = [disk EXCEPT ![f] = c]
  /\ owed' = owed \cup {f}
  /\ givenUp' = givenUp \ {f}
  /\ raced' = raced \ {f}
  /\ unprocessed' = unprocessed \ {f}
  /\ UNCHANGED <<index, queue, lock, sweep, removing, crashes>>

\* processEventWindow() of one file.
HandlerIndexes(f) ==
  /\ f \in owed \cap Present
  /\ index' = [index EXCEPT ![f] = disk[f]]
  /\ owed' = owed \ {f}
  /\ givenUp' = givenUp \ {f}
  /\ unprocessed' = unprocessed \ {f}
  /\ raced' = MeetsOthers(f)
  /\ UNCHANGED <<disk, changes, queue, lock, sweep, removing, crashes>>

\* The embedding provider gives up, or the parser does.
HandlerFails(f) ==
  /\ f \in owed \cap Present
  /\ \E hash \in EventHashes(f) : Enqueue(f, hash)
  /\ owed' = owed \ {f}
  /\ raced' = MeetsOthers(f)
  /\ UNCHANGED <<disk, changes, sweep>>

\* handleDeleteEvent(): removeByFilePath() looks for the file's entries.
HandlerDeletes(f) ==
  /\ f \in owed \ Present
  /\ loaded
  /\ removing[f] = {}
  /\ index' = [index EXCEPT ![f] = Absent]
  /\ removing' = [removing EXCEPT ![f] = {e.id : e \in {o \in entries : o.file = f}}]
  /\ owed' = owed \ {f}
  /\ UNCHANGED <<disk, changes, queue, lock, sweep, crashes, dlqHistory>>

\* It removes them once it has the lock.
RemovalEnds(f) ==
  /\ removing[f] # {}
  /\ RemoveEntries(removing[f])
  /\ removing' = [removing EXCEPT ![f] = {}]
  /\ UNCHANGED <<files, index, lock, sweep, crashes, dlqHistory>>

\* recordCompletion() holds the lock over several steps.
CompletionStarts ==
  /\ ~lock
  /\ lock' = TRUE
  /\ UNCHANGED <<files, index, queue, sweep, removing, crashes, dlqHistory>>

CompletionEnds ==
  /\ lock
  /\ lock' = FALSE
  /\ UNCHANGED <<files, index, queue, sweep, removing, crashes, dlqHistory>>

-----------------------------------------------------------------------------
\* recoverySweep()

\* purgeExpired(): what has expired was created before what has not.
StartSweep ==
  /\ sweep.step = "idle"
  /\ loaded
  /\ \E last \in IF MayExpire THEN 0 .. MaxIds ELSE {0} :
       LET ids == {e.id : e \in {o \in entries : o.id <= last}}
       IN  sweep' = [Asleep EXCEPT !.step = IF ids = {} THEN "health" ELSE "purge",
                                   !.ids = ids]
  /\ UNCHANGED <<files, index, queue, lock, removing, crashes, dlqHistory>>

PurgeExpired ==
  /\ sweep.step = "purge"
  /\ RemoveEntries(sweep.ids)
  /\ givenUp' = givenUp \cup FilesOf(WithIds(entries, sweep.ids))
  /\ sweep' = [Asleep EXCEPT !.step = "health"]
  /\ UNCHANGED <<files, index, lock, removing, crashes, raced, unprocessed>>

ProviderHealthy ==
  /\ sweep.step = "health"
  /\ sweep' = [Asleep EXCEPT !.step = "next", !.todo = entries]
  /\ UNCHANGED <<files, index, queue, lock, removing, crashes, dlqHistory>>

ProviderDown ==
  /\ sweep.step = "health"
  /\ sweep' = Asleep
  /\ UNCHANGED <<files, index, queue, lock, removing, crashes, dlqHistory>>

NextEntry ==
  /\ sweep.step = "next"
  /\ \/ /\ sweep.todo = {}
        /\ sweep' = Asleep
     \/ \E e \in sweep.todo :
          sweep' = [sweep EXCEPT !.step = "hash", !.todo = @ \ {e}, !.cur = e]
  /\ UNCHANGED <<files, index, queue, lock, removing, crashes, dlqHistory>>

GoTo(step) == sweep' = [sweep EXCEPT !.step = step]

\* An entry of another hash than the file's is removed, like that of a file
\* that is gone; the hash may also fail to be computed.
CompareHash ==
  /\ sweep.step = "hash"
  /\ \/ GoTo(IF disk[sweep.cur.file] # Absent /\ disk[sweep.cur.file] = sweep.cur.hash
             THEN "read" ELSE "remove")
     \/ disk[sweep.cur.file] # Absent /\ GoTo("retry")
  /\ UNCHANGED <<files, index, queue, lock, removing, crashes, dlqHistory>>

\* reprocess() reads the file ...
ReprocessReads ==
  /\ sweep.step = "read"
  /\ IF disk[sweep.cur.file] = Absent
     THEN GoTo("remove")
     ELSE sweep' = [sweep EXCEPT !.step = "embed", !.content = disk[sweep.cur.file]]
  /\ UNCHANGED <<files, index, queue, lock, removing, crashes, dlqHistory>>

\* ... and indexes what it has read, ...
ReprocessIndexes ==
  /\ sweep.step = "embed"
  /\ index' = [index EXCEPT ![sweep.cur.file] = sweep.content]
  /\ sweep' = [sweep EXCEPT !.step = "remove", !.content = Absent]
  /\ UNCHANGED <<files, queue, lock, removing, crashes, dlqHistory>>

\* A failure that the sweep takes for a success.
MutantReprocessFails ==
  /\ sweep.step = "embed"
  /\ Enqueue(sweep.cur.file, sweep.cur.hash)
  /\ sweep' = [sweep EXCEPT !.step = "remove", !.content = Absent]
  /\ UNCHANGED <<files, raced>>

\* ... or it fails, which puts the file into the queue with the old hash.
ReprocessFails ==
  /\ sweep.step = "embed"
  /\ Enqueue(sweep.cur.file, sweep.cur.hash)
  /\ sweep' = [sweep EXCEPT !.step = "retry", !.content = Absent]
  /\ UNCHANGED <<files, raced>>

\* An entry that never had a hash differs from every file.
SweepRemoves ==
  /\ sweep.step = "remove"
  /\ RemoveEntries({sweep.cur.id})
  /\ unprocessed' = IF sweep.cur.hash = NoHash THEN unprocessed \cup {sweep.cur.file} ELSE unprocessed
  /\ GoTo("next")
  /\ UNCHANGED <<files, index, lock, removing, crashes, givenUp, raced>>

\* An attempt that is not counted.
MutantAttempted == sweep.cur

Attempted == [sweep.cur EXCEPT !.recoveryAttempts = @ + 1]

\* The entry is put back, whatever became of it meanwhile.
PutBack ==
  /\ sweep.step = "retry"
  /\ Attempted.recoveryAttempts < MaxRecoveryAttempts
  /\ ~lock
  /\ store' = Upserted(store, Attempted)
  /\ entries' = Upserted(entries, Attempted)
  /\ GoTo("next")
  /\ UNCHANGED <<files, index, loaded, nextId, lock, removing, crashes, dlqHistory>>

Abandon ==
  /\ sweep.step = "retry"
  /\ Attempted.recoveryAttempts >= MaxRecoveryAttempts
  /\ RemoveEntries({sweep.cur.id})
  /\ givenUp' = givenUp \cup {sweep.cur.file}
  /\ GoTo("next")
  /\ UNCHANGED <<files, index, lock, removing, crashes, raced, unprocessed>>

-----------------------------------------------------------------------------
\* The process dies and starts again; events that wait are lost with it.
Restarted ==
  /\ crashes < MaxCrashes
  /\ crashes' = crashes + 1
  /\ loaded' = FALSE
  /\ entries' = {}
  /\ lock' = FALSE
  /\ sweep' = Asleep
  /\ removing' = [f \in Files |-> {}]
  /\ owed' = {}
  /\ givenUp' = givenUp \cup owed
  /\ UNCHANGED <<disk, index, changes, store, nextId, raced, unprocessed>>

QueueInit ==
  /\ disk \in [Files -> {Absent, 1}]
  /\ index \in [Files -> {Absent}]
  /\ changes = 1
  /\ store = {}
  /\ entries = {}
  /\ loaded = FALSE
  /\ nextId = 1
  /\ lock = FALSE
  /\ sweep = Asleep
  /\ removing = [f \in Files |-> {}]
  /\ crashes = 0
  /\ givenUp = {}
  /\ raced = {}
  /\ unprocessed = {}

DlqInit == QueueInit /\ owed = Present

FileChanges == \E f \in Files : Change(f)
HandlerSucceeds == \E f \in Files : HandlerIndexes(f) \/ HandlerDeletes(f)
HandlerGivesUp == \E f \in Files : HandlerFails(f)
RemovalsEnd == \E f \in Files : RemovalEnds(f)

Reprocesses ==
  \/ ReprocessReads
  \/ ReprocessIndexes
  \/ ReprocessFails

SweepGoesOn ==
  \/ PurgeExpired
  \/ ProviderHealthy
  \/ NextEntry
  \/ CompareHash
  \/ SweepRemoves
  \/ PutBack
  \/ Abandon

SweepSteps == StartSweep \/ Reprocesses \/ SweepGoesOn

DlqNext ==
  \/ Load
  \/ FileChanges
  \/ HandlerSucceeds
  \/ HandlerGivesUp
  \/ RemovalsEnd
  \/ CompletionStarts
  \/ CompletionEnds
  \/ SweepSteps
  \/ ProviderDown
  \/ Restarted

DlqSpec == DlqInit /\ [][DlqNext]_dlqVars

\* The interval of startRecoveryLoop() never ends, and async-mutex serves who
\* waits in turn.  The provider is found healthy again and again.
DlqFairness ==
  /\ WF_dlqVars(Load)
  /\ WF_dlqVars(CompletionEnds)
  /\ SF_dlqVars(SweepSteps)
  /\ SF_dlqVars(ProviderHealthy)

FairDlqSpec == DlqSpec /\ DlqFairness

-----------------------------------------------------------------------------
SweepSteppers == {"idle", "purge", "health", "next", "hash", "read", "embed", "remove", "retry"}

DlqTypeOK ==
  /\ disk \in [Files -> Contents]
  /\ index \in [Files -> Contents]
  /\ changes \in Contents
  /\ owed \subseteq Files
  /\ store \subseteq Entry
  /\ entries \subseteq Entry
  /\ loaded \in BOOLEAN
  /\ nextId \in 1 .. MaxIds + 1
  /\ lock \in BOOLEAN
  /\ sweep \in [step : SweepSteppers, ids : SUBSET Ids, todo : SUBSET Entry,
                cur : Entry \cup {NoEntry}, content : Contents]
  /\ removing \in [Files -> SUBSET Ids]
  /\ crashes \in 0 .. MaxCrashes
  /\ givenUp \subseteq Files
  /\ raced \subseteq Files
  /\ unprocessed \subseteq Files

\* What memory holds is what the database holds, through trims, removals by
\* stale ids and the sweep's put-backs: a restart changes nothing.
MemoryMatchesStore == loaded => entries = store

\* A file whose vectors are out of date, with no event to come, is in the
\* queue, unless a limit dropped it, a handler met the sweep or a removal on it,
\* or the sweep took out its entry for want of a hash: no failure is forgotten
\* in another way, and none of a file whose event had a hash.
NoFileForgotten == Unresolved \subseteq FilesOf(store) \cup givenUp \cup raced \cup unprocessed

\* No entry stays for ever: it is recovered, removed or abandoned.
EntriesSettle ==
  \A i \in Ids : (\E e \in store : e.id = i) ~> ~(\E e \in store : e.id = i)
=============================================================================
