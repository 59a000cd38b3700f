------------------------ MODULE IndexCompletion_proofs ------------------------
(***************************************************************************)
(* Theorems about the dead-letter queue and about the completion of an     *)
(* index that rests on it, for every number of files, every capacity and   *)
(* every limit of attempts: memory and database agree, the state is well   *)
(* typed, no failure is forgotten, and an index that counts as complete    *)
(* accounts for all files.                                                 *)
(***************************************************************************)
EXTENDS IndexCompletion, TLAPS

-----------------------------------------------------------------------------
(***************************************************************************)
(* Memory and database.                                                    *)
(***************************************************************************)

\* Until the queue is loaded nobody is about to change it.
QuietUntilLoaded ==
  ~loaded => sweep.step = "idle" /\ \A f \in Files : removing[f] = {}

MatchInv == MemoryMatchesStore /\ QuietUntilLoaded

LEMMA MatchInitially == DlqInit => MatchInv
  BY DEF DlqInit, QueueInit, Asleep, MatchInv, MemoryMatchesStore, QuietUntilLoaded

\* What enqueue() stores, trims and gives up is the same in both.
LEMMA EnqueueMatches ==
  ASSUME MatchInv, NEW f, NEW hash, Enqueue(f, hash)
  PROVE  MatchInv'
<1> USE DEF MatchInv, MemoryMatchesStore, QuietUntilLoaded
<1>1. loaded /\ loaded' /\ entries = store
  BY DEF Enqueue
<1>2. PICK e \in Renewed(f, hash) :
        /\ entries' = Newest(Upserted(entries, e))
        /\ store' = Upserted(store, e) \ (Upserted(entries, e) \ Newest(Upserted(entries, e)))
  BY Zenon DEF Enqueue
<1>3. Newest(Upserted(entries, e)) \subseteq Upserted(entries, e)
  BY DEF Newest
<1> QED BY <1>1, <1>2, <1>3

\* An id that is removed is removed from both.
LEMMA RemovalMatches ==
  ASSUME MatchInv, loaded, NEW ids, RemoveEntries(ids)
  PROVE  MatchInv'
  BY DEF MatchInv, MemoryMatchesStore, QuietUntilLoaded, RemoveEntries

LEMMA MatchHandlers ==
  ASSUME MatchInv,
         \/ Load \/ FileChanges \/ HandlerSucceeds \/ HandlerGivesUp \/ RemovalsEnd
         \/ CompletionStarts \/ CompletionEnds \/ Restarted
  PROVE  MatchInv'
<1> USE DEF MatchInv, MemoryMatchesStore, QuietUntilLoaded, queue
<1>1. CASE Load
  BY <1>1 DEF Load
<1>2. CASE FileChanges
  BY <1>2 DEF FileChanges, Change
<1>3. ASSUME NEW f \in Files, HandlerIndexes(f) \/ HandlerDeletes(f) PROVE MatchInv'
  BY <1>3 DEF HandlerIndexes, HandlerDeletes
<1>4. ASSUME NEW f \in Files, HandlerFails(f) PROVE MatchInv'
  BY <1>4, EnqueueMatches DEF HandlerFails
<1>5. ASSUME NEW f \in Files, RemovalEnds(f) PROVE MatchInv'
  BY <1>5, RemovalMatches DEF RemovalEnds
<1>6. CASE CompletionStarts \/ CompletionEnds
  BY <1>6 DEF CompletionStarts, CompletionEnds
<1>7. CASE Restarted
  BY <1>7 DEF Restarted, Asleep
<1> QED BY <1>1, <1>2, <1>3, <1>4, <1>5, <1>6, <1>7
        DEF HandlerSucceeds, HandlerGivesUp, RemovalsEnd

LEMMA MatchSweep ==
  ASSUME MatchInv, SweepSteps \/ ProviderDown
  PROVE  MatchInv'
<1>1. loaded
  BY DEF MatchInv, QuietUntilLoaded, SweepSteps, Reprocesses, SweepGoesOn, StartSweep,
         ReprocessReads, ReprocessIndexes, ReprocessFails, PurgeExpired, ProviderHealthy,
         NextEntry, CompareHash, SweepRemoves, PutBack, Abandon, ProviderDown
<1>2. CASE ReprocessFails
  BY <1>2, EnqueueMatches DEF ReprocessFails
<1>3. CASE PurgeExpired \/ SweepRemoves \/ Abandon
  BY <1>1, <1>3, RemovalMatches DEF PurgeExpired, SweepRemoves, Abandon
<1>4. CASE PutBack
  BY <1>1, <1>4 DEF PutBack, MatchInv, MemoryMatchesStore, QuietUntilLoaded
<1>5. CASE \/ StartSweep \/ ReprocessReads \/ ReprocessIndexes \/ ProviderHealthy
           \/ NextEntry \/ CompareHash \/ ProviderDown
  BY <1>1, <1>5 DEF StartSweep, ReprocessReads, ReprocessIndexes, ProviderHealthy, NextEntry,
     CompareHash, ProviderDown, queue, MatchInv, MemoryMatchesStore, QuietUntilLoaded
<1> QED BY <1>2, <1>3, <1>4, <1>5 DEF SweepSteps, Reprocesses, SweepGoesOn

LEMMA MatchStep == MatchInv /\ [DlqNext]_dlqVars => MatchInv'
<1> SUFFICES ASSUME MatchInv, [DlqNext]_dlqVars PROVE MatchInv'
  OBVIOUS
<1>1. CASE DlqNext
  BY <1>1, MatchHandlers, MatchSweep DEF DlqNext
<1>2. CASE UNCHANGED dlqVars
  BY <1>2 DEF dlqVars, queue, MatchInv, MemoryMatchesStore, QuietUntilLoaded
<1> QED BY <1>1, <1>2

\* Once it is loaded, what memory holds is what the database holds (enqueue(),
\* removeEntries(), the sweep and its stale ids): a restart forgets no entry.
THEOREM MemoryAlwaysMatches == DlqSpec => []MemoryMatchesStore
<1>1. MatchInv => MemoryMatchesStore
  BY DEF MatchInv
<1> QED BY MatchInitially, MatchStep, <1>1, PTL DEF DlqSpec

-----------------------------------------------------------------------------
(***************************************************************************)
(* Types.                                                                  *)
(***************************************************************************)

USE DlqCapacityAssumption, DlqAttemptsAssumption, DlqSwitchesAssumption, DlqBoundsAssumption

\* While an entry is tried again there is one.
EntryInHand ==
  sweep.step \in {"hash", "read", "embed", "remove", "retry"} => sweep.cur \in Entry

DlqTyped == DlqTypeOK /\ EntryInHand

SweepType ==
  [step : SweepSteppers, ids : SUBSET Ids, todo : SUBSET Entry,
   cur : Entry \cup {NoEntry}, content : Contents]

LEMMA AsleepTyped == Asleep \in SweepType /\ Asleep.step = "idle"
  BY DEF SweepType, Asleep, SweepSteppers, Contents, Absent

LEMMA TypedInitially == DlqInit => DlqTyped
<1> SUFFICES ASSUME DlqInit PROVE DlqTyped
  OBVIOUS
<1>1. disk \in [Files -> Contents] /\ index \in [Files -> Contents] /\ changes \in Contents
  BY DEF DlqInit, QueueInit, Contents, Absent
<1>2. nextId \in 1 .. MaxIds + 1 /\ crashes \in 0 .. MaxCrashes
  BY DEF DlqInit, QueueInit
<1> QED BY <1>1, <1>2, AsleepTyped
        DEF DlqInit, QueueInit, Present, DlqTyped, DlqTypeOK, EntryInHand, SweepType

LEMMA FilesTyped ==
  ASSUME NEW set, set \subseteq Entry
  PROVE  FilesOf(set) \subseteq Files
  BY DEF FilesOf, Entry

LEMMA HashesTyped ==
  ASSUME DlqTypeOK, NEW f \in Files
  PROVE  EventHashes(f) \subseteq Contents
  BY DEF EventHashes, DlqTypeOK, NoHash, Contents

\* What is in memory and in the database, and what is trimmed.
LEMMA EnqueueTyped ==
  ASSUME DlqTypeOK, NEW f \in Files, NEW hash \in Contents, Enqueue(f, hash)
  PROVE  /\ store' \subseteq Entry /\ entries' \subseteq Entry
         /\ nextId' \in 1 .. MaxIds + 1
         /\ givenUp' \subseteq Files /\ unprocessed' \subseteq Files
<1>1. store \subseteq Entry /\ entries \subseteq Entry /\ nextId \in 1 .. MaxIds + 1
      /\ givenUp \subseteq Files
  BY DEF DlqTypeOK
<1>2. PICK e \in Renewed(f, hash) :
        /\ e.id <= MaxIds
        /\ entries' = Newest(Upserted(entries, e))
        /\ store' = Upserted(store, e) \ (Upserted(entries, e) \ Newest(Upserted(entries, e)))
        /\ givenUp' = (givenUp \ {f})
                       \cup FilesOf(Upserted(entries, e) \ Newest(Upserted(entries, e)))
        /\ nextId' = IF e.id = nextId THEN nextId + 1 ELSE nextId
  BY Zenon DEF Enqueue
<1>3. e \in Entry
  <2>1. CASE f \in FilesOf(entries)
    BY <1>1, <1>2, <2>1 DEF Renewed, Entry
  <2>2. CASE f \notin FilesOf(entries)
    <3>1. e = [id |-> nextId, file |-> f, hash |-> hash, recoveryAttempts |-> 0]
      BY <1>2, <2>2 DEF Renewed
    <3>2. nextId \in Ids /\ 0 \in 0 .. MaxRecoveryAttempts - 1
      BY <1>1, <1>2, <3>1 DEF Ids
    <3> QED BY <3>1, <3>2 DEF Entry
  <2> QED BY <2>1, <2>2
<1>4. Upserted(entries, e) \subseteq Entry /\ Upserted(store, e) \subseteq Entry
  BY <1>1, <1>3 DEF Upserted
<1>5. Newest(Upserted(entries, e)) \subseteq Entry
  BY <1>4 DEF Newest
<1>6. nextId' \in 1 .. MaxIds + 1
  BY <1>1, <1>2 
<1>7. givenUp' \subseteq Files
  BY <1>1, <1>2, <1>4, FilesTyped
<1>8. unprocessed' \subseteq Files
  BY DEF Enqueue, DlqTypeOK
<1> QED BY <1>2, <1>4, <1>5, <1>6, <1>7, <1>8

LEMMA RemovalTyped ==
  ASSUME DlqTypeOK, NEW ids, RemoveEntries(ids)
  PROVE  /\ store' \subseteq Entry /\ entries' \subseteq Entry
         /\ loaded' \in BOOLEAN /\ nextId' \in 1 .. MaxIds + 1
  BY DEF DlqTypeOK, RemoveEntries

LEMMA TypedHandlers ==
  ASSUME DlqTyped,
         \/ Load \/ FileChanges \/ HandlerSucceeds \/ HandlerGivesUp \/ RemovalsEnd
         \/ CompletionStarts \/ CompletionEnds \/ Restarted
  PROVE  DlqTyped'
<1> USE DEF DlqTyped, EntryInHand, queue, files, dlqHistory
<1>1. CASE Load
  <2>1. Newest(store) \subseteq store
    BY DEF Newest
  <2>2. givenUp' \subseteq Files
    BY <1>1, FilesTyped DEF Load, DlqTypeOK
  <2> QED BY <1>1, <2>1, <2>2 DEF Load, DlqTypeOK
<1>2. ASSUME NEW f \in Files, Change(f) PROVE DlqTyped'
  <2>1. changes' \in Contents
    BY <1>2 DEF Change, DlqTypeOK, Contents
  <2>2. disk' \in [Files -> Contents]
    BY <1>2, <2>1 DEF Change, DlqTypeOK, Contents, Absent
  <2> QED BY <1>2, <2>1, <2>2 DEF Change, DlqTypeOK
<1>3. ASSUME NEW f \in Files, HandlerIndexes(f) PROVE DlqTyped'
  <2>1. index' \in [Files -> Contents]
    BY <1>3 DEF HandlerIndexes, DlqTypeOK
  <2>2. raced' \subseteq Files
    BY <1>3 DEF HandlerIndexes, DlqTypeOK, MeetsOthers
  <2> QED BY <1>3, <2>1, <2>2 DEF HandlerIndexes, DlqTypeOK
<1>4. ASSUME NEW f \in Files, HandlerDeletes(f) PROVE DlqTyped'
  <2>1. index' \in [Files -> Contents]
    BY <1>4 DEF HandlerDeletes, DlqTypeOK, Contents, Absent
  <2>2. {e.id : e \in {o \in entries : o.file = f}} \in SUBSET Ids
    BY DEF DlqTypeOK, Entry
  <2>3. removing' \in [Files -> SUBSET Ids]
    BY <1>4, <2>2 DEF HandlerDeletes, DlqTypeOK
  <2> QED BY <1>4, <2>1, <2>3 DEF HandlerDeletes, DlqTypeOK
<1>5. ASSUME NEW f \in Files, HandlerFails(f) PROVE DlqTyped'
  <2>2. PICK hash \in EventHashes(f) : Enqueue(f, hash)
    BY <1>5 DEF HandlerFails
  <2>1. hash \in Contents
    BY HashesTyped
  <2>3. raced' \subseteq Files
    BY <1>5 DEF HandlerFails, DlqTypeOK, MeetsOthers
  <2>4. UNCHANGED <<disk, changes, sweep, index, loaded, lock, removing, crashes>>
        /\ owed' \subseteq owed
    BY <1>5 DEF HandlerFails, Enqueue
  <2> QED BY <2>1, <2>2, <2>3, <2>4, EnqueueTyped DEF DlqTypeOK
<1>6. ASSUME NEW f \in Files, RemovalEnds(f) PROVE DlqTyped'
  <2>1. RemoveEntries(removing[f])
    BY <1>6 DEF RemovalEnds
  <2>2. removing' \in [Files -> SUBSET Ids]
    BY <1>6 DEF RemovalEnds, DlqTypeOK
  <2> QED BY <1>6, <2>1, <2>2, RemovalTyped DEF RemovalEnds, DlqTypeOK
<1>7. CASE CompletionStarts \/ CompletionEnds
  BY <1>7 DEF CompletionStarts, CompletionEnds, DlqTypeOK
<1>8. CASE Restarted
  <2>1. sweep' \in SweepType /\ sweep'.step = "idle"
    BY <1>8, AsleepTyped DEF Restarted
  <2>2. crashes' \in 0 .. MaxCrashes
    BY <1>8 DEF Restarted, DlqTypeOK
  <2> QED BY <1>8, <2>1, <2>2 DEF Restarted, DlqTypeOK, SweepType
<1> QED BY <1>1, <1>2, <1>3, <1>4, <1>5, <1>6, <1>7, <1>8
        DEF FileChanges, HandlerSucceeds, HandlerGivesUp, RemovalsEnd

\* What the sweep holds in hand stays well typed.
SweepKeeps == sweep' \in SweepType /\ EntryInHand'

LEMMA SweepMoves ==
  ASSUME DlqTyped, SweepSteps \/ ProviderDown
  PROVE  SweepKeeps
<1>1. sweep \in SweepType /\ EntryInHand /\ entries \subseteq Entry /\ disk \in [Files -> Contents]
  BY DEF DlqTyped, DlqTypeOK, SweepType
<1> USE DEF SweepKeeps, EntryInHand, SweepType, SweepSteppers, GoTo
<1>2. CASE StartSweep
  <2>1. \A last : {e.id : e \in {o \in entries : o.id <= last}} \in SUBSET Ids
    BY <1>1 DEF Entry
  <2>2. PICK last :
          LET ids == {e.id : e \in {o \in entries : o.id <= last}}
          IN  sweep' = [Asleep EXCEPT !.step = IF ids = {} THEN "health" ELSE "purge",
                                      !.ids = ids]
    BY <1>2 DEF StartSweep
  <2> DEFINE ids == {e.id : e \in {o \in entries : o.id <= last}}
  <2>3. ids \in SUBSET Ids
    BY <2>1
  <2>4. sweep' = [Asleep EXCEPT !.step = IF ids = {} THEN "health" ELSE "purge", !.ids = ids]
    BY <2>2
  <2> HIDE DEF ids
  <2>5. sweep' \in SweepType /\ sweep'.step \in {"health", "purge"}
    BY <2>3, <2>4, AsleepTyped
  <2> QED BY <2>5
<1>3. CASE PurgeExpired
  BY <1>1, <1>3, AsleepTyped DEF PurgeExpired
<1>4. CASE ProviderHealthy
  BY <1>1, <1>4, AsleepTyped DEF ProviderHealthy
<1>5. CASE ProviderDown
  BY <1>1, <1>5, AsleepTyped DEF ProviderDown
<1>6. CASE NextEntry
  BY <1>1, <1>6, AsleepTyped DEF NextEntry
<1>7. CASE CompareHash
  BY <1>1, <1>7 DEF CompareHash
<1>8. CASE ReprocessReads
  <2>1. sweep.cur.file \in Files
    BY <1>1, <1>8 DEF ReprocessReads, Entry
  <2>2. disk[sweep.cur.file] \in Contents
    BY <1>1, <2>1
  <2>3. CASE sweep' = [sweep EXCEPT !.step = "remove"]
    BY <1>1, <1>8, <2>3 DEF ReprocessReads
  <2>4. CASE sweep' = [sweep EXCEPT !.step = "embed", !.content = disk[sweep.cur.file]]
    <3> DEFINE content == disk[sweep.cur.file]
    <3>1. content \in Contents /\ sweep' = [sweep EXCEPT !.step = "embed", !.content = content]
      BY <2>2, <2>4
    <3>2. sweep.cur \in Entry
      BY <1>1, <1>8 DEF ReprocessReads
    <3> HIDE DEF content
    <3> QED BY <1>1, <3>1, <3>2
  <2> QED BY <1>8, <2>3, <2>4 DEF ReprocessReads
<1>9. CASE ReprocessIndexes \/ ReprocessFails
  <2>1. sweep.cur \in Entry /\ Absent \in Contents
    BY <1>1, <1>9 DEF ReprocessIndexes, ReprocessFails, Contents, Absent
  <2>2. PICK next \in {"remove", "retry"} :
          sweep' = [sweep EXCEPT !.step = next, !.content = Absent]
    BY <1>9 DEF ReprocessIndexes, ReprocessFails
  <2> QED BY <1>1, <2>1, <2>2
<1>10. CASE SweepRemoves \/ PutBack \/ Abandon
  <2>1. sweep' = [sweep EXCEPT !.step = "next"]
    BY <1>10 DEF SweepRemoves, PutBack, Abandon
  <2> QED BY <1>1, <2>1
<1> QED BY <1>2, <1>3, <1>4, <1>5, <1>6, <1>7, <1>8, <1>9, <1>10
        DEF SweepSteps, Reprocesses, SweepGoesOn

LEMMA TypedSweep ==
  ASSUME DlqTyped, SweepSteps \/ ProviderDown
  PROVE  DlqTyped'
<1>0. SweepKeeps
  BY SweepMoves
<1> USE DEF DlqTyped, queue, files, dlqHistory, SweepKeeps, SweepType
<1>1. CASE \/ StartSweep \/ ReprocessReads \/ ProviderHealthy \/ NextEntry \/ CompareHash
           \/ ProviderDown
  BY <1>0, <1>1 DEF StartSweep, ReprocessReads, ProviderHealthy, NextEntry, CompareHash,
     ProviderDown, DlqTypeOK
<1>2. CASE PurgeExpired
  <2>1. givenUp' \subseteq Files
    BY <1>2, FilesTyped DEF PurgeExpired, DlqTypeOK, WithIds
  <2> QED BY <1>0, <1>2, <2>1, RemovalTyped DEF PurgeExpired, DlqTypeOK
<1>3. CASE SweepRemoves
  <2>1. unprocessed' \subseteq Files
    BY <1>3 DEF SweepRemoves, EntryInHand, Entry, DlqTypeOK
  <2> QED BY <1>0, <1>3, <2>1, RemovalTyped DEF SweepRemoves, DlqTypeOK
<1>4. CASE ReprocessIndexes
  <2>1. index' \in [Files -> Contents]
    BY <1>4 DEF ReprocessIndexes, DlqTypeOK
  <2> QED BY <1>0, <1>4, <2>1 DEF ReprocessIndexes, DlqTypeOK
<1>5. CASE ReprocessFails
  <2>1. sweep.cur.file \in Files /\ sweep.cur.hash \in Contents
    BY <1>5 DEF ReprocessFails, EntryInHand, Entry
  <2>2. Enqueue(sweep.cur.file, sweep.cur.hash)
    BY <1>5 DEF ReprocessFails
  <2>3. UNCHANGED <<disk, changes, owed, raced, index, loaded, lock, removing, crashes>>
    BY <1>5 DEF ReprocessFails, Enqueue
  <2> QED BY <1>0, <2>1, <2>2, <2>3, EnqueueTyped DEF DlqTypeOK
<1>6. CASE PutBack
  <2>1. Attempted \in Entry
    <3>1. sweep.cur \in Entry /\ Attempted.recoveryAttempts < MaxRecoveryAttempts
      BY <1>6 DEF PutBack, EntryInHand
    <3>2. /\ Attempted = [sweep.cur EXCEPT !.recoveryAttempts = sweep.cur.recoveryAttempts + 1]
          /\ Attempted.recoveryAttempts = sweep.cur.recoveryAttempts + 1
          /\ sweep.cur.recoveryAttempts \in 0 .. MaxRecoveryAttempts - 1
      BY <3>1 DEF Attempted, Entry
    <3>3. sweep.cur.recoveryAttempts + 1 \in 0 .. MaxRecoveryAttempts - 1
      BY <3>1, <3>2
    <3> QED BY <3>1, <3>2, <3>3 DEF Entry
  <2>2. store' \subseteq Entry /\ entries' \subseteq Entry
    BY <1>6, <2>1 DEF PutBack, Upserted, DlqTypeOK
  <2> QED BY <1>0, <1>6, <2>2 DEF PutBack, DlqTypeOK
<1>7. CASE Abandon
  <2>1. givenUp' \subseteq Files
    BY <1>7 DEF Abandon, EntryInHand, Entry, DlqTypeOK
  <2> QED BY <1>0, <1>7, <2>1, RemovalTyped DEF Abandon, DlqTypeOK
<1> QED BY <1>1, <1>2, <1>3, <1>4, <1>5, <1>6, <1>7 DEF SweepSteps, Reprocesses, SweepGoesOn

LEMMA TypedStep == DlqTyped /\ [DlqNext]_dlqVars => DlqTyped'
<1> SUFFICES ASSUME DlqTyped, [DlqNext]_dlqVars PROVE DlqTyped'
  OBVIOUS
<1>1. CASE DlqNext
  BY <1>1, TypedHandlers, TypedSweep DEF DlqNext
<1>2. CASE UNCHANGED dlqVars
  BY <1>2 DEF dlqVars, files, queue, dlqHistory, DlqTyped, DlqTypeOK, EntryInHand
<1> QED BY <1>1, <1>2

\* The state is well typed; in particular no entry is stored that has used up its
\* attempts, through enqueue(), put-backs and restarts.
THEOREM QueueTyped == DlqSpec => []DlqTypeOK
<1>1. DlqTyped => DlqTypeOK
  BY DEF DlqTyped
<1> QED BY TypedInitially, TypedStep, <1>1, PTL DEF DlqSpec

-----------------------------------------------------------------------------
(***************************************************************************)
(* Ids: an id belongs to one file for ever, whoever still holds an entry   *)
(* of that id.                                                             *)
(***************************************************************************)

InHand == sweep.step \in {"hash", "read", "embed", "remove", "retry"}
Hand == IF InHand THEN {sweep.cur} ELSE {}

\* The entries somebody holds: the database, the sweep's list, its hand.
Known == store \cup sweep.todo \cup Hand

IdsAgree ==
  /\ \A a, b \in Known : a.id = b.id => a.file = b.file
  /\ \A a \in Known : a.id < nextId
  /\ \A f \in Files : \A i \in removing[f] :
       i < nextId /\ \A a \in Known : a.id = i => a.file = f

OneEach(set) == \A a, b \in set : a.id = b.id => a = b

IdsUnique ==
  /\ OneEach(store)
  /\ OneEach(sweep.todo)
  /\ InHand => \A c \in sweep.todo : c.id # sweep.cur.id

IdsInv == IdsAgree /\ IdsUnique

\* What the steps are about to be shown to preserve, with what they rest on.
Base == DlqTyped /\ MatchInv /\ IdsInv

LEMMA IdsInitially == DlqInit => IdsInv
  BY DEF DlqInit, QueueInit, Asleep, IdsInv, IdsAgree, IdsUnique, OneEach, Known, Hand, InHand

\* Nobody comes to hold another entry.
LEMMA IdsKept ==
  ASSUME IdsAgree, UNCHANGED nextId,
         \A a \in Known' : \E b \in Known : b.id = a.id /\ b.file = a.file,
         \A f \in Files : removing'[f] \subseteq removing[f]
  PROVE  IdsAgree'
  BY DEF IdsAgree

\* What enqueue() leaves behind: the entry e of the file, under the id it has
\* or a new one, unless it is trimmed, like others, and given up.
LEMMA EnqueueStores ==
  ASSUME Base, NEW f \in Files, NEW hash \in Contents, Enqueue(f, hash)
  PROVE  \E e \in Entry :
           /\ e.file = f /\ e.hash = hash
           /\ \/ e.id = nextId /\ nextId' = nextId + 1
              \/ nextId' = nextId /\ \E o \in store : o.id = e.id /\ o.file = f
           /\ store' \subseteq Upserted(store, e)
           /\ FilesOf(Upserted(store, e) \ store') \subseteq givenUp'
           /\ givenUp \ {f} \subseteq givenUp'
<1>1. store \subseteq Entry /\ entries = store /\ nextId \in 1 .. MaxIds + 1
      /\ \A o \in store : o.id < nextId
  BY DEF Base, DlqTyped, DlqTypeOK, MatchInv, MemoryMatchesStore, IdsInv, IdsAgree, Known, Enqueue
<1>2. PICK e \in Renewed(f, hash) :
        /\ e.id <= MaxIds
        /\ store' = Upserted(store, e) \ (Upserted(entries, e) \ Newest(Upserted(entries, e)))
        /\ givenUp' = (givenUp \ {f})
                       \cup FilesOf(Upserted(entries, e) \ Newest(Upserted(entries, e)))
        /\ nextId' = IF e.id = nextId THEN nextId + 1 ELSE nextId
  BY Zenon DEF Enqueue
<1>3. /\ e \in Entry /\ e.file = f /\ e.hash = hash
      /\ e.id = nextId \/ \E o \in store : o.id = e.id /\ o.file = f
  <2>1. CASE f \in FilesOf(entries)
    <3>1. PICK o \in store : o.file = f /\ e = [o EXCEPT !.hash = hash]
      BY <1>1, <1>2, <2>1 DEF Renewed
    <3> QED BY <1>1, <3>1 DEF Entry
  <2>2. CASE f \notin FilesOf(entries)
    <3>1. e = [id |-> nextId, file |-> f, hash |-> hash, recoveryAttempts |-> 0]
      BY <1>2, <2>2 DEF Renewed
    <3>2. nextId \in Ids /\ 0 \in 0 .. MaxRecoveryAttempts - 1
      BY <1>1, <1>2, <3>1 DEF Ids
    <3> QED BY <3>1, <3>2 DEF Entry
  <2> QED BY <2>1, <2>2
<1>4. \/ e.id = nextId /\ nextId' = nextId + 1
      \/ nextId' = nextId /\ \E o \in store : o.id = e.id /\ o.file = f
  BY <1>1, <1>2, <1>3
<1>5. FilesOf(Upserted(store, e) \ store') \subseteq givenUp' /\ givenUp \ {f} \subseteq givenUp'
      /\ store' \subseteq Upserted(store, e)
  BY <1>1, <1>2 DEF FilesOf
<1> QED BY <1>3, <1>4, <1>5

\* An enqueue() while the sweep keeps its list and its hand.
LEMMA IdsEnqueue ==
  ASSUME Base, NEW f \in Files, NEW hash \in Contents, Enqueue(f, hash),
         sweep'.todo = sweep.todo, sweep'.cur = sweep.cur, InHand' <=> InHand
  PROVE  IdsInv'
<1>1. PICK e \in Entry :
        /\ e.file = f
        /\ \/ e.id = nextId /\ nextId' = nextId + 1
           \/ nextId' = nextId /\ \E o \in store : o.id = e.id /\ o.file = f
        /\ store' \subseteq Upserted(store, e)
  BY EnqueueStores
<1>2. /\ \A a, b \in Known : a.id = b.id => a.file = b.file
      /\ \A a \in Known : a.id < nextId
      /\ \A g \in Files : \A i \in removing[g] :
           i < nextId /\ \A a \in Known : a.id = i => a.file = g
      /\ store \subseteq Known
  BY DEF Base, IdsInv, IdsAgree, Known
<1>3. nextId \in Nat /\ \A a \in Known : a.id \in Nat
  BY DEF Base, DlqTyped, DlqTypeOK, EntryInHand, Known, Hand, InHand, Entry, Ids
<1>4. Known' \subseteq Known \cup {e} /\ removing' = removing
  BY <1>1 DEF Known, Hand, Upserted, Enqueue
<1>5. \A a \in Known : a.id = e.id => a.file = f
  BY <1>1, <1>2, <1>3
<1>6. e.id \in Nat /\ e.id < nextId' /\ nextId <= nextId'
  BY <1>1, <1>2, <1>3
<1>7. IdsAgree'
  <2>1. \A a, b \in Known' : a.id = b.id => a.file = b.file
    BY <1>1, <1>2, <1>4, <1>5
  <2>2. ASSUME NEW a \in Known' PROVE a.id < nextId'
    <3>1. CASE a = e
      BY <1>6, <3>1
    <3>2. CASE a \in Known
      <4>1. a.id \in Nat /\ a.id < nextId
        BY <1>2, <1>3, <3>2
      <4>2. nextId' \in Nat
        BY <1>1, <1>3
      <4> QED BY <1>3, <1>6, <4>1, <4>2
    <3> QED BY <1>4, <3>1, <3>2
  <2>3. ASSUME NEW g \in Files, NEW i \in removing'[g]
        PROVE  i < nextId' /\ \A a \in Known' : a.id = i => a.file = g
    <3>1. removing[g] \subseteq Ids
      BY DEF Base, DlqTyped, DlqTypeOK
    <3>. i \in Nat
      BY <1>4, <3>1 DEF Ids
    <3>2. i < nextId /\ i < nextId'
      <4>1. i < nextId
        BY <1>2, <1>4
      <4>2. nextId' \in Nat
        BY <1>1, <1>3
      <4> QED BY <1>3, <1>6, <4>1, <4>2
    <3>3. e.id = i => e.file = g
      BY <1>1, <1>2, <1>4, <1>3, <3>2
    <3> QED BY <1>2, <1>4, <3>2, <3>3
  <2> QED BY <2>1, <2>2, <2>3 DEF IdsAgree
<1>8. IdsUnique'
  BY <1>1 DEF Base, IdsInv, IdsUnique, OneEach, Upserted
<1> QED BY <1>7, <1>8 DEF IdsInv
LEMMA IdsQuiet ==
  ASSUME IdsInv, UNCHANGED <<store, nextId, sweep, removing>>
  PROVE  IdsInv'
  BY DEF IdsInv, IdsAgree, IdsUnique, OneEach, Known, Hand, InHand

\* Entries leave the database, or removals end.
LEMMA IdsShrink ==
  ASSUME IdsInv, UNCHANGED <<nextId, sweep>>, store' \subseteq store,
         \A f \in Files : removing'[f] \subseteq removing[f]
  PROVE  IdsInv'
<1>1. Known' \subseteq Known
  BY DEF Known, Hand, InHand
<1>2. IdsAgree'
  BY <1>1, IdsKept DEF IdsInv
<1> QED BY <1>2 DEF IdsInv, IdsUnique, OneEach, InHand

LEMMA IdsHandlers ==
  ASSUME Base,
         \/ Load \/ FileChanges \/ HandlerSucceeds \/ HandlerGivesUp \/ RemovalsEnd
         \/ CompletionStarts \/ CompletionEnds \/ Restarted
  PROVE  IdsInv'
<1>0. IdsInv /\ removing \in [Files -> SUBSET Ids]
  BY DEF Base, DlqTyped, DlqTypeOK
<1>1. CASE Load
  <2>1. store' \subseteq store /\ UNCHANGED <<nextId, sweep, removing>>
    BY <1>1 DEF Load, Newest
  <2> QED BY <1>0, <2>1, IdsShrink
<1>2. ASSUME NEW f \in Files, Change(f) \/ HandlerIndexes(f) PROVE IdsInv'
  BY <1>0, <1>2, IdsQuiet DEF Change, HandlerIndexes, queue
<1>3. ASSUME NEW f \in Files, HandlerDeletes(f) PROVE IdsInv'
  <2>1. UNCHANGED <<store, nextId, sweep>> /\ entries = store
    BY <1>3 DEF HandlerDeletes, queue, Base, MatchInv, MemoryMatchesStore
  <2>2. Known' = Known /\ store \subseteq Known
    BY <2>1 DEF Known, Hand, InHand
  <2>3. ASSUME NEW g \in Files, NEW i \in removing'[g]
        PROVE  i \in removing[g] \/ \E o \in store : o.id = i /\ o.file = g
    BY <1>0, <1>3, <2>1 DEF HandlerDeletes
  <2>4. IdsAgree'
    BY <1>0, <2>1, <2>2, <2>3 DEF IdsInv, IdsAgree
  <2> QED BY <1>0, <2>1, <2>4 DEF IdsInv, IdsUnique, InHand
<1>4. ASSUME NEW f \in Files, HandlerFails(f) PROVE IdsInv'
  <2>1. UNCHANGED sweep /\ \E hash \in EventHashes(f) : Enqueue(f, hash)
    BY <1>4 DEF HandlerFails
  <2>2. PICK hash \in EventHashes(f) : Enqueue(f, hash)
    BY <2>1
  <2>3. hash \in Contents
    BY HashesTyped DEF Base, DlqTyped
  <2> QED BY <2>1, <2>2, <2>3, IdsEnqueue DEF InHand
<1>5. ASSUME NEW f \in Files, RemovalEnds(f) PROVE IdsInv'
  <2>1. \A g \in Files : removing'[g] \subseteq removing[g]
    BY <1>0, <1>5 DEF RemovalEnds
  <2> QED BY <1>0, <1>5, <2>1, IdsShrink DEF RemovalEnds, RemoveEntries
<1>6. CASE CompletionStarts \/ CompletionEnds
  BY <1>0, <1>6, IdsQuiet DEF CompletionStarts, CompletionEnds, queue
<1>7. CASE Restarted
  <2>1. /\ UNCHANGED <<store, nextId>> /\ removing' = [f \in Files |-> {}]
        /\ sweep'.step = "idle" /\ sweep'.todo = {}
    BY <1>7 DEF Restarted, Asleep
  <2>2. Known' \subseteq Known
    BY <2>1 DEF Known, Hand, InHand
  <2>3. IdsAgree'
    BY <1>0, <2>1, <2>2, IdsKept DEF IdsInv
  <2> QED BY <1>0, <2>1, <2>3 DEF IdsInv, IdsUnique, OneEach, InHand
<1> QED BY <1>2, <1>1, <1>3, <1>4, <1>5, <1>6, <1>7
        DEF FileChanges, HandlerSucceeds, HandlerGivesUp, RemovalsEnd

\* The sweep falls asleep, or goes from step to step with the list it has.
LEMMA IdsSweep ==
  ASSUME Base, SweepSteps \/ ProviderDown
  PROVE  IdsInv'
<1>0. IdsInv /\ sweep \in SweepType /\ removing \in [Files -> SUBSET Ids] /\ EntryInHand
      /\ entries \subseteq Entry
  BY DEF Base, DlqTyped, DlqTypeOK, SweepType
<1>1. CASE StartSweep \/ PurgeExpired \/ ProviderDown
  <2>1. /\ store' \subseteq store /\ UNCHANGED <<nextId, removing>> 
        /\ sweep'.step \notin {"hash", "read", "embed", "remove", "retry"} /\ sweep'.todo = {}
    <3>1. CASE StartSweep
      <4>1. PICK ids : sweep' = [Asleep EXCEPT !.step = IF ids = {} THEN "health" ELSE "purge",
                                               !.ids = ids]
        BY <3>1 DEF StartSweep
      <4>2. sweep'.step \in {"health", "purge"} /\ sweep'.todo = {}
        BY <4>1 DEF Asleep
      <4> QED BY <3>1, <4>2 DEF StartSweep, queue
    <3>2. CASE PurgeExpired \/ ProviderDown
      BY <3>2 DEF PurgeExpired, ProviderDown, RemoveEntries, Asleep, queue
    <3> QED BY <1>1, <3>1, <3>2
  <2>2. Known' \subseteq Known
    BY <2>1 DEF Known, Hand, InHand
  <2>3. IdsAgree'
    BY <1>0, <2>1, <2>2, IdsKept DEF IdsInv
  <2> QED BY <1>0, <2>1, <2>3 DEF IdsInv, IdsUnique, OneEach, InHand
<1>2. CASE ProviderHealthy
  <2>1. /\ UNCHANGED <<store, nextId, removing>> /\ entries = store
        /\ sweep'.step = "next" /\ sweep'.todo = store
    BY <1>2 DEF ProviderHealthy, Asleep, queue, Base, MatchInv, MemoryMatchesStore, QuietUntilLoaded
  <2>2. Known' \subseteq Known
    BY <2>1 DEF Known, Hand, InHand
  <2>3. IdsAgree'
    BY <1>0, <2>1, <2>2, IdsKept DEF IdsInv
  <2> QED BY <1>0, <2>1, <2>3 DEF IdsInv, IdsUnique, OneEach, InHand
<1>3. CASE NextEntry
  <2>1. UNCHANGED <<store, nextId, removing>> /\ ~InHand
    BY <1>3 DEF NextEntry, queue, InHand
  <2>2. CASE sweep' = Asleep
    <3>1. Known' \subseteq Known
      BY <2>1, <2>2 DEF Known, Hand, InHand, Asleep
    <3>2. IdsAgree'
      BY <1>0, <2>1, <3>1, IdsKept DEF IdsInv
    <3> QED BY <1>0, <2>1, <2>2, <3>2 DEF IdsInv, IdsUnique, OneEach, InHand, Asleep
  <2>3. ASSUME NEW e \in sweep.todo,
               sweep' = [sweep EXCEPT !.step = "hash", !.todo = @ \ {e}, !.cur = e]
        PROVE  IdsInv'
    <3>1. sweep'.todo = sweep.todo \ {e} /\ sweep'.cur = e /\ sweep'.step = "hash"
      BY <1>0, <2>3 DEF SweepType
    <3>2. Known' \subseteq Known
      BY <2>1, <3>1 DEF Known, Hand
    <3>3. IdsAgree'
      BY <1>0, <2>1, <3>2, IdsKept DEF IdsInv
    <3> QED BY <1>0, <2>1, <3>1, <3>3 DEF IdsInv, IdsUnique, OneEach
  <2> QED BY <1>3, <2>2, <2>3 DEF NextEntry
<1>4. CASE CompareHash \/ ReprocessReads \/ ReprocessIndexes
  <2>1. /\ UNCHANGED <<store, nextId, removing>> /\ InHand /\ InHand'
        /\ sweep'.todo = sweep.todo /\ sweep'.cur = sweep.cur
    BY <1>0, <1>4 DEF CompareHash, ReprocessReads, ReprocessIndexes, GoTo, InHand, SweepType, queue
  <2>2. Known' = Known
    BY <2>1 DEF Known, Hand
  <2>3. IdsAgree'
    BY <1>0, <2>1, <2>2, IdsKept DEF IdsInv
  <2> QED BY <1>0, <2>1, <2>3 DEF IdsInv, IdsUnique, OneEach
<1>5. CASE ReprocessFails
  <2>1. sweep.cur.file \in Files /\ sweep.cur.hash \in Contents
    BY <1>0, <1>5 DEF ReprocessFails, EntryInHand, Entry
  <2>2. Enqueue(sweep.cur.file, sweep.cur.hash)
    BY <1>5 DEF ReprocessFails
  <2>3. InHand /\ InHand' /\ sweep'.todo = sweep.todo /\ sweep'.cur = sweep.cur
    BY <1>0, <1>5 DEF ReprocessFails, InHand, SweepType
  <2> QED BY <2>1, <2>2, <2>3, IdsEnqueue
<1>6. CASE SweepRemoves \/ Abandon
  <2>1. /\ store' \subseteq store /\ UNCHANGED <<nextId, removing>> /\ ~InHand'
        /\ sweep'.todo = sweep.todo
    BY <1>0, <1>6 DEF SweepRemoves, Abandon, RemoveEntries, GoTo, InHand, SweepType
  <2>2. Known' \subseteq Known
    BY <2>1 DEF Known, Hand
  <2>3. IdsAgree'
    BY <1>0, <2>1, <2>2, IdsKept DEF IdsInv
  <2> QED BY <1>0, <2>1, <2>3 DEF IdsInv, IdsUnique, OneEach
<1>7. CASE PutBack
  <2>1. /\ store' = Upserted(store, Attempted) /\ UNCHANGED <<nextId, removing>> /\ ~InHand'
        /\ InHand /\ sweep'.todo = sweep.todo /\ sweep.cur \in Entry
    BY <1>0, <1>7 DEF PutBack, GoTo, InHand, SweepType, EntryInHand
  <2>2. Attempted.id = sweep.cur.id /\ Attempted.file = sweep.cur.file
    BY <2>1 DEF Attempted, Entry
  <2>3. \A a \in Known' : \E b \in Known : b.id = a.id /\ b.file = a.file
    BY <2>1, <2>2 DEF Known, Hand, Upserted
  <2>4. IdsAgree'
    BY <1>0, <2>1, <2>3, IdsKept DEF IdsInv
  <2> QED BY <1>0, <2>1, <2>2, <2>4 DEF IdsInv, IdsUnique, OneEach, Upserted
<1> QED BY <1>1, <1>2, <1>3, <1>4, <1>5, <1>6, <1>7 DEF SweepSteps, Reprocesses, SweepGoesOn
-----------------------------------------------------------------------------
(***************************************************************************)
(* No failure is forgotten, but for the entries without a hash, which the  *)
(* sweep removes and has not processed.                                    *)
(***************************************************************************)

\* Of a file that no event is to come for, and that no handler met the sweep or
\* a removal on, nobody holds anything that is out of date.
Current(f) ==
  f \in Present /\ f \notin owed \cup raced =>
    /\ removing[f] = {}
    /\ sweep.step \in {"read", "embed"} /\ sweep.cur.file = f => sweep.cur.hash = disk[f]
    /\ sweep.step = "embed" /\ sweep.cur.file = f => sweep.content = disk[f]

\* An entry of the content f has, or one that never had a hash.
Fits(e, f) == e.hash \in {NoHash, disk[f]}

\* An entry that keeps f in the queue until f is tried again: nobody holds an
\* older entry of its id, and the sweep removes it only for want of a hash.
Covers(e, f) ==
  /\ e \in store
  /\ e.file = f
  /\ Fits(e, f)
  /\ \A c \in sweep.todo : c.id = e.id => Fits(c, f)
  /\ InHand /\ sweep.cur.id = e.id =>
       Fits(sweep.cur, f) /\ (sweep.step = "remove" => sweep.cur.hash = NoHash)

\* The sweep failed on f and is about to put the entry back.
Pending(f) ==
  /\ sweep.step = "retry"
  /\ sweep.cur.file = f
  /\ Fits(sweep.cur, f)
  /\ \E e \in store : e.file = f /\ Fits(e, f)

Queued(f) == (\E e \in store : Covers(e, f)) \/ Pending(f)

\* The history variables excuse these.
Excused == givenUp \cup raced \cup unprocessed

Kept(f) == f \in Unresolved \ Excused => Queued(f)

LEMMA QueuedStored == ASSUME NEW f, Queued(f) PROVE f \in FilesOf(store)
  BY DEF Queued, Covers, Pending, FilesOf

\* Facts every step below needs.
LEMMA Holdings ==
  ASSUME Base
  PROVE  /\ store \subseteq Known /\ sweep.todo \subseteq Known
         /\ InHand => sweep.cur \in Known
         /\ \A a, b \in Known : a.id = b.id => a.file = b.file
         /\ \A a \in Known : a.id < nextId
         /\ nextId \in Nat
         /\ sweep \in SweepType
  BY DEF Base, DlqTyped, DlqTypeOK, SweepType, IdsInv, IdsAgree, Known, Hand

\* The file is queued with the hash it has now.
LEMMA EnqueueSelf ==
  ASSUME Base, NEW g \in Files, NEW hash \in EventHashes(g), Enqueue(g, hash),
         UNCHANGED <<disk, sweep>>, raced' = MeetsOthers(g)
  PROVE  Kept(g)'
<1>1. hash \in {NoHash, disk[g]} /\ hash \in Contents
  BY HashesTyped DEF EventHashes, Base, DlqTyped
<1>2. PICK e \in Entry :
        /\ e.file = g /\ e.hash = hash
        /\ \/ e.id = nextId /\ nextId' = nextId + 1
           \/ nextId' = nextId /\ \E o \in store : o.id = e.id /\ o.file = g
        /\ FilesOf(Upserted(store, e) \ store') \subseteq givenUp'
  BY <1>1, EnqueueStores
<1> SUFFICES ASSUME g \notin Excused' PROVE Queued(g)'
  BY DEF Kept
<1>3. g \notin Swept
  BY DEF MeetsOthers, Excused
<1>4. e \in store'
  BY <1>2 DEF FilesOf, Upserted, Excused
<1>5. \A c \in Known : c.id = e.id => c.file = g
  BY <1>2, Holdings
<1>6. \A c \in sweep.todo : c.id # e.id
  BY <1>3, <1>5, Holdings DEF Swept, FilesOf
<1>7. InHand => sweep.cur.id # e.id
  BY <1>3, <1>5, Holdings DEF Swept, InHand
<1>8. Covers(e, g)'
  BY <1>1, <1>2, <1>4, <1>6, <1>7 DEF Covers, Fits, InHand
<1> QED BY <1>4, <1>8 DEF Queued

\* Another file's entry stays, or it is trimmed and given up.
LEMMA EnqueueOther ==
  ASSUME Base, NEW f \in Files, Kept(f),
         NEW g \in Files, g # f, NEW hash \in Contents, Enqueue(g, hash),
         UNCHANGED disk, f \in owed => f \in owed', f \in raced => f \in raced',
         \/ UNCHANGED sweep
         \/ sweep.step = "embed" /\ sweep'.step = "retry"
            /\ sweep'.todo = sweep.todo /\ sweep'.cur = sweep.cur
  PROVE  Kept(f)'
<1>1. PICK e \in Entry :
        /\ e.file = g
        /\ \/ e.id = nextId /\ nextId' = nextId + 1
           \/ nextId' = nextId /\ \E o \in store : o.id = e.id /\ o.file = g
        /\ FilesOf(Upserted(store, e) \ store') \subseteq givenUp'
        /\ givenUp \ {g} \subseteq givenUp'
  BY EnqueueStores
<1>3. unprocessed' = unprocessed \ {g}
  BY DEF Enqueue
<1>2. ASSUME f \in Unresolved', f \notin Excused' PROVE Queued(f)'
  <2>1. \A o \in store : o.file = f => o \in store'
    <3>1. \A o \in store : o.file = f => o.id # e.id
      BY <1>1, Holdings
    <3>2. \A o \in store : o.file = f => o \in Upserted(store, e)
      BY <3>1 DEF Upserted
    <3>3. \A o \in Upserted(store, e) \ store' : o.file \in givenUp'
      BY <1>1 DEF FilesOf
    <3> QED BY <1>2, <3>2, <3>3 DEF Excused
  <2>2. UNCHANGED index
    BY DEF Enqueue
  <2>3. Queued(f)
    BY <1>1, <1>2, <1>3, <2>2 DEF Kept, Unresolved, Present, Excused
  <2>4. CASE \E o \in store : Covers(o, f)
    <3>1. PICK o \in store : Covers(o, f)
      BY <2>4
    <3>2. Covers(o, f)'
      BY <2>1, <3>1 DEF Covers, Fits, InHand
    <3> QED BY <2>1, <3>1, <3>2 DEF Queued, Covers
  <2>5. CASE Pending(f)
    <3>1. UNCHANGED sweep
      BY <2>5 DEF Pending
    <3>2. Pending(f)'
      BY <2>1, <2>5, <3>1 DEF Pending, Fits
    <3> QED BY <3>2 DEF Queued
  <2> QED BY <2>3, <2>4, <2>5 DEF Queued
<1> QED BY <1>2 DEF Kept

\* A step that takes no entry of the file away and leaves the sweep alone.
LEMMA KeptQuiet ==
  ASSUME NEW f \in Files, Kept(f),
         UNCHANGED <<disk, sweep>>, index'[f] = index[f] \/ index'[f] = disk[f],
         \A o \in store : o.file = f => o \in store',
         f \in owed => f \in owed' \/ f \in givenUp' \/ index'[f] = disk[f],
         f \in givenUp => f \in givenUp' \/ index'[f] = disk[f],
         f \in raced => f \in raced' \/ index'[f] = disk[f],
         f \in unprocessed => f \in unprocessed' \/ index'[f] = disk[f]
  PROVE  Kept(f)'
<1> SUFFICES ASSUME f \in Unresolved', f \notin Excused' PROVE Queued(f)'
  BY DEF Kept
<1>1. f \in Unresolved \ Excused
  BY DEF Unresolved, Present, Excused
<1>2. Queued(f)
  BY <1>1 DEF Kept
<1>3. ASSUME NEW o \in store, Covers(o, f) PROVE Covers(o, f)' /\ o \in store'
  BY <1>3 DEF Covers, Fits, InHand
<1>4. Pending(f) => Pending(f)'
  BY DEF Pending, Fits
<1> QED BY <1>2, <1>3, <1>4 DEF Queued
\* A handler that meets the sweep or a removal leaves its mark.
LEMMA CurrentHandlers ==
  ASSUME Base, NEW f \in Files, Current(f),
         \/ Load \/ FileChanges \/ HandlerSucceeds \/ HandlerGivesUp \/ RemovalsEnd
         \/ CompletionStarts \/ CompletionEnds
  PROVE  Current(f)'
<1>0. disk \in [Files -> Contents] /\ removing \in [Files -> SUBSET Ids]
  BY DEF Base, DlqTyped, DlqTypeOK
<1> USE DEF Current, Present
<1>1. CASE Load \/ CompletionStarts \/ CompletionEnds
  BY <1>1 DEF Load, CompletionStarts, CompletionEnds, files, dlqHistory
<1>2. ASSUME NEW g \in Files, Change(g) PROVE Current(f)'
  <2>1. UNCHANGED <<sweep, removing>> /\ (f # g => disk'[f] = disk[f])
    BY <1>0, <1>2 DEF Change
  <2> QED BY <1>2, <2>1 DEF Change
<1>3. ASSUME NEW g \in Files, HandlerIndexes(g) \/ HandlerFails(g) PROVE Current(f)'
  <2>1. UNCHANGED <<disk, sweep, removing>> /\ owed' = owed \ {g} /\ raced' = MeetsOthers(g)
    BY <1>3 DEF HandlerIndexes, HandlerFails, Enqueue
  <2>2. CASE f = g
    BY <2>1, <2>2 DEF MeetsOthers, Swept
  <2>3. CASE f # g
    BY <2>1, <2>3 DEF MeetsOthers
  <2> QED BY <2>2, <2>3
<1>4. ASSUME NEW g \in Files, HandlerDeletes(g) PROVE Current(f)'
  <2>1. /\ UNCHANGED <<disk, sweep, raced>> /\ owed' = owed \ {g}
        /\ f # g => removing'[f] = removing[f]
    BY <1>0, <1>4 DEF HandlerDeletes, dlqHistory
  <2> QED BY <1>4, <2>1 DEF HandlerDeletes
<1>5. ASSUME NEW g \in Files, RemovalEnds(g) PROVE Current(f)'
  BY <1>0, <1>5 DEF RemovalEnds, files, dlqHistory
<1> QED BY <1>1, <1>2, <1>3, <1>4, <1>5
        DEF FileChanges, HandlerSucceeds, HandlerGivesUp, RemovalsEnd

\* The hash is compared with the file's before the file is read.
LEMMA CurrentSweep ==
  ASSUME Base, NEW f \in Files, Current(f), SweepSteps \/ ProviderDown
  PROVE  Current(f)'
<1>1. sweep \in SweepType
  BY DEF Base, DlqTyped, DlqTypeOK, SweepType
<1>2. UNCHANGED <<disk, owed, raced, removing>>
  BY DEF SweepSteps, Reprocesses, SweepGoesOn, StartSweep, ReprocessReads, ReprocessIndexes,
     ReprocessFails, Enqueue, PurgeExpired, ProviderHealthy, NextEntry, CompareHash, SweepRemoves,
     PutBack, Abandon, ProviderDown, files, dlqHistory
<1>3. CASE CompareHash
  BY <1>1, <1>2, <1>3 DEF CompareHash, GoTo, SweepType, Current, Present
<1>4. CASE ReprocessReads
  <2>1. CASE sweep' = [sweep EXCEPT !.step = "remove"]
    BY <1>1, <1>2, <2>1 DEF SweepType, Current, Present
  <2>2. CASE sweep' = [sweep EXCEPT !.step = "embed", !.content = disk[sweep.cur.file]]
    <3>1. sweep'.cur = sweep.cur /\ sweep'.content = disk[sweep.cur.file]
      BY <1>1, <2>2 DEF SweepType
    <3> QED BY <1>2, <1>4, <3>1 DEF ReprocessReads, Current, Present
  <2> QED BY <1>4, <2>1, <2>2 DEF ReprocessReads, GoTo
<1>5. CASE \/ StartSweep \/ PurgeExpired \/ ProviderHealthy \/ ProviderDown \/ NextEntry
           \/ ReprocessIndexes \/ ReprocessFails \/ SweepRemoves \/ PutBack \/ Abandon
  <2>1. CASE StartSweep
    <3>1. PICK ids : sweep' = [Asleep EXCEPT !.step = IF ids = {} THEN "health" ELSE "purge",
                                             !.ids = ids]
      BY <2>1 DEF StartSweep
    <3> QED BY <1>2, <3>1 DEF Asleep, Current, Present
  <2>2. CASE \/ PurgeExpired \/ ProviderHealthy \/ ProviderDown \/ NextEntry
             \/ ReprocessIndexes \/ ReprocessFails \/ SweepRemoves \/ PutBack \/ Abandon
    <3>1. sweep'.step \notin {"read", "embed"}
      <4>1. CASE PurgeExpired \/ ProviderHealthy \/ ProviderDown
        BY <4>1, AsleepTyped DEF PurgeExpired, ProviderHealthy, ProviderDown, SweepType
      <4>2. CASE NextEntry
        BY <1>1, <4>2, AsleepTyped DEF NextEntry, SweepType
      <4>3. CASE ReprocessIndexes \/ ReprocessFails
        BY <1>1, <4>3 DEF ReprocessIndexes, ReprocessFails, SweepType
      <4>4. CASE SweepRemoves \/ PutBack \/ Abandon
        BY <1>1, <4>4 DEF SweepRemoves, PutBack, Abandon, GoTo, SweepType
      <4> QED BY <2>2, <4>1, <4>2, <4>3, <4>4
    <3> QED BY <1>2, <3>1 DEF Current, Present
  <2> QED BY <1>5, <2>1, <2>2
<1> QED BY <1>3, <1>4, <1>5 DEF SweepSteps, Reprocesses, SweepGoesOn

LEMMA KeptHandlers ==
  ASSUME Base, NEW f \in Files, Current(f), Kept(f),
         \/ Load \/ FileChanges \/ HandlerSucceeds \/ HandlerGivesUp \/ RemovalsEnd
         \/ CompletionStarts \/ CompletionEnds
  PROVE  Kept(f)'
<1>0. /\ disk \in [Files -> Contents] /\ index \in [Files -> Contents]
      /\ removing \in [Files -> SUBSET Ids]
  BY DEF Base, DlqTyped, DlqTypeOK
<1>1. CASE Load
  <2>1. sweep.step = "idle" /\ UNCHANGED <<disk, owed, index, sweep, raced, unprocessed>>
        /\ store' = Newest(store) /\ givenUp' = givenUp \cup FilesOf(store \ Newest(store))
    BY <1>1 DEF Load, files, Base, MatchInv, QuietUntilLoaded
  <2> SUFFICES ASSUME f \in Unresolved, f \notin Excused' PROVE Queued(f)'
    BY <2>1 DEF Kept, Unresolved, Present
  <2>2. PICK o \in store : Covers(o, f)
    BY <2>1 DEF Kept, Queued, Pending, Excused
  <2>3. o \in store'
    BY <2>1, <2>2 DEF Covers, FilesOf, Excused
  <2> QED BY <2>1, <2>2, <2>3 DEF Queued, Covers, Fits, InHand
<1>2. ASSUME NEW g \in Files, Change(g) PROVE Kept(f)'
  <2>1. /\ UNCHANGED <<index, sweep, store>> /\ g \in owed'
        /\ f # g => disk'[f] = disk[f] /\ (f \in owed => f \in owed')
                    /\ (f \in givenUp => f \in givenUp') /\ (f \in raced => f \in raced')
                    /\ (f \in unprocessed => f \in unprocessed')
    BY <1>0, <1>2 DEF Change, queue
  <2>2. CASE f = g
    BY <2>1, <2>2 DEF Kept, Unresolved
  <2>3. CASE f # g
    BY <2>1, <2>3 DEF Kept, Unresolved, Present, Excused, Queued, Covers, Fits, Pending, InHand
  <2> QED BY <2>2, <2>3
<1>3. ASSUME NEW g \in Files, HandlerIndexes(g) PROVE Kept(f)'
  <2>1. /\ UNCHANGED <<disk, sweep, store>> /\ index'[g] = disk[g]
        /\ f # g => index'[f] = index[f] /\ (f \in owed => f \in owed')
                    /\ (f \in givenUp => f \in givenUp') /\ (f \in raced => f \in raced')
                    /\ (f \in unprocessed => f \in unprocessed')
    BY <1>0, <1>3 DEF HandlerIndexes, queue, MeetsOthers
  <2> QED BY <2>1, KeptQuiet
<1>4. ASSUME NEW g \in Files, HandlerFails(g) PROVE Kept(f)'
  <2>1. /\ UNCHANGED <<disk, sweep>> /\ raced' = MeetsOthers(g) /\ owed' = owed \ {g}
        /\ \E hash \in EventHashes(g) : Enqueue(g, hash)
    BY <1>4 DEF HandlerFails
  <2> PICK hash \in EventHashes(g) : Enqueue(g, hash)
    BY <2>1
  <2>2. CASE f = g
    BY <2>1, <2>2, EnqueueSelf
  <2>3. CASE f # g
    <3>1. hash \in Contents
      BY HashesTyped DEF Base, DlqTyped
    <3> QED BY <2>1, <2>3, <3>1, EnqueueOther DEF MeetsOthers
  <2> QED BY <2>2, <2>3
<1>5. ASSUME NEW g \in Files, HandlerDeletes(g) PROVE Kept(f)'
  <2>1. /\ UNCHANGED <<disk, sweep, store, givenUp, raced, unprocessed>> /\ g \notin Present
        /\ f # g => index'[f] = index[f] /\ (f \in owed => f \in owed')
    BY <1>0, <1>5 DEF HandlerDeletes, queue, dlqHistory
  <2>2. CASE f = g
    BY <2>1, <2>2 DEF Kept, Unresolved, Present
  <2>3. CASE f # g
    BY <2>1, <2>3, KeptQuiet
  <2> QED BY <2>2, <2>3
<1>6. ASSUME NEW g \in Files, RemovalEnds(g) PROVE Kept(f)'
  <2>1. /\ UNCHANGED <<disk, owed, index, sweep, givenUp, raced, unprocessed>>
        /\ store' = store \ WithIds(store, removing[g])
        /\ removing[g] # {}
    BY <1>6 DEF RemovalEnds, RemoveEntries, files, dlqHistory
  <2>2. CASE f = g
    BY <2>1, <2>2 DEF Kept, Unresolved, Present, Excused, Current
  <2>3. CASE f # g
    <3>1. \A o \in store : o.file = f => o.id \notin removing[g]
      BY <2>3 DEF Base, IdsInv, IdsAgree, Known
    <3>2. \A o \in store : o.file = f => o \in store'
      BY <2>1, <3>1 DEF WithIds
    <3> QED BY <2>1, <3>2, KeptQuiet
  <2> QED BY <2>2, <2>3
<1>7. CASE CompletionStarts \/ CompletionEnds
  BY <1>7, KeptQuiet DEF CompletionStarts, CompletionEnds, files, queue, dlqHistory
<1> QED BY <1>1, <1>2, <1>3, <1>4, <1>5, <1>6, <1>7
        DEF FileChanges, HandlerSucceeds, HandlerGivesUp, RemovalsEnd
\* The sweep lets go of an entry only if it has been processed, or is not what
\* keeps the file in the queue.
LEMMA KeptSweep ==
  ASSUME Base, NEW f \in Files, Current(f), Kept(f), SweepSteps \/ ProviderDown
  PROVE  Kept(f)'
<1>0. /\ sweep \in SweepType /\ EntryInHand /\ index \in [Files -> Contents]
      /\ IdsUnique /\ (sweep.step # "idle" => entries = store)
  BY DEF Base, DlqTyped, DlqTypeOK, SweepType, IdsInv, MatchInv, MemoryMatchesStore, QuietUntilLoaded
<1>1. UNCHANGED <<disk, owed, raced>>
  BY DEF SweepSteps, Reprocesses, SweepGoesOn, StartSweep, ReprocessReads, ReprocessIndexes,
     ReprocessFails, Enqueue, PurgeExpired, ProviderHealthy, NextEntry, CompareHash, SweepRemoves,
     PutBack, Abandon, ProviderDown, files, dlqHistory
<1>2. CASE ReprocessIndexes
  <2>1. /\ sweep.step = "embed" /\ index' = [index EXCEPT ![sweep.cur.file] = sweep.content]
        /\ UNCHANGED <<store, givenUp, unprocessed>>
        /\ sweep'.todo = sweep.todo /\ sweep'.cur = sweep.cur /\ sweep'.step = "remove"
    BY <1>0, <1>2 DEF ReprocessIndexes, queue, dlqHistory, SweepType
  <2>2. CASE f = sweep.cur.file
    BY <1>0, <1>1, <2>1, <2>2 DEF Kept, Unresolved, Present, Excused, Current
  <2>3. CASE f # sweep.cur.file
    <3> SUFFICES ASSUME f \in Unresolved', f \notin Excused' PROVE Queued(f)'
      BY DEF Kept
    <3>1. index'[f] = index[f]
      BY <1>0, <2>1, <2>3
    <3>2. PICK o \in store : Covers(o, f)
      BY <1>1, <2>1, <3>1 DEF Kept, Unresolved, Present, Excused, Queued, Pending
    <3>3. o.id # sweep.cur.id
      BY <2>1, <2>3, <3>2, Holdings DEF Covers, InHand
    <3>4. Covers(o, f)'
      BY <1>1, <2>1, <3>2, <3>3 DEF Covers, Fits, InHand
    <3> QED BY <2>1, <3>4 DEF Queued
  <2> QED BY <2>2, <2>3
<1>3. CASE ReprocessFails
  <2>1. /\ sweep.step = "embed" /\ Enqueue(sweep.cur.file, sweep.cur.hash)
        /\ UNCHANGED index
        /\ sweep'.todo = sweep.todo /\ sweep'.cur = sweep.cur /\ sweep'.step = "retry"
    BY <1>0, <1>3 DEF ReprocessFails, Enqueue, SweepType
  <2>2. sweep.cur.file \in Files /\ sweep.cur.hash \in Contents
    BY <1>0, <2>1 DEF EntryInHand, Entry
  <2>3. CASE f = sweep.cur.file
    <3> SUFFICES ASSUME f \in Unresolved', f \notin Excused' PROVE Queued(f)'
      BY DEF Kept
    <3>1. sweep.cur.hash = disk[f]
      BY <1>1, <2>1, <2>3 DEF Current, Unresolved, Present, Excused
    <3>2. PICK e \in Entry :
            /\ e.file = f /\ e.hash = disk[f]
            /\ \/ e.id = nextId /\ nextId' = nextId + 1
               \/ nextId' = nextId /\ \E o \in store : o.id = e.id /\ o.file = f
            /\ FilesOf(Upserted(store, e) \ store') \subseteq givenUp'
      <4>1. PICK hash \in Contents : hash = sweep.cur.hash
        BY <2>2
      <4>2. Enqueue(f, hash)
        BY <2>1, <2>3, <4>1
      <4> QED BY <3>1, <4>1, <4>2, EnqueueStores
    <3>3. e \in store'
      BY <3>2 DEF FilesOf, Upserted, Excused
    <3> QED BY <1>1, <2>1, <2>3, <3>1, <3>2, <3>3 DEF Queued, Pending, Fits
  <2>4. CASE f # sweep.cur.file
    BY <1>1, <2>1, <2>2, <2>4, EnqueueOther
  <2> QED BY <2>3, <2>4
<1> SUFFICES ASSUME ~ReprocessIndexes, ~ReprocessFails,
                    f \in Unresolved', f \notin Excused'
             PROVE  Queued(f)'
  BY <1>2, <1>3 DEF Kept
<1>4. UNCHANGED index /\ givenUp \subseteq givenUp' /\ unprocessed \subseteq unprocessed'
  BY DEF SweepSteps, Reprocesses, SweepGoesOn, StartSweep, ReprocessReads,
     PurgeExpired, ProviderHealthy, NextEntry, CompareHash, SweepRemoves,
     PutBack, Abandon, ProviderDown, files, dlqHistory
<1>5. Queued(f) /\ f \in Present
  BY <1>1, <1>4 DEF Kept, Unresolved, Present, Excused
<1>6. CASE StartSweep \/ PurgeExpired \/ ProviderDown
  <2>1. sweep'.todo = {} /\ ~InHand'
    <3>1. CASE StartSweep
      <4>1. PICK ids : sweep' = [Asleep EXCEPT !.step = IF ids = {} THEN "health" ELSE "purge",
                                               !.ids = ids]
        BY <3>1 DEF StartSweep
      <4> QED BY <4>1 DEF Asleep, InHand
    <3>2. CASE PurgeExpired \/ ProviderDown
      BY <3>2 DEF PurgeExpired, ProviderDown, Asleep, InHand
    <3> QED BY <1>6, <3>1, <3>2
  <2>2. \A o \in store : o.file = f => o \in store'
    BY <1>0, <1>6 DEF StartSweep, ProviderDown, PurgeExpired, RemoveEntries, WithIds, FilesOf, queue,
       Excused
  <2>3. PICK o \in store : Covers(o, f)
    BY <1>5, <1>6 DEF StartSweep, PurgeExpired, ProviderDown, Queued, Pending
  <2> QED BY <1>1, <2>1, <2>2, <2>3 DEF Queued, Covers, Fits
<1>7. CASE ProviderHealthy
  <2>1. UNCHANGED store /\ sweep'.todo = store /\ sweep'.step = "next"
    BY <1>0, <1>7, AsleepTyped DEF ProviderHealthy, queue, SweepType
  <2>2. PICK o \in store : Covers(o, f)
    BY <1>5, <1>7 DEF ProviderHealthy, Queued, Pending
  <2> QED BY <1>0, <1>1, <2>1, <2>2 DEF Queued, Covers, Fits, InHand, IdsUnique, OneEach
<1>8. CASE NextEntry
  <2>1. UNCHANGED store
    BY <1>8 DEF NextEntry, queue
  <2>2. PICK o \in store : Covers(o, f)
    BY <1>5, <1>8 DEF NextEntry, Queued, Pending
  <2>3. CASE sweep' = Asleep
    BY <1>1, <2>1, <2>2, <2>3 DEF Asleep, Queued, Covers, Fits, InHand
  <2>4. ASSUME NEW e \in sweep.todo,
               sweep' = [sweep EXCEPT !.step = "hash", !.todo = @ \ {e}, !.cur = e]
        PROVE  Queued(f)'
    <3>1. sweep'.todo = sweep.todo \ {e} /\ sweep'.cur = e /\ sweep'.step = "hash"
      BY <1>0, <2>4 DEF SweepType
    <3> QED BY <1>1, <2>1, <2>2, <3>1 DEF Queued, Covers, Fits
  <2> QED BY <1>8, <2>3, <2>4 DEF NextEntry
<1>9. CASE CompareHash \/ ReprocessReads
  <2>1. /\ UNCHANGED store /\ sweep.step \in {"hash", "read"}
        /\ sweep'.todo = sweep.todo /\ sweep'.cur = sweep.cur
    BY <1>0, <1>9 DEF CompareHash, ReprocessReads, GoTo, queue, SweepType
  <2>2. PICK o \in store : Covers(o, f)
    BY <1>5, <2>1 DEF Queued, Pending
  <2>3. ASSUME sweep.cur.id = o.id, sweep'.step = "remove" PROVE sweep.cur.hash = NoHash
    <3>1. Fits(sweep.cur, f) /\ sweep.cur.file = f /\ disk[f] # Absent
      BY <1>5, <2>1, <2>2, <2>3, Holdings DEF Covers, InHand, Present
    <3>2. CASE CompareHash
      BY <1>0, <2>3, <3>1, <3>2 DEF CompareHash, GoTo, SweepType, Fits
    <3>3. CASE ReprocessReads
      BY <1>0, <2>3, <3>1, <3>3 DEF ReprocessReads, SweepType
    <3> QED BY <1>9, <3>2, <3>3
  <2> QED BY <1>1, <2>1, <2>2, <2>3 DEF Queued, Covers, Fits, InHand
<1>10. CASE SweepRemoves \/ Abandon
  <2>1. /\ InHand /\ store' = store \ WithIds(store, {sweep.cur.id})
        /\ sweep'.todo = sweep.todo /\ ~InHand'
    BY <1>0, <1>10 DEF SweepRemoves, Abandon, RemoveEntries, GoTo, InHand, SweepType
  <2>2. CASE SweepRemoves
    <3>1. PICK o \in store : Covers(o, f)
      BY <1>5, <2>2 DEF SweepRemoves, Queued, Pending
    <3>2. o.id # sweep.cur.id
      <4> SUFFICES ASSUME o.id = sweep.cur.id PROVE FALSE
        OBVIOUS
      <4>1. sweep.cur.hash = NoHash /\ sweep.cur.file = f
        BY <2>1, <2>2, <3>1, Holdings DEF SweepRemoves, Covers
      <4> QED BY <2>2, <4>1 DEF SweepRemoves, Excused
    <3> QED BY <1>1, <2>1, <3>1, <3>2 DEF Queued, Covers, Fits, WithIds
  <2>3. CASE Abandon
    <3>1. sweep.cur.file # f
      BY <2>3 DEF Abandon, Excused
    <3>2. PICK o \in store : Covers(o, f)
      BY <1>5, <3>1 DEF Queued, Pending
    <3>3. o.id # sweep.cur.id
      BY <2>1, <3>1, <3>2, Holdings DEF Covers
    <3> QED BY <1>1, <2>1, <3>2, <3>3 DEF Queued, Covers, Fits, WithIds
  <2> QED BY <1>10, <2>2, <2>3
<1>11. CASE PutBack
  <2>1. /\ InHand /\ store' = Upserted(store, Attempted) /\ sweep.cur \in Entry
        /\ sweep'.todo = sweep.todo /\ ~InHand'
    BY <1>0, <1>11 DEF PutBack, GoTo, InHand, EntryInHand, SweepType
  <2>2. /\ Attempted.id = sweep.cur.id /\ Attempted.file = sweep.cur.file
        /\ Attempted.hash = sweep.cur.hash
    BY <2>1 DEF Attempted, Entry
  <2>3. ASSUME sweep.cur.file = f, Fits(sweep.cur, f) PROVE Queued(f)'
    <3>1. \A c \in sweep.todo : c.id # sweep.cur.id
      BY <1>0, <2>1 DEF IdsUnique
    <3>2. \E a \in store' : Covers(a, f)'
      <4> DEFINE a == Attempted
      <4>2. a \in store' /\ a.file = f /\ Fits(a, f) /\ a.id = sweep.cur.id
        BY <2>1, <2>2, <2>3 DEF Upserted, Fits
      <4> HIDE DEF a
      <4> QED BY <1>1, <2>1, <3>1, <4>2 DEF Covers, Fits
    <3> QED BY <3>2 DEF Queued
  <2>4. CASE Pending(f)
    BY <2>3, <2>4 DEF Pending
  <2>5. ASSUME NEW o \in store, Covers(o, f) PROVE Queued(f)'
    <3>1. CASE o.id = sweep.cur.id
      BY <2>1, <2>3, <2>5, <3>1, Holdings DEF Covers
    <3>2. CASE o.id # sweep.cur.id
      BY <1>1, <2>1, <2>2, <2>5, <3>2 DEF Queued, Covers, Fits, Upserted
    <3> QED BY <3>1, <3>2
  <2> QED BY <1>5, <2>4, <2>5 DEF Queued
<1> QED BY <1>6, <1>7, <1>8, <1>9, <1>10, <1>11 DEF SweepSteps, Reprocesses, SweepGoesOn

\* What waits is lost with the process, what is queued is not.
LEMMA KeptRestarted ==
  ASSUME Base, NEW f \in Files, Restarted
  PROVE  Current(f)' /\ (Kept(f) => Kept(f)')
<1>1. /\ UNCHANGED <<disk, index, store, raced, unprocessed>> /\ givenUp' = givenUp \cup owed
      /\ removing' = [g \in Files |-> {}] /\ sweep' = Asleep
  BY DEF Restarted
<1>2. sweep'.step = "idle" /\ sweep'.todo = {}
  BY <1>1 DEF Asleep
<1>3. Current(f)'
  BY <1>1, <1>2 DEF Current
<1>4. Kept(f) => Kept(f)'
  BY <1>1, <1>2 DEF Kept, Unresolved, Present, Excused, Queued, Covers, Fits, Pending, InHand
<1> QED BY <1>3, <1>4

-----------------------------------------------------------------------------
DlqInv == Base /\ \A f \in Files : Current(f) /\ Kept(f)

LEMMA DlqInvInitially == DlqInit => DlqInv
<1> SUFFICES ASSUME DlqInit PROVE DlqInv
  OBVIOUS
<1>1. Base
  BY TypedInitially, MatchInitially, IdsInitially DEF Base
<1>2. ASSUME NEW f \in Files PROVE Current(f) /\ Kept(f)
  BY DEF DlqInit, QueueInit, Asleep, Current, Kept, Unresolved
<1> QED BY <1>1, <1>2 DEF DlqInv

LEMMA BaseStep == Base /\ [DlqNext]_dlqVars => Base'
<1> SUFFICES ASSUME Base, [DlqNext]_dlqVars PROVE Base'
  OBVIOUS
<1>1. DlqTyped' /\ MatchInv'
  BY TypedStep, MatchStep DEF Base
<1>2. CASE DlqNext
  BY <1>1, <1>2, IdsHandlers, IdsSweep DEF DlqNext, Base
<1>3. CASE UNCHANGED dlqVars
  BY <1>1, <1>3, IdsQuiet DEF dlqVars, queue, Base
<1> QED BY <1>2, <1>3

LEMMA DlqInvStep == DlqInv /\ [DlqNext]_dlqVars => DlqInv'
<1> SUFFICES ASSUME DlqInv, [DlqNext]_dlqVars PROVE DlqInv'
  OBVIOUS
<1>1. Base'
  BY BaseStep DEF DlqInv
<1>2. ASSUME NEW f \in Files PROVE Current(f)' /\ Kept(f)'
  <2>1. Base /\ Current(f) /\ Kept(f)
    BY DEF DlqInv
  <2>2. CASE DlqNext
    BY <2>1, <2>2, CurrentHandlers, CurrentSweep, KeptHandlers, KeptSweep, KeptRestarted
       DEF DlqNext
  <2>3. CASE UNCHANGED dlqVars
    <3>1. Kept(f)'
      BY <2>1, <2>3, KeptQuiet DEF dlqVars, files, queue, dlqHistory
    <3>2. Current(f)'
      BY <2>1, <2>3 DEF dlqVars, files, queue, dlqHistory, Current, Present
    <3> QED BY <3>1, <3>2
  <2> QED BY <2>2, <2>3
<1> QED BY <1>1, <1>2 DEF DlqInv

\* Every file whose vectors are out of date, with no event to come, is in the
\* queue, unless a limit dropped it, a handler met the sweep or a removal on it,
\* or the sweep took its entry for stale because the event had no hash (the
\* comparison of recoverySweep()): enqueue(), removeEntries() with ids chosen
\* before the lock, reprocess() and the put-backs forget no other failure, in
\* whatever order they come, and none at all whose event had a hash.
THEOREM NoFailureForgotten == DlqSpec => []NoFileForgotten
<1>1. DlqInv => NoFileForgotten
  BY QueuedStored DEF DlqInv, NoFileForgotten, Kept, Excused, Unresolved, Present
<1>2. DlqInv /\ [DlqNext]_dlqVars => DlqInv'
  BY DlqInvStep
<1> QED BY DlqInvInitially, <1>1, <1>2, PTL DEF DlqSpec
-----------------------------------------------------------------------------
(***************************************************************************)
(* Completion: what reindex() does to the queue, and what a shutdown does, *)
(* beside the steps of the queue itself.                                   *)
(***************************************************************************)

\* The steps of the queue that go on beside a reindex.
QueueStep ==
  \/ Load \/ FileChanges \/ HandlerSucceeds \/ HandlerGivesUp \/ RemovalsEnd
  \/ SweepSteps \/ ProviderDown

\* Those among them that a shutdown leaves.
QuietStep == Load \/ FileChanges \/ RemovalsEnd \/ SweepGoesOn \/ ProviderDown

LockStep ==
  UNCHANGED <<files, index, queue, sweep, removing, crashes, dlqHistory>> /\ lock' \in BOOLEAN

LEMMA CompletionSteps ==
  ASSUME CompletionNext
  PROVE  \/ /\ QueueStep /\ (aborted => QuietStep)
            /\ UNCHANGED <<step, todo, startup, stats, aborted, cut>>
         \/ Restarted /\ RuntimeRestarts
         \/ LockStep /\ (RecordStarts \/ RecordSuccess \/ RecordIncomplete)
         \/ /\ UNCHANGED dlqVars
            /\ ReindexStarts \/ ReindexLists \/ ReindexThrows \/ ReindexProcessed \/ StopRequested
         \/ \E f \in Files : ReindexIndexes(f) \/ ReindexGivesUp(f) \/ HandlerAborted(f)
         \/ ReprocessAborted
<1>1. CASE FilesChange \/ HandlersWork \/ QueueWorks \/ SweepWorks
  BY <1>1 DEF FilesChange, HandlersWork, QueueWorks, SweepWorks, QueueStep, QuietStep,
     SweepSteps
<1>2. CASE RuntimeRestarts
  BY <1>2 DEF RuntimeRestarts
<1>3. CASE RecordStarts \/ RecordSuccess \/ RecordIncomplete
  BY <1>3 DEF RecordStarts, RecordSuccess, RecordIncomplete, RecordEnds, LockStep
<1>4. CASE ReindexStarts \/ ReindexLists \/ ReindexThrows \/ ReindexProcessed \/ StopRequested
  BY <1>4 DEF ReindexStarts, ReindexLists, ReindexThrows, ReindexProcessed, StopRequested
<1> QED BY <1>1, <1>2, <1>3, <1>4 DEF CompletionNext, ReindexWorks

LEMMA QueueStepIsNext == QueueStep => DlqNext
  BY DEF QueueStep, DlqNext

\* What enqueue() does for reindex() keeps memory, types and ids in order.
LEMMA BaseReindex ==
  ASSUME Base, NEW f \in Files, ReindexIndexes(f) \/ ReindexGivesUp(f) \/ HandlerAborted(f)
  PROVE  Base'
<1>0. DlqTypeOK /\ EntryInHand /\ MatchInv /\ IdsInv /\ EventHashes(f) \subseteq Contents
  BY HashesTyped DEF Base, DlqTyped
<1>1. CASE ReindexIndexes(f)
  <2>1. /\ UNCHANGED <<files, queue, lock, sweep, removing, crashes>>
        /\ index' = [index EXCEPT ![f] = disk[f]] /\ givenUp' = givenUp \ {f}
        /\ raced' = MeetsOthers(f) /\ unprocessed' = unprocessed \ {f}
    BY <1>1 DEF ReindexIndexes
  <2>2. index' \in [Files -> Contents] /\ givenUp' \subseteq Files /\ raced' \subseteq Files
    BY <1>0, <2>1 DEF DlqTypeOK, MeetsOthers
  <2>3. DlqTyped'
    BY <1>0, <2>1, <2>2 DEF DlqTyped, DlqTypeOK, EntryInHand, files, queue
  <2>4. MatchInv'
    BY <1>0, <2>1 DEF MatchInv, MemoryMatchesStore, QuietUntilLoaded, queue
  <2>5. IdsInv'
    BY <1>0, <2>1, IdsQuiet DEF queue
  <2> QED BY <2>3, <2>4, <2>5 DEF Base
<1>2. CASE ReindexGivesUp(f)
  <2> PICK hash \in EventHashes(f) : Enqueue(f, hash)
    BY <1>2 DEF ReindexGivesUp
  <2>1. /\ UNCHANGED <<files, sweep>> /\ raced' = MeetsOthers(f)
        /\ UNCHANGED <<index, loaded, lock, removing, crashes>> /\ hash \in Contents
    BY <1>0, <1>2 DEF ReindexGivesUp, Enqueue
  <2>2. raced' \subseteq Files
    BY <1>0, <2>1 DEF DlqTypeOK, MeetsOthers
  <2>3. DlqTyped'
    BY <1>0, <2>1, <2>2, EnqueueTyped DEF DlqTyped, DlqTypeOK, EntryInHand, files
  <2>4. MatchInv'
    BY <1>0, <2>1, EnqueueMatches
  <2>5. IdsInv'
    BY <1>0, <2>1, IdsEnqueue DEF InHand
  <2> QED BY <2>3, <2>4, <2>5 DEF Base
<1>3. CASE HandlerAborted(f)
  <2>1. /\ UNCHANGED <<disk, changes, index, queue, lock, sweep, removing, crashes, raced, unprocessed>>
        /\ owed' = owed \ {f} /\ givenUp' = givenUp \cup {f}
    BY <1>3 DEF HandlerAborted
  <2>2. DlqTyped'
    BY <1>0, <2>1 DEF DlqTyped, DlqTypeOK, EntryInHand, queue
  <2>3. MatchInv'
    BY <1>0, <2>1 DEF MatchInv, MemoryMatchesStore, QuietUntilLoaded, queue
  <2>4. IdsInv'
    BY <1>0, <2>1, IdsQuiet DEF queue
  <2> QED BY <2>2, <2>3, <2>4 DEF Base
<1> QED BY <1>1, <1>2, <1>3

\* The sweep that is aborted lets go of nothing.
LEMMA AbortedSweep ==
  ASSUME Base, ReprocessAborted
  PROVE  /\ sweep.step \in {"read", "embed"} /\ sweep'.step \in {"remove", "retry"}
         /\ sweep'.todo = sweep.todo /\ sweep'.cur = sweep.cur
         /\ sweep' \in SweepType
         /\ UNCHANGED <<files, index, queue, lock, removing, crashes, dlqHistory>>
<1>1. sweep \in SweepType
  BY DEF Base, DlqTyped, DlqTypeOK, SweepType
<1> QED BY <1>1 DEF ReprocessAborted, GoTo, SweepType, SweepSteppers

LEMMA BaseAborted ==
  ASSUME Base, ReprocessAborted
  PROVE  Base'
<1>1. DlqTyped'
  BY AbortedSweep DEF Base, DlqTyped, DlqTypeOK, EntryInHand, SweepType, files, queue, dlqHistory
<1>2. MatchInv'
  BY AbortedSweep DEF Base, MatchInv, MemoryMatchesStore, QuietUntilLoaded, queue
<1>3. Known' = Known
  BY AbortedSweep DEF Known, Hand, InHand, queue
<1>4. IdsAgree'
  BY <1>3, AbortedSweep, IdsKept DEF Base, IdsInv, queue
<1>5. IdsUnique'
  BY AbortedSweep DEF Base, IdsInv, IdsUnique, OneEach, InHand, queue
<1> QED BY <1>1, <1>2, <1>4, <1>5 DEF Base, IdsInv

LEMMA BaseLock ==
  ASSUME Base, LockStep
  PROVE  Base'
<1>1. DlqTyped'
  BY DEF Base, DlqTyped, DlqTypeOK, EntryInHand, LockStep, files, queue, dlqHistory
<1>2. MatchInv'
  BY DEF Base, MatchInv, MemoryMatchesStore, QuietUntilLoaded, LockStep, queue
<1>3. IdsInv'
  BY IdsQuiet DEF Base, LockStep, queue
<1> QED BY <1>1, <1>2, <1>3 DEF Base

LEMMA BaseCompletion == Base /\ [CompletionNext]_completionVars => Base'
<1> SUFFICES ASSUME Base, [CompletionNext]_completionVars PROVE Base'
  OBVIOUS
<1>1. CASE UNCHANGED completionVars
  BY <1>1, BaseStep DEF completionVars
<1>2. CASE CompletionNext
  <2>1. QueueStep \/ Restarted \/ UNCHANGED dlqVars => Base'
    BY QueueStepIsNext, BaseStep DEF DlqNext
  <2> QED BY <1>2, <2>1, CompletionSteps, BaseReindex, BaseAborted, BaseLock
<1> QED BY <1>1, <1>2
-----------------------------------------------------------------------------
\* A shutdown drops events; the files they were for are given up.
CurrentOrDropped(f) == Current(f) \/ (aborted /\ f \in givenUp)

\* A file that is not kept in the queue was cut off, or the reindex that is to
\* record the first completion has not come to it.
KeptOrToCome(f) == Kept(f) \/ f \in cut \/ (~lastIndexed /\ f \in todo)

\* What the loop over the files left out is noted before anything is recorded.
CutNoted == step \in {"record", "check"} => todo \subseteq cut

CompletionInv ==
  /\ Base
  /\ \A f \in Files : CurrentOrDropped(f) /\ KeptOrToCome(f)
  /\ CutNoted

LEMMA CompletionInitially == CompletionInit => CompletionInv
<1> SUFFICES ASSUME CompletionInit PROVE CompletionInv
  OBVIOUS
<1>1. QueueInit /\ owed = {} /\ todo = Present /\ step = "idle" /\ ~lastIndexed
  BY DEF CompletionInit
<1>2. MatchInv /\ IdsInv
  BY <1>1 DEF QueueInit, Asleep, MatchInv, MemoryMatchesStore, QuietUntilLoaded,
     IdsInv, IdsAgree, IdsUnique, OneEach, Known, Hand, InHand
<1>3. disk \in [Files -> Contents] /\ index \in [Files -> Contents] /\ changes \in Contents
  BY <1>1 DEF QueueInit, Contents, Absent
<1>4. nextId \in 1 .. MaxIds + 1 /\ crashes \in 0 .. MaxCrashes
  BY <1>1 DEF QueueInit
<1>5. DlqTyped
  BY <1>1, <1>3, <1>4, AsleepTyped DEF QueueInit, DlqTyped, DlqTypeOK, EntryInHand, SweepType
<1>6. ASSUME NEW f \in Files PROVE CurrentOrDropped(f) /\ KeptOrToCome(f)
  BY <1>1 DEF QueueInit, Asleep, CurrentOrDropped, KeptOrToCome, Current, Kept, Unresolved
<1>7. CutNoted
  BY <1>1 DEF CutNoted
<1> QED BY <1>2, <1>5, <1>6, <1>7 DEF CompletionInv, Base

LEMMA CutStep == CutNoted /\ [CompletionNext]_completionVars => CutNoted'
<1> SUFFICES ASSUME CutNoted, [CompletionNext]_completionVars PROVE CutNoted'
  OBVIOUS
<1> USE DEF CutNoted
<1>1. CASE UNCHANGED completionVars
  BY <1>1 DEF completionVars
<1>2. CASE FilesChange \/ HandlersWork \/ QueueWorks \/ SweepWorks
  BY <1>2 DEF FilesChange, HandlersWork, QueueWorks, SweepWorks
<1>3. CASE ReindexStarts \/ ReindexLists \/ ReindexProcessed \/ ReindexThrows
  BY <1>3 DEF ReindexStarts, ReindexLists, ReindexProcessed, ReindexThrows
<1>4. ASSUME NEW f \in Files, ReindexIndexes(f) \/ ReindexGivesUp(f) \/ HandlerAborted(f)
      PROVE  CutNoted'
  BY <1>4 DEF ReindexIndexes, ReindexGivesUp, HandlerAborted
<1>5. CASE RecordStarts \/ RecordSuccess \/ RecordIncomplete
  BY <1>5 DEF RecordStarts, RecordSuccess, RecordIncomplete, RecordEnds
<1>6. CASE StopRequested \/ ReprocessAborted \/ RuntimeRestarts
  BY <1>6 DEF StopRequested, ReprocessAborted, RuntimeRestarts
<1> QED BY <1>1, <1>2, <1>3, <1>4, <1>5, <1>6 DEF CompletionNext, ReindexWorks

\* After the shutdown a file that was given up stays so, unless it changes.
LEMMA DroppedStays ==
  ASSUME NEW f \in givenUp, QuietStep
  PROVE  f \in givenUp' \/ f \in owed'
<1>1. ASSUME NEW g \in Files, Change(g) PROVE f \in givenUp' \/ f \in owed'
  BY <1>1 DEF Change
<1>2. CASE Load \/ RemovalsEnd
  BY <1>2 DEF Load, RemovalsEnd, RemovalEnds, dlqHistory
<1>3. CASE SweepGoesOn \/ ProviderDown
  BY <1>3 DEF SweepGoesOn, PurgeExpired, ProviderHealthy, NextEntry, CompareHash, SweepRemoves,
     PutBack, Abandon, ProviderDown, dlqHistory
<1> QED BY <1>1, <1>2, <1>3 DEF QuietStep, FileChanges

LEMMA QueueStepKeeps ==
  ASSUME Base, NEW f \in Files, CurrentOrDropped(f), KeptOrToCome(f),
         QueueStep, aborted => QuietStep,
         UNCHANGED <<step, todo, startup, stats, aborted, cut>>
  PROVE  CurrentOrDropped(f)' /\ KeptOrToCome(f)'
<1>1. CASE Current(f)
  <2>1. Current(f)'
    BY <1>1, CurrentHandlers, CurrentSweep DEF QueueStep
  <2>2. Kept(f) => Kept(f)'
    BY <1>1, KeptHandlers, KeptSweep DEF QueueStep
  <2> QED BY <2>1, <2>2 DEF CurrentOrDropped, KeptOrToCome, stats
<1>2. CASE aborted /\ f \in givenUp
  <2>1. f \in givenUp' \/ f \in owed'
    BY <1>2, DroppedStays
  <2> QED BY <1>2, <2>1 DEF CurrentOrDropped, KeptOrToCome, Current, Kept, Excused, Unresolved
<1> QED BY <1>1, <1>2 DEF CurrentOrDropped

\* The reindex meets the sweep as a handler does.
LEMMA ReindexKeeps ==
  ASSUME Base, NEW f \in Files, CurrentOrDropped(f), KeptOrToCome(f),
         NEW g \in Files, ReindexIndexes(g) \/ ReindexGivesUp(g)
  PROVE  CurrentOrDropped(f)' /\ KeptOrToCome(f)'
<1>0. index \in [Files -> Contents] /\ EventHashes(g) \subseteq Contents
  BY HashesTyped DEF Base, DlqTyped, DlqTypeOK
<1>1. /\ ~aborted /\ UNCHANGED <<disk, owed, sweep, removing, lastIndexed>>
      /\ raced' = MeetsOthers(g) /\ todo' = todo \ {g} /\ cut' = cut \ {g}
  BY DEF ReindexIndexes, ReindexGivesUp, Enqueue, files, stats
<1>2. Current(f)'
  <2>1. Current(f)
    BY <1>1 DEF CurrentOrDropped
  <2>2. CASE f = g
    BY <1>1, <2>2 DEF MeetsOthers, Swept, Current, Present
  <2>3. CASE f # g
    BY <1>1, <2>1, <2>3 DEF MeetsOthers, Current, Present
  <2> QED BY <2>2, <2>3
<1>3. ASSUME ReindexIndexes(g) PROVE KeptOrToCome(f)'
  <2>1. /\ UNCHANGED store /\ index' = [index EXCEPT ![g] = disk[g]] /\ givenUp' = givenUp \ {g}
        /\ unprocessed' = unprocessed \ {g}
    BY <1>3 DEF ReindexIndexes, queue
  <2>2. CASE f = g
    BY <1>0, <1>1, <2>1, <2>2 DEF KeptOrToCome, Kept, Unresolved, Present
  <2>3. CASE f # g
    <3>1. Kept(f) => Kept(f)'
      BY <1>0, <1>1, <2>1, <2>3, KeptQuiet DEF MeetsOthers
    <3> QED BY <1>1, <2>3, <3>1 DEF KeptOrToCome
  <2> QED BY <2>2, <2>3
<1>4. ASSUME ReindexGivesUp(g) PROVE KeptOrToCome(f)'
  <2>1. PICK hash \in EventHashes(g) : Enqueue(g, hash)
    BY <1>4 DEF ReindexGivesUp
  <2>2. CASE f = g
    BY <1>1, <2>1, <2>2, EnqueueSelf DEF KeptOrToCome
  <2>3. CASE f # g
    <3>1. Kept(f) => Kept(f)'
      BY <1>0, <1>1, <2>1, <2>3, EnqueueOther DEF MeetsOthers
    <3> QED BY <1>1, <2>3, <3>1 DEF KeptOrToCome
  <2> QED BY <2>2, <2>3
<1> QED BY <1>2, <1>3, <1>4 DEF CurrentOrDropped

LEMMA ShutdownKeeps ==
  ASSUME Base, NEW f \in Files, CurrentOrDropped(f), KeptOrToCome(f),
         ReprocessAborted \/ \E g \in Files : HandlerAborted(g)
  PROVE  CurrentOrDropped(f)' /\ KeptOrToCome(f)'
<1>1. ASSUME NEW g \in Files, HandlerAborted(g)
      PROVE  CurrentOrDropped(f)' /\ KeptOrToCome(f)'
  <2>1. /\ UNCHANGED <<disk, index, queue, sweep, removing, raced, unprocessed, aborted, cut, todo, lastIndexed>>
        /\ aborted /\ owed' = owed \ {g} /\ givenUp' = givenUp \cup {g}
    BY <1>1 DEF HandlerAborted, stats
  <2>2. Kept(f) => Kept(f)'
    BY <2>1, KeptQuiet DEF queue
  <2>3. CurrentOrDropped(f)'
    BY <2>1 DEF CurrentOrDropped, Current, Present
  <2> QED BY <2>1, <2>2, <2>3 DEF KeptOrToCome
<1>2. CASE ReprocessAborted
  <2>1. /\ UNCHANGED <<disk, owed, index, store, removing, raced, givenUp, unprocessed, aborted, todo,
                       lastIndexed>>
        /\ sweep.step \in {"read", "embed"} /\ sweep'.step \in {"remove", "retry"}
        /\ sweep'.todo = sweep.todo /\ sweep'.cur = sweep.cur
        /\ cut' = cut \cup {sweep.cur.file}
    BY <1>2, AbortedSweep DEF ReprocessAborted, files, queue, dlqHistory, stats
  <2>2. CurrentOrDropped(f)'
    BY <2>1 DEF CurrentOrDropped, Current, Present
  <2>3. ASSUME Kept(f), f # sweep.cur.file PROVE Kept(f)'
    <3> SUFFICES ASSUME f \in Unresolved', f \notin Excused' PROVE Queued(f)'
      BY DEF Kept
    <3>1. Queued(f)
      BY <2>1, <2>3 DEF Kept, Unresolved, Present, Excused
    <3>2. PICK o \in store : Covers(o, f)
      BY <2>1, <3>1 DEF Queued, Pending
    <3>3. o.id # sweep.cur.id
      BY <2>1, <2>3, <3>2, Holdings DEF Covers, InHand
    <3> QED BY <2>1, <3>2, <3>3 DEF Queued, Covers, Fits, InHand
  <2> QED BY <2>1, <2>2, <2>3 DEF KeptOrToCome
<1> QED BY <1>1, <1>2

\* The steps of the reindex that leave the queue alone; once a completion is
\* recorded, no file is to come any more.
LEMMA RecordKeeps ==
  ASSUME Base, NEW f \in Files, CurrentOrDropped(f), KeptOrToCome(f), CutNoted,
         \/ LockStep /\ (RecordStarts \/ RecordSuccess \/ RecordIncomplete)
         \/ /\ UNCHANGED dlqVars
            /\ ReindexStarts \/ ReindexLists \/ ReindexThrows \/ ReindexProcessed \/ StopRequested
  PROVE  CurrentOrDropped(f)' /\ KeptOrToCome(f)'
<1>1. UNCHANGED <<disk, owed, index, store, sweep, removing, raced, givenUp, unprocessed>>
  BY DEF LockStep, dlqVars, files, queue, dlqHistory
<1>2. Kept(f)' <=> Kept(f)
  BY <1>1 DEF Kept, Unresolved, Present, Excused, Queued, Covers, Fits, Pending, InHand
<1>3. Current(f)' <=> Current(f)
  BY <1>1 DEF Current, Present
<1>4. aborted => aborted'
  BY DEF RecordStarts, RecordSuccess, RecordIncomplete, RecordEnds, ReindexStarts, ReindexLists,
     ReindexThrows, ReindexProcessed, StopRequested
<1>5. KeptOrToCome(f)'
  <2>1. CASE RecordStarts \/ RecordIncomplete \/ ReindexStarts \/ ReindexThrows \/ StopRequested
    BY <1>2, <2>1 DEF RecordStarts, RecordIncomplete, RecordEnds, ReindexStarts, ReindexThrows,
       StopRequested, KeptOrToCome, stats
  <2>2. CASE RecordSuccess
    BY <1>2, <2>2 DEF RecordSuccess, RecordEnds, KeptOrToCome, CutNoted
  <2>3. CASE ReindexLists
    <3>1. ~Kept(f) => f \in Present
      BY DEF Kept, Unresolved
    <3> QED BY <1>2, <2>3, <3>1 DEF ReindexLists, KeptOrToCome, stats
  <2>4. CASE ReindexProcessed
    BY <1>2, <2>4 DEF ReindexProcessed, KeptOrToCome, stats
  <2> QED BY <2>1, <2>2, <2>3, <2>4
<1> QED BY <1>1, <1>3, <1>4, <1>5 DEF CurrentOrDropped

LEMMA CompletionStep ==
  CompletionInv /\ [CompletionNext]_completionVars => CompletionInv'
<1> SUFFICES ASSUME CompletionInv, [CompletionNext]_completionVars PROVE CompletionInv'
  OBVIOUS
<1>1. Base' /\ CutNoted'
  BY BaseCompletion, CutStep DEF CompletionInv
<1>2. ASSUME NEW f \in Files PROVE CurrentOrDropped(f)' /\ KeptOrToCome(f)'
  <2>1. Base /\ CurrentOrDropped(f) /\ KeptOrToCome(f) /\ CutNoted
    BY DEF CompletionInv
  <2>2. CASE UNCHANGED completionVars
    BY <2>1, <2>2 DEF completionVars, dlqVars, files, queue, dlqHistory, stats, CurrentOrDropped,
       KeptOrToCome, Current, Kept, Excused, Unresolved, Present, Queued, Covers, Fits, Pending, InHand
  <2>3. CASE Restarted /\ RuntimeRestarts
    <3>1. Current(f)' /\ (Kept(f) => Kept(f)')
      BY <2>1, <2>3, KeptRestarted
    <3> QED BY <2>1, <2>3, <3>1 DEF RuntimeRestarts, CurrentOrDropped, KeptOrToCome, stats
  <2>4. CASE CompletionNext
    BY <2>1, <2>3, <2>4, CompletionSteps, QueueStepKeeps, ReindexKeeps, ShutdownKeeps, RecordKeeps
  <2> QED BY <2>2, <2>4
<1> QED BY <1>1, <1>2 DEF CompletionInv

\* Once an index counts as complete (index_stats after atomicCompletionCheck()),
\* every file whose vectors are out of date, with no event to come, is in the
\* dead-letter queue: failures of the reindex, of later handlers and of the sweep
\* are all there, through crashes and shutdowns.  Excused are files given up by
\* a limit, met by two at a time, cut off by a shutdown, or taken out by the
\* sweep because their event had no hash.
THEOREM CompletedIsAccounted == CompletionSpec => []CompletedAccountsForAll
<1>1. CompletionInv => CompletedAccountsForAll
  <2> SUFFICES ASSUME CompletionInv, Completed, NEW f \in Unresolved
               PROVE  f \in FilesOf(store) \cup givenUp \cup raced \cup cut \cup unprocessed
    BY DEF CompletedAccountsForAll
  <2>1. KeptOrToCome(f) /\ lastIndexed
    BY DEF CompletionInv, Completed, Unresolved, Present
  <2> QED BY <2>1, QueuedStored DEF KeptOrToCome, Kept, Excused
<1>2. CompletionInv /\ [CompletionNext]_completionVars => CompletionInv'
  BY CompletionStep
<1> QED BY CompletionInitially, <1>1, <1>2, PTL DEF CompletionSpec

\* atomicCompletionCheck() finds the queue empty, under the lock, only when no
\* file is left with vectors that are out of date; the same files are excused.
THEOREM RecordedMeansResolved == CompletionSpec => SuccessMeansResolved
<1>1. CompletionInv /\ [CompletionNext]_completionVars
        => [RecordSuccess => Unresolved \subseteq givenUp \cup raced \cup cut \cup unprocessed]_completionVars
  <2> SUFFICES ASSUME CompletionInv, RecordSuccess, NEW f \in Unresolved
               PROVE  f \in givenUp \cup raced \cup cut \cup unprocessed
    OBVIOUS
  <2>1. KeptOrToCome(f) /\ CutNoted
    BY DEF CompletionInv, Unresolved, Present
  <2>2. store = {} /\ step = "check"
    BY DEF RecordSuccess
  <2>3. ~Queued(f)
    BY <2>2, QueuedStored DEF FilesOf
  <2> QED BY <2>1, <2>2, <2>3 DEF KeptOrToCome, Kept, Excused, CutNoted
<1>2. CompletionInv /\ [CompletionNext]_completionVars => CompletionInv'
  BY CompletionStep
<1> QED BY CompletionInitially, <1>1, <1>2, PTL DEF CompletionSpec, SuccessMeansResolved

\* The completion lock, the removals and the sweep keep memory and database the
\* same beside a reindex, too.
THEOREM CompletionMatches == CompletionSpec => []MemoryMatchesStore
<1>1. CompletionInit => Base
  BY CompletionInitially DEF CompletionInv
<1>2. Base => MemoryMatchesStore
  BY DEF Base, MatchInv
<1> QED BY <1>1, <1>2, BaseCompletion, PTL DEF CompletionSpec

LEMMA CompletionTypes ==
  CompletionTypeOK /\ Base /\ Base' /\ [CompletionNext]_completionVars => CompletionTypeOK'
<1> SUFFICES ASSUME CompletionTypeOK, Base, Base', [CompletionNext]_completionVars
             PROVE  CompletionTypeOK'
  OBVIOUS
<1>1. DlqTypeOK' /\ sweep \in SweepType /\ EntryInHand
  BY DEF Base, DlqTyped, DlqTypeOK, SweepType
<1> USE DEF CompletionTypeOK
<1>2. CASE UNCHANGED completionVars
  BY <1>1, <1>2 DEF completionVars, stats
<1>3. CASE FilesChange \/ HandlersWork \/ QueueWorks \/ SweepWorks
  BY <1>1, <1>3 DEF FilesChange, HandlersWork, QueueWorks, SweepWorks, stats
<1>4. CASE ReindexStarts \/ ReindexLists \/ ReindexProcessed \/ ReindexThrows
  BY <1>1, <1>4 DEF ReindexStarts, ReindexLists, ReindexProcessed, ReindexThrows, stats, Present
<1>5. ASSUME NEW f \in Files, ReindexIndexes(f) \/ ReindexGivesUp(f) \/ HandlerAborted(f)
      PROVE  CompletionTypeOK'
  BY <1>1, <1>5 DEF ReindexIndexes, ReindexGivesUp, HandlerAborted, stats
<1>6. CASE RecordStarts \/ RecordSuccess \/ RecordIncomplete
  BY <1>1, <1>6 DEF RecordStarts, RecordSuccess, RecordIncomplete, RecordEnds, stats
<1>7. CASE StopRequested \/ RuntimeRestarts
  BY <1>1, <1>7 DEF StopRequested, RuntimeRestarts, Completed, stats
<1>8. CASE ReprocessAborted
  <2>1. sweep.cur.file \in Files
    BY <1>1, <1>8 DEF ReprocessAborted, EntryInHand, Entry
  <2> QED BY <1>1, <1>8, <2>1 DEF ReprocessAborted, stats
<1> QED BY <1>2, <1>3, <1>4, <1>5, <1>6, <1>7, <1>8 DEF CompletionNext, ReindexWorks

\* The state of the reindex and of the queue below it is well typed.
THEOREM CompletionTyped == CompletionSpec => []CompletionTypeOK
<1>1. CompletionInit => Base
  BY CompletionInitially DEF CompletionInv
<1>2. CompletionInit => CompletionTypeOK
  BY <1>1 DEF CompletionInit, CompletionTypeOK, Base, DlqTyped, Present
<1> QED BY <1>1, <1>2, BaseCompletion, CompletionTypes, PTL DEF CompletionSpec

-----------------------------------------------------------------------------
(***************************************************************************)
(* The completion lock, which the reindex, the sweep, the handlers and the *)
(* removals all want.                                                      *)
(***************************************************************************)

\* It is held over several steps by recordCompletion() alone, while that looks
\* at the queue; then the reindex waits for nothing.
LockIsForTheCheck == lock <=> step = "check"

\* After the abort signal the reindex, if there is one, can take its next step,
\* and so can the sweep, unless it waits for that look at the queue.
ShutdownGoesOn ==
  aborted =>
    /\ step # "idle" => step \in {"scan", "files", "check"} \/ (step = "record" /\ ~lock)
    /\ sweep.step # "idle" =>
         \/ sweep.step \in {"health", "next", "hash", "read", "embed"}
         \/ sweep.step \in {"purge", "remove", "retry"} /\ (~lock \/ step = "check")

\* What the queue does within one step leaves the lock as it was.
LEMMA LockStays ==
  ASSUME \/ Load \/ FileChanges \/ HandlerSucceeds \/ HandlerGivesUp \/ RemovalsEnd
         \/ SweepGoesOn \/ ProviderDown \/ StartSweep \/ Reprocesses
  PROVE  UNCHANGED lock
<1> USE DEF Enqueue, RemoveEntries
<1>1. CASE Load \/ FileChanges \/ HandlerSucceeds \/ HandlerGivesUp \/ RemovalsEnd
  BY <1>1 DEF Load, FileChanges, Change, HandlerSucceeds, HandlerIndexes, HandlerDeletes,
              HandlerGivesUp, HandlerFails, RemovalsEnd, RemovalEnds
<1>2. CASE SweepGoesOn
  BY <1>2 DEF SweepGoesOn, PurgeExpired, ProviderHealthy, NextEntry, CompareHash, SweepRemoves,
              PutBack, Abandon
<1>3. CASE ProviderDown \/ StartSweep \/ Reprocesses
  BY <1>3 DEF ProviderDown, StartSweep, Reprocesses, ReprocessReads, ReprocessIndexes,
              ReprocessFails
<1> QED BY <1>1, <1>2, <1>3

LEMMA LockIsKept == LockIsForTheCheck /\ [CompletionNext]_completionVars => LockIsForTheCheck'
<1> SUFFICES ASSUME LockIsForTheCheck, [CompletionNext]_completionVars
             PROVE  LockIsForTheCheck'
  OBVIOUS
<1> USE DEF LockIsForTheCheck
<1>1. CASE FilesChange \/ HandlersWork \/ QueueWorks \/ SweepWorks
  BY <1>1, LockStays DEF FilesChange, HandlersWork, QueueWorks, SweepWorks
<1>2. CASE ReindexStarts \/ ReindexLists \/ ReindexProcessed \/ ReindexThrows \/ StopRequested
  BY <1>2 DEF ReindexStarts, ReindexLists, ReindexProcessed, ReindexThrows, StopRequested, dlqVars
<1>3. ASSUME NEW f \in Files, ReindexIndexes(f) \/ ReindexGivesUp(f) \/ HandlerAborted(f)
      PROVE  LockIsForTheCheck'
  BY <1>3 DEF ReindexIndexes, ReindexGivesUp, HandlerAborted, Enqueue
<1>4. CASE RecordStarts \/ RecordSuccess \/ RecordIncomplete
  BY <1>4 DEF RecordStarts, RecordSuccess, RecordIncomplete, RecordEnds
<1>5. CASE ReprocessAborted \/ RuntimeRestarts
  BY <1>5 DEF ReprocessAborted, RuntimeRestarts, Restarted
<1>6. CASE UNCHANGED completionVars
  BY <1>6 DEF completionVars, dlqVars
<1> QED BY <1>1, <1>2, <1>3, <1>4, <1>5, <1>6 DEF CompletionNext, ReindexWorks

\* A shutdown is never stuck on the completion lock: the reindex and the sweep
\* that stop() awaits can go on (completionMutex in src/indexer/pipeline.ts and
\* dead-letter-queue.ts).  These are the guards of the steps that
\* ShutdownNeverStuck finds enabled on its instance.
THEOREM ShutdownGuardsOpen == CompletionSpec => [](LockIsForTheCheck /\ ShutdownGoesOn)
<1>1. CompletionInit => LockIsForTheCheck
  BY DEF CompletionInit, QueueInit, LockIsForTheCheck
<1>2. CompletionTypeOK /\ LockIsForTheCheck => ShutdownGoesOn
  BY DEF CompletionTypeOK, DlqTypeOK, SweepSteppers, LockIsForTheCheck, ShutdownGoesOn
<1> QED BY <1>1, <1>2, LockIsKept, CompletionTyped, PTL DEF CompletionSpec
=============================================================================
