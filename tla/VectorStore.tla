------------------------------ MODULE VectorStore ------------------------------
(***************************************************************************)
(* LanceVectorStore as an object over its files                            *)
(* (src/storage/vector-store.ts): initialize() and what it recovers from   *)
(* metadata.json, the chain of promises that orders the writes, the writes *)
(* of the table "chunks" with the counters they keep beside it, compaction *)
(* on demand and by the idle timer, and close() with its time limit, under *)
(* failures of single steps and deaths of the process.  The structured     *)
(* table is the subject of StructuredIndex.                                *)
(*                                                                         *)
(* A row is counted, not named: rows[f] is how many chunks of f the table  *)
(* holds.  One step of a call is the code between two awaits that others   *)
(* can tell apart.  A call is a record that names its kind, its files, the *)
(* rows it still has to add and the call whose promise it waits for.       *)
(***************************************************************************)
EXTENDS Integers, FiniteSets, Functions

CONSTANTS
  Calls,        \* identities of calls, used again when they have settled
  NoCall,       \* no call
  Files,        \* files with rows in the table
  BatchSize,    \* rows added at once, 500 in the code
  MaxRows,      \* bound: rows of one file
  MaxStale,     \* bound: rows that may be stale when a write is called
  MaxFailures,  \* bound: calls that fail on the way
  MaxRestarts   \* bound: ends and deaths of the process

ASSUME NoCallAssumption == NoCall \notin Calls
ASSUME BatchAssumption == BatchSize \in Nat \ {0}
ASSUME FilesAssumption == IsFiniteSet(Files)
ASSUME StoreBoundsAssumption ==
  /\ MaxRows \in Nat \ {0}
  /\ MaxStale \in Nat
  /\ MaxFailures \in Nat
  /\ MaxRestarts \in Nat

VARIABLES
  rows,      \* rows of every file in the table on disk
  created,   \* whether the table exists on disk
  sidecar,   \* metadata.json: what it says of the counters, if it is there
  life,      \* "new", "open", "closing" or "closed"
  opened,    \* handles: "none", "db" or "table" when this.table is set, too
  stats,     \* staleCount and totalFiles in memory
  call,      \* what every call is doing
  tail,      \* writeMutex: the write whose promise it is
  timer,     \* idle compaction: "none", "armed" or "waiting" for the mutex
  failures,  \* calls that failed so far
  restarts,  \* processes that ended so far
  drifted,   \* history: a write was cut short after it had changed rows
  behind,    \* history: metadata.json could not be written the last time
  cuts,      \* history: writes cut short while there was no metadata.json
  forced     \* history: close() went on without waiting for everyone

disk == <<rows, created, sidecar>>
memory == <<life, opened, stats>>
promises == <<call, tail>>
history == <<failures, restarts, drifted, behind, cuts, forced>>
vars == <<disk, memory, promises, timer, history>>

-----------------------------------------------------------------------------
Missing == <<>>
NoCounters == [stale |-> 0, total |-> 0]
Settled == [kind |-> "none", files |-> {}, add |-> 0, step |-> "settled",
            after |-> NoCall, gain |-> NoCounters]

Writes == {"upsert", "delete", "compact", "optimize"}
Pending == {c \in Calls : call[c].step # "settled"}

Indexed == {f \in Files : rows[f] > 0}

Total == FoldFunction(+, 0, rows)

\* The counters a sidecar stands for: an invalid total is counted again.
Recovered(file) ==
  [stale |-> IF file = Missing THEN 0 ELSE file[1].stale,
   total |-> IF file = Missing \/ file[1].total < 0 THEN Cardinality(Indexed)
             ELSE file[1].total]

\* A call settles: those that wait for its promise go on.
Settling(c) ==
  /\ call' = [d \in Calls |->
                IF d = c THEN Settled
                ELSE IF call[d].after = c THEN [call[d] EXCEPT !.after = NoCall]
                ELSE call[d]]
  /\ tail' = IF tail = c THEN NoCall ELSE tail

Goes(c, step) == call' = [call EXCEPT ![c].step = step] /\ UNCHANGED tail

\* trackOp(): a closed store rejects the call.  runInWriteLock() also makes its
\* promise the one that later calls wait for.
MutantBegin(c, kind, files, add) ==
  /\ life \in {"new", "open"}
  /\ c \notin Pending
  /\ call' = [call EXCEPT ![c] = [kind |-> kind, files |-> files, add |-> add,
                                  step |-> "called", after |-> NoCall,
                                  gain |-> NoCounters]]
  /\ tail' = IF kind \in Writes THEN c ELSE tail

Begin(c, kind, files, add) ==
  /\ life \in {"new", "open"}
  /\ c \notin Pending
  /\ call' = [call EXCEPT ![c] = [kind |-> kind, files |-> files, add |-> add,
                                  step |-> "called",
                                  after |-> IF kind = "initialize" THEN NoCall ELSE tail,
                                  gain |-> NoCounters]]
  /\ tail' = IF kind \in Writes THEN c ELSE tail

-----------------------------------------------------------------------------
\* initialize(): one promise for all who ask at once.
Initialize(c) ==
  /\ life = "new"
  /\ \A d \in Pending : call[d].kind # "initialize"
  /\ Begin(c, "initialize", {}, 0)
  /\ UNCHANGED <<disk, memory, timer, history>>

\* upsertChunks(): the rows of one file are replaced.
Upsert(c, f, n) ==
  /\ stats.stale <= MaxStale
  /\ Begin(c, "upsert", {f}, n)
  /\ UNCHANGED <<disk, memory, timer, history>>

\* deleteByFilePath() and deleteByPathPrefix().
Delete(c, files) ==
  /\ stats.stale <= MaxStale
  /\ Begin(c, "delete", files, 0)
  /\ UNCHANGED <<disk, memory, timer, history>>

\* compactIfNeeded(), compactAfterReindex(), search() and getStats().
Call(c, kind) ==
  /\ Begin(c, kind, {}, 0)
  /\ UNCHANGED <<disk, memory, timer, history>>

\* The promise a call waits for has settled.
Turn(c) ==
  /\ call[c].step = "called"
  /\ call[c].after = NoCall
  /\ Goes(c, "running")
  /\ UNCHANGED <<disk, memory, timer, history>>

Running(c, kinds) == call[c].step = "running" /\ call[c].kind \in kinds

\* Dimensions are taken from metadata.json alone.
MutantReadable == ~created \/ sidecar # Missing

\* Dimensions are taken from metadata.json or from a row.
Readable == ~created \/ sidecar # Missing \/ Indexed # {}

InitializeFails(c) ==
  /\ Running(c, {"initialize"})
  /\ ~Readable
  /\ Settling(c)
  /\ UNCHANGED <<disk, memory, timer, history>>

\* The tables are opened and the counters read; a store that was closed in the
\* meantime keeps nothing.
Commits(c) ==
  /\ Running(c, {"initialize"})
  /\ Readable
  /\ IF life = "new"
     THEN /\ life' = "open"
          /\ opened' = IF created THEN "table" ELSE "db"
          /\ stats' = IF created THEN Recovered(sidecar) ELSE stats
     ELSE UNCHANGED memory
  /\ drifted' = (drifted /\ sidecar # Missing)
  /\ Settling(c)
  /\ UNCHANGED <<disk, timer, failures, restarts, behind, cuts, forced>>

Reads(c) ==
  /\ Running(c, {"read"})
  /\ Settling(c)
  /\ UNCHANGED <<disk, memory, timer, history>>

-----------------------------------------------------------------------------
\* The bodies of the writes, each alone between its turn and its end.  What a
\* body gains for the counters is added when its rows are written.
Connected == opened # "none"

\* A write of a store that is not open or was released throws; one that finds
\* nothing to do returns.
NothingToDo(k) ==
  \/ k.kind \in {"upsert", "delete"} /\ ~Connected
  \/ k.kind = "delete" /\ (opened # "table" \/ k.files \cap Indexed = {})
  \/ k.kind = "compact" /\ (stats.stale = 0 \/ 5 * stats.stale < Total + stats.stale)
  \/ k.kind = "optimize" /\ opened # "table" /\ stats.stale = 0

Returns(c) ==
  /\ Running(c, Writes)
  /\ NothingToDo(call[c])
  /\ Settling(c)
  /\ UNCHANGED <<disk, memory, timer, history>>

Changed(c, step, stale, total) ==
  /\ call' = [call EXCEPT ![c].step = step, ![c].gain = [stale |-> stale, total |-> total]]
  /\ UNCHANGED tail

\* Rows of the file go before the new ones come.
Replaces(c) ==
  /\ Running(c, {"upsert"})
  /\ ~NothingToDo(call[c])
  /\ LET held == call[c].files \cap Indexed
     IN  Changed(c, "adding", FoldFunctionOnSet(+, 0, rows, held),
                 Cardinality(call[c].files \ held))
  /\ rows' = [f \in Files |-> IF f \in call[c].files THEN 0 ELSE rows[f]]
  /\ UNCHANGED <<created, sidecar, memory, timer, history>>

\* One batch; the first ever creates the table.
Adds(c) ==
  /\ call[c].step = "adding"
  /\ call[c].add > 0
  /\ Connected
  /\ LET n == IF call[c].add < BatchSize THEN call[c].add ELSE BatchSize
     IN  /\ rows' = [f \in Files |-> IF f \in call[c].files THEN rows[f] + n ELSE rows[f]]
         /\ call' = [call EXCEPT ![c].add = @ - n]
  /\ created' = TRUE
  /\ opened' = "table"
  /\ UNCHANGED <<sidecar, life, stats, tail, timer, history>>

\* A prefix counts as one file.
MutantRemoves(c) ==
  /\ Running(c, {"delete"})
  /\ ~NothingToDo(call[c])
  /\ LET held == call[c].files \cap Indexed
     IN  Changed(c, "adding", FoldFunctionOnSet(+, 0, rows, held), -1)
  /\ rows' = [f \in Files |-> IF f \in call[c].files THEN 0 ELSE rows[f]]
  /\ UNCHANGED <<created, sidecar, memory, timer, history>>

Removes(c) ==
  /\ Running(c, {"delete"})
  /\ ~NothingToDo(call[c])
  /\ LET held == call[c].files \cap Indexed
     IN  Changed(c, "adding", FoldFunctionOnSet(+, 0, rows, held), -Cardinality(held))
  /\ rows' = [f \in Files |-> IF f \in call[c].files THEN 0 ELSE rows[f]]
  /\ UNCHANGED <<created, sidecar, memory, timer, history>>

Compacts(c) ==
  /\ Running(c, {"compact", "optimize"})
  /\ ~NothingToDo(call[c])
  /\ Changed(c, "adding", -stats.stale, 0)
  /\ UNCHANGED <<disk, memory, timer, history>>

Counts(c) ==
  /\ call[c].step = "adding"
  /\ call[c].add = 0
  /\ stats' = [stale |-> stats.stale + call[c].gain.stale,
               total |-> stats.total + call[c].gain.total]

\* updateMetadata() writes a temporary file and renames it, also in a store
\* that was released in the meantime.
Records(c) ==
  /\ Counts(c)
  /\ sidecar' = <<stats'>>
  /\ behind' = FALSE
  /\ Settling(c)
  /\ UNCHANGED <<rows, created, life, opened, timer, failures, restarts, drifted, cuts, forced>>

\* updateMetadata() throws: the counters in memory have changed.
FailsToRecord(c) ==
  /\ failures < MaxFailures /\ failures' = failures + 1
  /\ Counts(c)
  /\ behind' = TRUE
  /\ cuts' = IF sidecar = Missing /\ call[c].kind \in {"upsert", "delete"} THEN cuts + 1 ELSE cuts
  /\ Settling(c)
  /\ UNCHANGED <<disk, life, opened, timer, restarts, drifted, forced>>

\* A write is cut short: what it did to the rows is not counted.
Cut(S) == {c \in S : call[c].step = "adding" /\ call[c].kind \in {"upsert", "delete"}}

CutShort(S) ==
  /\ drifted' = (drifted \/ Cut(S) # {})
  /\ cuts' = IF Cut(S) # {} /\ sidecar = Missing THEN cuts + 1 ELSE cuts

\* A step throws, and what follows it in the call is not done.
Fails(c) ==
  /\ failures < MaxFailures
  /\ call[c].step \in {"running", "adding"}
  /\ CutShort({c})
  /\ failures' = failures + 1
  /\ Settling(c)
  /\ UNCHANGED <<disk, memory, timer, restarts, behind, forced>>

\* The tables were released under a write that still has rows to add.
LosesTables(c) ==
  /\ call[c].step = "adding"
  /\ call[c].add > 0
  /\ ~Connected
  /\ CutShort({c})
  /\ Settling(c)
  /\ UNCHANGED <<disk, memory, timer, failures, restarts, behind, forced>>

-----------------------------------------------------------------------------
\* scheduleIdleCompaction(): the timer fires once, waits for the mutex of the
\* pipeline and calls compactIfNeeded(), unless the store was closed.
SchedulesCompaction ==
  /\ life = "open"
  /\ timer = "none"
  /\ timer' = "armed"
  /\ UNCHANGED <<disk, memory, promises, history>>

TimerFires ==
  /\ timer = "armed"
  /\ timer' = "waiting"
  /\ UNCHANGED <<disk, memory, promises, history>>

IdleCompaction(c) ==
  /\ timer = "waiting"
  /\ timer' = "none"
  /\ Begin(c, "compact", {}, 0)
  /\ UNCHANGED <<disk, memory, history>>

\* The wait is aborted, or it ends in a store that was closed.
GivesUpCompaction ==
  /\ timer = "waiting"
  /\ timer' = "none"
  /\ UNCHANGED <<disk, memory, promises, history>>

\* close() refuses calls from now on.
Close ==
  /\ life \in {"new", "open"}
  /\ life' = "closing"
  /\ timer' = IF timer = "armed" THEN "none" ELSE timer
  /\ UNCHANGED <<disk, opened, stats, promises, history>>

\* waitForInflightOperations() ends with the last call or with its timer, and
\* releaseLanceResources() follows.
Releases(expired) ==
  /\ life = "closing"
  /\ expired = (Pending # {})
  /\ life' = "closed"
  /\ opened' = "none"
  /\ forced' = expired
  /\ UNCHANGED <<disk, stats, promises, timer, failures, restarts, drifted, behind, cuts>>

\* The process dies or ends, and another one starts.
Restart ==
  /\ restarts < MaxRestarts
  /\ restarts' = restarts + 1
  /\ drifted' = (drifted \/ Cut(Calls) # {} \/ behind)
  /\ cuts' = IF Cut(Calls) # {} /\ sidecar = Missing THEN cuts + 1 ELSE cuts
  /\ behind' = FALSE
  /\ life' = "new"
  /\ opened' = "none"
  /\ stats' = NoCounters
  /\ call' = [c \in Calls |-> Settled]
  /\ tail' = NoCall
  /\ timer' = "none"
  /\ forced' = FALSE
  /\ UNCHANGED <<disk, failures>>

-----------------------------------------------------------------------------
Init ==
  /\ rows = [f \in Files |-> 0]
  /\ created = FALSE
  /\ sidecar = Missing
  /\ life = "new"
  /\ opened = "none"
  /\ stats = NoCounters
  /\ call = [c \in Calls |-> Settled]
  /\ tail = NoCall
  /\ timer = "none"
  /\ failures = 0
  /\ restarts = 0
  /\ drifted = FALSE /\ behind = FALSE
  /\ cuts = 0
  /\ forced = FALSE

CallMade(c) ==
  \/ Initialize(c)
  \/ \E f \in Files, n \in 1 .. MaxRows : Upsert(c, f, n)
  \/ \E files \in SUBSET Files \ {{}} : Delete(c, files)
  \/ \E kind \in {"compact", "optimize", "read"} : Call(c, kind)

BodyStep(c) ==
  \/ InitializeFails(c)
  \/ Commits(c)
  \/ Reads(c)
  \/ Returns(c)
  \/ Replaces(c)
  \/ Adds(c)
  \/ Removes(c)
  \/ Compacts(c)
  \/ Records(c)
  \/ FailsToRecord(c)
  \/ Fails(c)
  \/ LosesTables(c)

Next ==
  \/ \E c \in Calls : CallMade(c) \/ Turn(c) \/ BodyStep(c) \/ IdleCompaction(c)
  \/ SchedulesCompaction
  \/ TimerFires
  \/ GivesUpCompaction
  \/ Close
  \/ \E expired \in BOOLEAN : Releases(expired)
  \/ Restart

Spec == Init /\ [][Next]_vars

-----------------------------------------------------------------------------
VectorTypeOK ==
  /\ rows \in [Files -> 0 .. MaxRows]
  /\ life \in {"new", "open", "closing", "closed"}
  /\ created \in BOOLEAN
  /\ opened \in {"none", "db", "table"}
  /\ opened = "table" => created
  /\ tail \in Calls \cup {NoCall}
  /\ \A c \in Pending : call[c].after \in (Pending \ {c}) \cup {NoCall}
  /\ timer \in {"none", "armed", "waiting"}

Writing == {c \in Calls : call[c].step = "adding"}

\* totalFiles, which is kept by additions and subtractions and carried from one
\* process to the next in metadata.json, is the number of files the table
\* holds rows of whenever no write is under way, unless one was cut short or
\* metadata.json could not be written before the process ended.
CountersMatchRows ==
  life = "open" /\ Writing = {} /\ ~drifted =>
    /\ stats.total = Cardinality(Indexed)
    /\ behind \/ sidecar \in {Missing, <<stats>>}

\* One write that is cut short never leaves a store that refuses to open again:
\* it takes a second one before metadata.json was ever written.
OneCutStaysReadable == Pending = {} /\ ~Readable => cuts >= 2

\* Sets of calls that hold with a call also the one whose promise it waits for.
Chained(S) == \A d \in S : call[d].after \in S \cup {NoCall}

\* The writes a call waits for, by the chain of promises.
Before(c) ==
  {d \in Calls : \A S \in SUBSET Calls :
                   Chained(S) /\ call[c].after \in S \cup {NoCall} => d \in S}

Promised == INSTANCE ManagedStore WITH
  pending <- Pending,
  writing <- {c \in Pending : call[c].kind \in Writes},
  started <- {c \in Pending : call[c].step # "called"},
  before <- [c \in Calls |-> Before(c)]

\* The store keeps what ManagedStore promises.
KeepsPromises == Promised!StoreSpec
=============================================================================
