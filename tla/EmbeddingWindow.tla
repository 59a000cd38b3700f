---------------------------- MODULE EmbeddingWindow ----------------------------
(***************************************************************************)
(* Stages 2 and 3 of processEventWindow() (src/indexer/pipeline.ts): the   *)
(* chunks of a window of files get their vectors from the two caches or    *)
(* from a provider (src/plugins/embeddings), and file by file they are     *)
(* written or sent to the dead-letter queue.  Windows of several handlers  *)
(* run side by side; they share the caches, the provider with its limit of *)
(* requests, and, with Ollama, the machine's "ollama" lock                 *)
(* (src/utils/global-lock.ts), which other processes take as well.         *)
(*                                                                         *)
(* A text is named by its hash, and so is its vector.  Requests go out and *)
(* come back one by one; a window is given up when its promise is.         *)
(***************************************************************************)
EXTENDS Naturals, Sequences, FiniteSets, SequencesExt

CONSTANTS
  Windows,         \* windows of handlers and reindexes
  FilesOf,         \* the files of every window, in order
  ChunksOf,        \* the hashes of the chunks of every file, in order
  NoWindow, Other, \* nobody, and another process
  Uncached,        \* no vector
  EmbedBatch,      \* batchSize
  RetryCount,
  MaxConcurrency,
  CacheSize,       \* embeddingCacheSize
  MaxFaults,       \* bound: responses that are no vectors
  MaxOthers        \* bound: times another process takes the lock

ASSUME EmbeddingAssumption ==
  /\ EmbedBatch \in Nat \ {0} /\ MaxConcurrency \in Nat \ {0}
  /\ RetryCount \in Nat /\ CacheSize \in Nat
  /\ MaxFaults \in Nat /\ MaxOthers \in Nat
  /\ NoWindow \notin Windows /\ Other \notin Windows
ASSUME ChunksAssumption ==
  /\ FilesOf \in [Windows -> Seq(DOMAIN ChunksOf)]
  /\ \A f \in DOMAIN ChunksOf : ChunksOf[f] \in Seq(Range(ChunksOf[f]) \ {Uncached})

VARIABLES
  provider,   \* the one that is configured
  window,     \* what every window is doing
  requests,   \* the batches of every window
  memoryCache,  \* hashes in the first cache, the oldest first
  storedCache,  \* hashes in the table embedding_cache
  ollamaLock,   \* who holds it
  stopping,   \* the abort signal of the pipeline
  written,    \* the vectors every file was written with
  queued,     \* files sent to the dead-letter queue
  faults,     \* responses so far that were no vectors
  others      \* times another process took the lock

embeddingVars == <<provider, window, requests, memoryCache, storedCache, ollamaLock,
                   stopping, written, queued, faults, others>>

Providers == {"ollama", "openai-compat", "bedrock"}

ChunksIn(w) == FlattenSeq([i \in DOMAIN FilesOf[w] |-> ChunksOf[FilesOf[w][i]]])

\* setL1Cache() of several hashes: the oldest is evicted from a full cache.
CachePut(cache, h) ==
  IF CacheSize = 0 THEN cache
  ELSE IF Contains(cache, h) THEN Append(Remove(cache, h), h)
  ELSE Append(IF Len(cache) >= CacheSize THEN Tail(cache) ELSE cache, h)
CachePuts(cache, hashes) == FoldLeft(CachePut, cache, hashes)

\* getL1Cache() makes a hit the youngest.
CacheGets(cache, hashes) ==
  FoldLeft(LAMBDA c, h : IF Contains(c, h) THEN Append(Remove(c, h), h) ELSE c,
           cache, hashes)

\* The indices of the chunks that have no vector, in order.
Missing(vectors) ==
  LET without == {i \in DOMAIN vectors : vectors[i] = Uncached}
  IN  [k \in 1 .. Cardinality(without) |->
         CHOOSE i \in without : Cardinality({j \in without : j <= i}) = k]
HashesAt(w, indices) == [k \in DOMAIN indices |-> ChunksIn(w)[indices[k]]]

CeilDiv(n, d) == (n + d - 1) \div d

\* chunkTexts(); Bedrock takes one text per request.
SizeOfBatch == IF provider = "bedrock" THEN 1 ELSE EmbedBatch
Batches(n) == [b \in 1 .. CeilDiv(n, SizeOfBatch) |->
                 [size |-> IF b * SizeOfBatch <= n THEN SizeOfBatch ELSE n % SizeOfBatch,
                  state |-> "waiting", attempt |-> 0]]

\* One text of a batch that is sent again text by text.
SingleText == [size |-> 1, state |-> "single", attempt |-> 0]

\* A retry sleeps within its turn, but for the provider that takes a turn for
\* every request.
TakesTurn(r) == r.state \in {"sent", "alone"} \/ (r.state = "asleep" /\ provider # "openai-compat")
InFlight(w) == {b \in DOMAIN requests[w] : requests[w][b].state \in {"sent", "alone"}}
Turns == UNION {{<<w, b>> : b \in {b \in DOMAIN requests[w] : TakesTurn(requests[w][b])}} :
                  w \in Windows}

-----------------------------------------------------------------------------
\* Stage 2: the first cache.
ReadsMemoryCache(w) ==
  /\ window[w].step = "new"
  /\ window' = [window EXCEPT ![w].step = "lookup",
        ![w].vectors = [i \in DOMAIN ChunksIn(w) |->
           IF Contains(memoryCache, ChunksIn(w)[i]) THEN ChunksIn(w)[i] ELSE Uncached]]
  /\ memoryCache' = CacheGets(memoryCache, ChunksIn(w))
  /\ UNCHANGED <<provider, requests, storedCache, ollamaLock, stopping, written, queued,
                 faults, others>>

\* getEmbeddings(); what both caches miss is embedded.
ReadsStoredCache(w) ==
  /\ window[w].step = "lookup"
  /\ LET indices == Missing(window[w].vectors)
         found == SelectSeq(HashesAt(w, indices), LAMBDA h : h \in storedCache)
         vectors == [i \in DOMAIN window[w].vectors |->
                       IF ChunksIn(w)[i] \in storedCache THEN ChunksIn(w)[i]
                       ELSE window[w].vectors[i]]
     IN  /\ memoryCache' = CachePuts(memoryCache, found)
         /\ window' = [window EXCEPT ![w].vectors = vectors,
              ![w].step = IF Missing(vectors) = <<>> THEN "writing"
                          ELSE IF provider = "ollama" THEN "locking" ELSE "embedding"]
         /\ requests' = [requests EXCEPT ![w] =
              IF provider = "ollama" THEN <<>> ELSE Batches(Len(Missing(vectors)))]
  /\ UNCHANGED <<provider, storedCache, ollamaLock, stopping, written, queued, faults, others>>

\* The Ollama provider does not take the lock.
MutantLocks(w) ==
  /\ window[w].step = "locking"
  /\ window' = [window EXCEPT ![w].step = "embedding"]
  /\ requests' = [requests EXCEPT ![w] = Batches(Len(Missing(window[w].vectors)))]
  /\ UNCHANGED <<provider, memoryCache, storedCache, ollamaLock, stopping, written, queued,
                 faults, others>>

\* acquireGlobalLock(), retried until it is free.
Locks(w) ==
  /\ window[w].step = "locking"
  /\ ollamaLock = NoWindow
  /\ ~stopping
  /\ ollamaLock' = w
  /\ window' = [window EXCEPT ![w].step = "embedding"]
  /\ requests' = [requests EXCEPT ![w] = Batches(Len(Missing(window[w].vectors)))]
  /\ UNCHANGED <<provider, memoryCache, storedCache, stopping, written, queued, faults, others>>

\* A lock that is held is waited for as long as it takes.
MutantGivesUpLock(w) ==
  /\ window[w].step = "locking"
  /\ stopping
  /\ window' = [window EXCEPT ![w].step = "thrown"]
  /\ UNCHANGED <<provider, requests, memoryCache, storedCache, ollamaLock, stopping, written,
                 queued, faults, others>>

\* An abort, or GlobalLockTimeoutError after ollamaLockTimeoutMs, is thrown.
GivesUpLock(w) ==
  /\ window[w].step = "locking"
  /\ stopping \/ ollamaLock # NoWindow
  /\ window' = [window EXCEPT ![w].step = "thrown"]
  /\ UNCHANGED <<provider, requests, memoryCache, storedCache, ollamaLock, stopping, written,
                 queued, faults, others>>

-----------------------------------------------------------------------------
\* Requests.  A batch whose window was given up goes on like the others.
RequestFrame == UNCHANGED <<provider, memoryCache, storedCache, ollamaLock, stopping,
                            written, queued, others>>

Sends(w, b) ==
  /\ b \in DOMAIN requests[w]
  /\ \/ requests[w][b].state \in {"waiting", "single"} /\ Cardinality(Turns) < MaxConcurrency
     \/ /\ requests[w][b].state = "asleep"
        /\ provider = "openai-compat" => Cardinality(Turns) < MaxConcurrency
        /\ ~(stopping /\ provider = "ollama")
  /\ requests' = [requests EXCEPT ![w][b].state = IF @ = "single" THEN "alone" ELSE "sent"]
  /\ UNCHANGED <<window, faults>> /\ RequestFrame

Answers(w, b) ==
  /\ b \in InFlight(w)
  /\ requests' = [requests EXCEPT ![w][b].state = "ok"]
  /\ UNCHANGED <<window, faults>> /\ RequestFrame

\* The first batch that rejects rejects the promise of the window: "exhausted"
\* is RetryExhaustedError, "thrown" any other error.
Rejects(w, b, error) ==
  /\ requests' = [requests EXCEPT ![w][b].state = "failed"]
  /\ window' = [window EXCEPT ![w].error = IF @ = "none" THEN error ELSE @]

\* Time-outs, 429 and 5xx: retried retryCount times.
FailsForNow(w, b) ==
  /\ b \in InFlight(w)
  /\ requests[w][b].state = "sent"
  /\ faults < MaxFaults /\ faults' = faults + 1
  /\ ~(stopping /\ provider = "ollama")
  /\ IF requests[w][b].attempt < RetryCount
     THEN /\ requests' = [requests EXCEPT ![w][b].state = "asleep", ![w][b].attempt = @ + 1]
          /\ UNCHANGED window
     ELSE Rejects(w, b, "exhausted")
  /\ RequestFrame

\* Input that can never be embedded: only Ollama's 400 is sent to the
\* dead-letter queue.
FailsForGood(w, b) ==
  /\ b \in InFlight(w)
  /\ requests[w][b].state = "sent"
  /\ faults < MaxFaults /\ faults' = faults + 1
  /\ Rejects(w, b, IF provider = "ollama" THEN "exhausted" ELSE "thrown")
  /\ RequestFrame

\* DimensionMismatchError, and any failure of the requests for single texts,
\* which are not retried.
Throws(w, b) ==
  /\ b \in InFlight(w)
  /\ faults < MaxFaults /\ faults' = faults + 1
  /\ Rejects(w, b, "thrown")
  /\ RequestFrame

\* EmbeddingCountMismatchError: the turn ends, and the texts are sent one by one,
\* each in a turn of its own.  Ollama's is retried like any other failure.
Miscounts(w, b) ==
  /\ b \in InFlight(w)
  /\ provider = "openai-compat"
  /\ requests[w][b].state = "sent"
  /\ requests[w][b].size > 1
  /\ faults < MaxFaults /\ faults' = faults + 1
  /\ requests' = [requests EXCEPT ![w] =
       [c \in 1 .. (Len(requests[w]) + requests[w][b].size) |->
          IF c \notin DOMAIN requests[w] THEN SingleText
          ELSE IF c = b THEN [requests[w][b] EXCEPT !.state = "split"] ELSE requests[w][c]]]
  /\ UNCHANGED window /\ RequestFrame

\* Only Ollama's requests listen to the abort signal.
Aborts(w, b) ==
  /\ b \in DOMAIN requests[w]
  /\ provider = "ollama" /\ stopping
  /\ requests[w][b].state \in {"sent", "asleep"}
  /\ Rejects(w, b, "thrown")
  /\ UNCHANGED faults /\ RequestFrame

\* embed() settles with the last batch, or with the first that rejects, and
\* the lock is released.  All chunks of a batch come in its order.
Embedded(w) == \A b \in DOMAIN requests[w] : requests[w][b].state \in {"ok", "split"}

Settles(w) ==
  /\ window[w].step = "embedding"
  /\ Embedded(w) \/ window[w].error # "none"
  /\ ollamaLock' = IF ollamaLock = w THEN NoWindow ELSE ollamaLock
  /\ window' = [window EXCEPT ![w].step =
       CASE window[w].error = "none" -> "caching"
         [] window[w].error = "exhausted" -> "writing"
         [] OTHER -> "thrown"]
  /\ UNCHANGED <<provider, requests, memoryCache, storedCache, stopping, written, queued,
                 faults, others>>

\* Fresh vectors go into both caches; a table that cannot be written throws.
Caches(w) ==
  /\ window[w].step = "caching"
  /\ LET indices == Missing(window[w].vectors)
         fresh == HashesAt(w, indices)
     IN  /\ memoryCache' = CachePuts(memoryCache, fresh)
         /\ \/ /\ storedCache' = storedCache \cup Range(fresh)
               /\ window' = [window EXCEPT ![w].step = "writing", ![w].vectors =
                    [i \in DOMAIN @ |->
                       IF @[i] = Uncached
                       THEN fresh[CHOOSE k \in DOMAIN indices : indices[k] = i] ELSE @[i]]]
               /\ UNCHANGED faults
            \/ /\ faults < MaxFaults /\ faults' = faults + 1
               /\ window' = [window EXCEPT ![w].step = "thrown"]
               /\ UNCHANGED storedCache
  /\ UNCHANGED <<provider, requests, ollamaLock, stopping, written, queued, others>>

-----------------------------------------------------------------------------
\* Stage 3, file by file.
Current(w) == FilesOf[w][window[w].next]
Slice(w) == LET n == Len(ChunksOf[Current(w)])
            IN  SubSeq(window[w].vectors, window[w].offset + 1, window[w].offset + n)

Writing(w) ==
  /\ window[w].step = "writing"
  /\ window[w].next <= Len(FilesOf[w])
  /\ ~stopping

WriteFrame == UNCHANGED <<provider, requests, memoryCache, storedCache, ollamaLock, stopping,
                          faults, others>>

\* The offset stays where it was.
MutantQueuesFile(w) ==
  /\ Writing(w)
  /\ Uncached \in Range(Slice(w))
  /\ queued' = queued \cup {Current(w)}
  /\ window' = [window EXCEPT ![w].next = @ + 1]
  /\ UNCHANGED written /\ WriteFrame

\* A file that waits for a vector goes to the dead-letter queue.
QueuesFile(w) ==
  /\ Writing(w)
  /\ Uncached \in Range(Slice(w))
  /\ queued' = queued \cup {Current(w)}
  /\ window' = [window EXCEPT ![w].next = @ + 1, ![w].offset = @ + Len(ChunksOf[Current(w)])]
  /\ UNCHANGED written /\ WriteFrame

WritesFile(w) ==
  /\ Writing(w)
  /\ Uncached \notin Range(Slice(w))
  /\ written' = [written EXCEPT ![Current(w)] = <<Slice(w)>>]
  /\ window' = [window EXCEPT ![w].next = @ + 1, ![w].offset = @ + Len(ChunksOf[Current(w)])]
  /\ UNCHANGED queued /\ WriteFrame

Ends(w) ==
  /\ window[w].step = "writing"
  /\ window[w].next > Len(FilesOf[w]) \/ stopping
  /\ window' = [window EXCEPT ![w].step = "done"]
  /\ UNCHANGED <<written, queued>> /\ WriteFrame

\* pipeline.stop()
Stop ==
  /\ ~stopping
  /\ stopping' = TRUE
  /\ UNCHANGED <<provider, window, requests, memoryCache, storedCache, ollamaLock, written,
                 queued, faults, others>>

OtherLocks ==
  /\ provider = "ollama"
  /\ ollamaLock = NoWindow
  /\ others < MaxOthers /\ others' = others + 1
  /\ ollamaLock' = Other
  /\ UNCHANGED <<provider, window, requests, memoryCache, storedCache, stopping, written,
                 queued, faults>>

OtherUnlocks ==
  /\ ollamaLock = Other
  /\ ollamaLock' = NoWindow
  /\ UNCHANGED <<provider, window, requests, memoryCache, storedCache, stopping, written,
                 queued, faults, others>>

-----------------------------------------------------------------------------
EmbeddingInit ==
  /\ provider \in Providers
  /\ window = [w \in Windows |-> [step |-> "new", vectors |-> <<>>, error |-> "none",
                                  next |-> 1, offset |-> 0]]
  /\ requests = [w \in Windows |-> <<>>]
  /\ memoryCache = <<>>
  /\ storedCache = {}
  /\ ollamaLock = NoWindow
  /\ stopping = FALSE
  /\ written = [f \in DOMAIN ChunksOf |-> <<>>]
  /\ queued = {}
  /\ faults = 0 /\ others = 0

RequestStep(w) ==
  \E b \in DOMAIN requests[w] :
    \/ Sends(w, b) \/ Answers(w, b) \/ FailsForNow(w, b) \/ FailsForGood(w, b)
    \/ Throws(w, b) \/ Miscounts(w, b) \/ Aborts(w, b)

WindowStep(w) ==
  \/ ReadsMemoryCache(w) \/ ReadsStoredCache(w) \/ Locks(w) \/ GivesUpLock(w)
  \/ Settles(w) \/ Caches(w) \/ QueuesFile(w) \/ WritesFile(w) \/ Ends(w)

EmbeddingNext ==
  \/ \E w \in Windows : WindowStep(w) \/ RequestStep(w)
  \/ Stop
  \/ OtherLocks
  \/ OtherUnlocks

EmbeddingSpec == EmbeddingInit /\ [][EmbeddingNext]_embeddingVars

\* Handlers go on, requests have a time limit.
EmbeddingFairness ==
  \A w \in Windows : WF_embeddingVars(WindowStep(w)) /\ WF_embeddingVars(RequestStep(w))

FairEmbeddingSpec == EmbeddingSpec /\ EmbeddingFairness

-----------------------------------------------------------------------------
EmbeddingTypeOK ==
  /\ provider \in Providers
  /\ ollamaLock \in Windows \cup {NoWindow, Other}
  /\ Len(memoryCache) <= CacheSize /\ IsInjective(memoryCache)
  /\ Cardinality(Turns) <= MaxConcurrency

\* Every file is written with the vectors of its own chunks, in their order,
\* whichever of them came from a cache, from a batch or were lost.
FilesGetTheirVectors ==
  \A f \in DOMAIN ChunksOf : written[f] \in {<<>>, <<ChunksOf[f]>>}

\* A window that went to its end has written or queued every file, and only
\* files are queued some chunk of which neither cache held when its batch failed.
WindowsAccountForFiles ==
  /\ \A w \in Windows : window[w].step = "done" /\ ~stopping =>
       \A f \in Range(FilesOf[w]) : f \in queued \/ written[f] # <<>>
  /\ \A f \in queued : \E w \in Windows :
       /\ f \in Range(FilesOf[w]) /\ window[w].error = "exhausted"
       /\ ~(Range(ChunksOf[f]) \subseteq Range(window[w].vectors))

\* Both hold however the windows share caches, lock and provider
\* (the offsets of the batches, src/src/indexer/pipeline.ts:643).
WindowsKeepFiles == FilesGetTheirVectors /\ WindowsAccountForFiles

\* "ollama" is asked by one window at a time, except for requests that a window
\* left behind when its first batch failed.
OneAsksOllama ==
  provider = "ollama" =>
    \A w \in Windows : InFlight(w) # {} => ollamaLock = w \/ window[w].error # "none"

\* Every window that has begun to look for its vectors comes to its end.
WindowsEnd == \A w \in Windows : window[w].step = "lookup" ~> window[w].step \in {"done", "thrown"}
=============================================================================
