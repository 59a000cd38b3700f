------------------------------ MODULE MCServices ------------------------------
(***************************************************************************)
(* Three parts of a server that do not meet, in one run: the first state   *)
(* says which of them works, and the others stay as they are.              *)
(***************************************************************************)
EXTENDS RuntimeLifecycle, HttpSessions, HybridSearch

CONSTANTS s1, s2, q1, q2, ca, cb, la, lb, lc

VARIABLE part  \* the part that works

serviceVars == <<part, lifeVars, httpVars, searchVars>>

Runtime == part = "runtime" /\ UNCHANGED <<part, httpVars, searchVars>>
Transport == part = "transport" /\ UNCHANGED <<part, lifeVars, searchVars>>
Search == part = "search" /\ UNCHANGED <<part, lifeVars, httpVars>>

ServicesInit ==
  /\ part \in {"runtime", "transport", "search"}
  /\ LifeInit
  /\ HttpInit
  /\ SearchInit
  /\ part # "search" => absolute = (TRUE \in PathForms)

ServicesNext ==
  \/ Runtime /\ Initialize
  \/ Runtime /\ MetadataOpens
  \/ Runtime /\ StoreOpens
  \/ Runtime /\ StoresFail
  \/ Runtime /\ Reconciles
  \/ Runtime /\ WatcherStarts
  \/ Runtime /\ Starts
  \/ Runtime /\ RollsBack
  \/ Runtime /\ RollbackReleases
  \/ Runtime /\ RollbackUnwatches
  \/ Runtime /\ RollbackEnds
  \/ Runtime /\ WatcherWorks
  \/ Runtime /\ FileChanges
  \/ Runtime /\ DrainHands
  \/ Runtime /\ HandlerEnds
  \/ \E c \in Calls : \/ Runtime /\ WriterCalls(c)
                      \/ Runtime /\ StoreWorks(c)
  \/ Runtime /\ ReindexEnds
  \/ Runtime /\ IdleTimerFires
  \/ Runtime /\ IdleCompacts
  \/ Runtime /\ StoreCloses
  \/ Runtime /\ Close
  \/ Runtime /\ CloseStopsMetrics
  \/ Runtime /\ CloseAwaitsReindex
  \/ Runtime /\ CloseStopsPipeline
  \/ Runtime /\ CloseReleases
  \/ Runtime /\ CloseEndsLoop
  \/ Runtime /\ CloseEndsLog
  \/ Runtime /\ CloseUnlocks
  \/ \E s \in Sessions : \/ Transport /\ CreateSessionEntry(s)
                         \/ Transport /\ SessionInitialized(s)
                         \/ Transport /\ HandleRequest(s)
                         \/ Transport /\ RequestEnds(s, TRUE)
                         \/ Transport /\ RequestEnds(s, FALSE)
                         \/ Transport /\ FirstRequestFails(s)
                         \/ Transport /\ OnClose(s)
                         \/ Transport /\ TimePasses(s)
                         \/ Transport /\ EntryClosed(s)
  \/ Transport /\ CleansUp
  \/ Transport /\ Dispose
  \/ Transport /\ DisposeEnds
  \/ \E s \in Searches : \/ Search /\ Ask(s)
                         \/ Search /\ Abort(s)
                         \/ Search /\ Embeds(s)
                         \/ Search /\ ReadsRows(s)
                         \/ Search /\ ResolvesGenerations(s)
                         \/ Search /\ SemanticFails(s)
                         \/ Search /\ StartsGrep(s)
                         \/ Search /\ Matches(s)
                         \/ Search /\ GrepFails(s)
                         \/ Search /\ Stops(s)
                         \/ Search /\ Responds(s)

\* LifeFairness and SearchFairness, of the part that works.
ServicesFairness ==
  /\ WF_serviceVars(Runtime /\ InitializeStep)
  /\ WF_serviceVars(Runtime /\ WatcherWorks)
  /\ SF_serviceVars(Runtime /\ HandlerEnds)
  /\ SF_serviceVars(Runtime /\ ReindexEnds)
  /\ \A c \in Calls : WF_serviceVars(Runtime /\ StoreWorks(c))
  /\ WF_serviceVars(Runtime /\ StoreCloses)
  /\ WF_serviceVars(Runtime /\ CloseStep)
  /\ \A s \in Searches : /\ WF_serviceVars(Search /\ StartsGrep(s))
                         /\ WF_serviceVars(Search /\ Stops(s))

ServicesSpec == ServicesInit /\ [][ServicesNext]_serviceVars /\ ServicesFairness

\* Two lines of one chunk and one of another, in two files.
LineChunk == (la :> ca) @@ (lb :> ca) @@ (lc :> cb)
Ranks == (ca :> 1) @@ (la :> 1) @@ (lb :> 1) @@ (cb :> 2) @@ (lc :> 2)

\* One search finds something.
Hits == (q1 :> 2) @@ (q2 :> 0)
=============================================================================
