------------------------------ MODULE FileWatcher ------------------------------
(***************************************************************************)
(* FileWatcher (src/indexer/watcher.ts): start() and stop() around the     *)
(* watcher of the chokidar library, whose first scan ends in "ready" or in *)
(* an error.  stop() may come at any point of start(), and leaves it to    *)
(* start() to close what it has opened.                                    *)
(***************************************************************************)
VARIABLES
  watching,     \* what has become of the library's watcher
  isStopped,    \* stop() was called after the last start()
  startResult   \* of start(): "none", "pending", "resolved", "limit" or "rejected"

watcherVars == <<watching, isStopped, startResult>>

WatcherStates ==
  {"none",       \* no watcher
   "boundary",   \* start() has not made it yet
   "scanning",   \* it has not said "ready"
   "watching",   \* it reports changes
   "failing",    \* an error before "ready": start() closes it
   "halting",    \* "ready" after stop(): start() closes it
   "closing"}    \* stop() closes it

IsStarting == watching \in {"boundary", "scanning", "failing", "halting"}

\* start() returns at once when there is a watcher.
StartWatcher ==
  IF watching \in {"none", "closing"}
  THEN watching' = "boundary" /\ isStopped' = FALSE /\ startResult' = "pending"
  ELSE /\ startResult' = IF watching = "boundary" THEN "pending" ELSE "resolved"
       /\ UNCHANGED <<watching, isStopped>>

\* createWatcher(), after asyncBoundary().
CreatesWatcher ==
  /\ watching = "boundary"
  /\ watching' = "scanning"
  /\ UNCHANGED <<isStopped, startResult>>

BecomesReady ==
  /\ watching = "scanning"
  /\ IF isStopped
     THEN watching' = "halting" /\ UNCHANGED startResult
     ELSE watching' = "watching" /\ startResult' = "resolved"
  /\ UNCHANGED isStopped

FailsToWatch ==
  /\ watching = "scanning"
  /\ watching' = "failing"
  /\ UNCHANGED <<isStopped, startResult>>

\* close() of the library's watcher ends.  EMFILE and ENOSPC are told apart by
\* the caller of start().
WatcherCloses ==
  /\ watching \in {"failing", "halting", "closing"}
  /\ watching' = "none"
  /\ startResult' \in (CASE watching = "failing" -> {"limit", "rejected"}
                         [] watching = "halting" -> {"resolved"}
                         [] OTHER -> {startResult})
  /\ UNCHANGED isStopped

\* stop() closes a watcher that is ready; it waits for one that is starting.
StopWatcher ==
  /\ isStopped' = TRUE
  /\ watching' = IF watching = "watching" THEN "closing" ELSE watching
  /\ UNCHANGED startResult

\* What stop() waits for.
WatcherStopped == ~IsStarting /\ watching # "closing"

WatcherStep == CreatesWatcher \/ BecomesReady \/ FailsToWatch \/ WatcherCloses

WatcherInit ==
  /\ watching = "none"
  /\ isStopped = FALSE
  /\ startResult = "none"

WatcherTypeOK ==
  /\ watching \in WatcherStates
  /\ isStopped \in BOOLEAN
  /\ startResult \in {"none", "pending", "resolved", "limit", "rejected"}
=============================================================================
