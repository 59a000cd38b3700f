----------------------------- MODULE ServerProcess -----------------------------
(***************************************************************************)
(* The life of a Nexus process over one storage directory: the pid file    *)
(* (src/server/process-lock.ts), the project lock that createRuntime takes *)
(* and runtime.close() gives back, and, for a process in managed mode, the *)
(* descriptor that tells others its address, the sessions it serves, its   *)
(* two timers and its shutdown (src/server/managed-http-server.ts,         *)
(* src/bin/nexus.ts).                                                      *)
(*                                                                         *)
(* A step ends at an await of the file system. Files are named by the      *)
(* process that wrote them: each process writes the pid file and the       *)
(* descriptor once. The lock of proper-lockfile is taken to be atomic; it  *)
(* is stale once its holder is dead for long enough.                       *)
(***************************************************************************)
EXTENDS Naturals, FiniteSets

CONSTANTS
  Servers,       \* processes
  Old,           \* one of them, dead from the start, that may have left files
  Clients,       \* who opens sessions
  None,          \* no process: the file is not there
  IdleShutdown,  \* whether idleShutdownMs is set
  MaxTrouble     \* bound: kinds of faults in a behaviour

ASSUME ServerAssumption ==
  /\ Old \in Servers
  /\ None \notin Servers \cup Clients \cup [of : Servers, written : BOOLEAN]
  /\ IdleShutdown \in BOOLEAN
  /\ MaxTrouble \in Nat

VARIABLES
  pc,           \* where each process is
  managed,      \* the processes in managed mode
  pidFile,      \* nexus.pid: who created it and whether the pid is written
  projectLock,  \* holder of .nexus-lock
  descriptor,   \* the project endpoint: the process it points to
  sessions,     \* the clients with a session, per process
  timers,       \* the timers of a process that are set
  signalled,    \* the processes without the exit listener any more
  killed,       \* history: processes that did not come to the end of a shutdown
  trouble       \* history: what went wrong so far

lockVars == <<pidFile, projectLock>>
serverVars == <<pc, managed, lockVars, descriptor, sessions, timers, signalled, killed, trouble>>

Starting == {"inspect", "reclaim", "create", "write", "start", "listen"}
Serving == {"publish", "serve"}
Closing == {"closing", "unpublish", "unlink", "release", "exit"}

Faults == {"crash", "slow", "deadline", "failure", "stop", "plain"}
Races == {"raced", "misjudged", "idle"}

Alive(p) == pc[p] \notin {"unborn", "gone"}
\* /health answers, with the instance the descriptor names.
Healthy(p) == p \in managed /\ pc[p] \in Serving

\* A fault of a kind that did not happen yet, within the bound.
Befalls(kind) ==
  /\ kind \notin trouble
  /\ Cardinality(trouble \cap Faults) < MaxTrouble
  /\ trouble' = trouble \cup {kind}

Notes(kind, happened) == trouble' = IF happened THEN trouble \cup {kind} ELSE trouble

Goes(p, step) == pc' = [pc EXCEPT ![p] = step]

-----------------------------------------------------------------------------
(* acquireProcessLock(). *)

\* The file is read and its process looked for. A process that finds another
\* alive exits before it has registered the exit listener.
Inspects(p) ==
  /\ pc[p] = "inspect"
  /\ Goes(p, IF pidFile = None THEN "create"
             ELSE IF pidFile.written /\ Alive(pidFile.of) THEN "gone" ELSE "reclaim")
  /\ UNCHANGED <<managed, lockVars, descriptor, sessions, timers, signalled, killed, trouble>>

\* The file that was found stale, or without a pid, is removed by its name.
Reclaims(p) ==
  /\ pc[p] = "reclaim"
  /\ pidFile' = None
  /\ Notes("misjudged", pidFile # None /\ Alive(pidFile.of))
  /\ Goes(p, "create")
  /\ UNCHANGED <<managed, projectLock, descriptor, sessions, timers, signalled, killed>>

\* The exit listener is registered before the lock is known to be one's own.
MutantCreates(p) ==
  /\ pc[p] = "create"
  /\ IF pidFile = None
     THEN pidFile' = [of |-> p, written |-> FALSE] /\ Goes(p, "write")
     ELSE Goes(p, "gone") /\ pidFile' = None
  /\ UNCHANGED <<managed, projectLock, descriptor, sessions, timers, signalled, killed, trouble>>

\* open(lockPath, 'wx'), and exit if the file is there.
Creates(p) ==
  /\ pc[p] = "create"
  /\ IF pidFile = None
     THEN pidFile' = [of |-> p, written |-> FALSE] /\ Goes(p, "write")
     ELSE Goes(p, "gone") /\ UNCHANGED pidFile
  /\ UNCHANGED <<managed, projectLock, descriptor, sessions, timers, signalled, killed, trouble>>

\* The pid goes to the open file, whether it still has its name or not.
Writes(p) ==
  /\ pc[p] = "write"
  /\ pidFile' = IF pidFile # None /\ pidFile.of = p THEN [pidFile EXCEPT !.written = TRUE]
                ELSE pidFile
  /\ Goes(p, "start")
  /\ UNCHANGED <<managed, projectLock, descriptor, sessions, timers, signalled, killed, trouble>>

\* process.exit(1): the exit listener, which a managed process removes at a
\* signal, unlinks the pid file, and that of proper-lockfile releases its lock.
Exits(p) ==
  /\ Goes(p, "gone")
  /\ pidFile' = IF p \in signalled \cap managed THEN pidFile ELSE None
  /\ projectLock' = IF projectLock = p THEN None ELSE projectLock
  /\ sessions' = [sessions EXCEPT ![p] = {}]
  /\ timers' = [timers EXCEPT ![p] = {}]
  /\ UNCHANGED <<managed, descriptor, signalled>>

-----------------------------------------------------------------------------
(* main() and startManagedHttpServer(). *)

\* The pid file is the only lock.
MutantStarts(p) ==
  /\ pc[p] = "start"
  /\ Goes(p, IF p \in managed THEN "listen" ELSE "serve")
  /\ UNCHANGED <<lockVars, managed, descriptor, sessions, timers, signalled, killed, trouble>>

\* createRuntime(): without the project lock it throws, and main() exits.
Starts(p) ==
  /\ pc[p] = "start"
  /\ IF projectLock = None
     THEN /\ projectLock' = p
          /\ Goes(p, IF p \in managed THEN "listen" ELSE "serve")
          /\ UNCHANGED <<pidFile, managed, descriptor, sessions, timers, signalled>>
     ELSE Exits(p)
  /\ UNCHANGED <<killed, trouble>>

\* A part of the runtime, the listening or the initialization in the background,
\* for which a shutdown waits, fails: handleFatalError() exits.
StartFails(p) ==
  /\ pc[p] \in {"start", "listen", "serve", "closing"}
  /\ Befalls("failure")
  /\ killed' = killed \cup {p}
  /\ Exits(p)

\* The server listens and writes its descriptor, ...
Publishes(p) ==
  /\ pc[p] = "listen"
  /\ descriptor' = p
  /\ Goes(p, "publish")
  /\ UNCHANGED <<managed, lockVars, sessions, timers, signalled, killed, trouble>>

\* ... and sets the timer of the grace period when that is done.
ArmsGrace(p) ==
  /\ pc[p] = "publish"
  /\ timers' = [timers EXCEPT ![p] = @ \cup {"grace"}]
  /\ Goes(p, "serve")
  /\ UNCHANGED <<managed, lockVars, descriptor, sessions, signalled, killed, trouble>>

\* onSessionOpen
OpenSession(p, c) ==
  /\ Healthy(p)
  /\ sessions' = [sessions EXCEPT ![p] = @ \cup {c}]
  /\ timers' = [timers EXCEPT ![p] = {}]
  /\ UNCHANGED <<pc, managed, lockVars, descriptor, signalled, killed, trouble>>

\* No timer is set when the last session closes.
MutantCloseSession(p, c) ==
  /\ Healthy(p)
  /\ c \in sessions[p]
  /\ sessions' = [sessions EXCEPT ![p] = @ \ {c}]
  /\ UNCHANGED <<pc, managed, lockVars, descriptor, timers, signalled, killed, trouble>>

\* onSessionClose: the client's DELETE, or nothing was heard of it for long.
CloseSession(p, c) ==
  /\ Healthy(p)
  /\ c \in sessions[p]
  /\ sessions' = [sessions EXCEPT ![p] = @ \ {c}]
  /\ timers' = [timers EXCEPT ![p] =
                  IF sessions[p] = {c} /\ IdleShutdown THEN @ \cup {"idle"} ELSE @]
  /\ UNCHANGED <<pc, managed, lockVars, descriptor, signalled, killed, trouble>>

-----------------------------------------------------------------------------
(* close() of the managed server, and the shutdown of the others. *)

\* No connection is accepted any more; the sessions are disposed of.
Closes(p) ==
  /\ Goes(p, "closing")
  /\ sessions' = [sessions EXCEPT ![p] = {}]
  /\ timers' = [timers EXCEPT ![p] = {}]
  /\ UNCHANGED <<managed, lockVars, descriptor, killed>>

GraceEnds(p) ==
  /\ pc[p] = "serve"
  /\ "grace" \in timers[p]
  /\ IF sessions[p] = {}
     THEN Closes(p) /\ Notes("idle", TRUE)
     ELSE /\ timers' = [timers EXCEPT ![p] = @ \ {"grace"}]
          /\ UNCHANGED <<pc, managed, lockVars, descriptor, sessions, killed, trouble>>
  /\ UNCHANGED signalled

IdleEnds(p) ==
  /\ pc[p] \in Serving
  /\ "idle" \in timers[p]
  /\ Closes(p)
  /\ Notes("idle", TRUE)
  /\ UNCHANGED signalled

\* SIGINT or SIGTERM, or the end of `nexus --reindex`. The exit listener is
\* removed: what it does is done by the shutdown.
Signal(p) ==
  /\ pc[p] = "serve"
  /\ Closes(p)
  /\ Befalls("stop")
  /\ signalled' = signalled \cup {p}

\* A signal while a timer's close() is on its way: the handler's own close()
\* returns at once, and the process exits, without the exit listener.
SignalWhileClosing(p) ==
  /\ pc[p] \in Closing
  /\ p \notin signalled
  /\ Befalls("stop")
  /\ killed' = killed \cup {p}
  /\ Goes(p, "gone")
  /\ projectLock' = IF projectLock = p THEN None ELSE projectLock
  /\ UNCHANGED <<managed, pidFile, descriptor, sessions, timers, signalled>>

\* The database is closed and the project lock released.
RuntimeCloses(p) ==
  /\ pc[p] = "closing"
  /\ projectLock' = None
  /\ Goes(p, IF p \in managed THEN "unpublish" ELSE "release")
  /\ UNCHANGED <<managed, pidFile, descriptor, sessions, timers, signalled, killed, trouble>>

\* removeProjectEndpointIfMatching(): the file is read and its inode compared ...
Unpublishes(p) ==
  /\ pc[p] = "unpublish"
  /\ Goes(p, IF descriptor = p THEN "unlink" ELSE "release")
  /\ UNCHANGED <<managed, lockVars, descriptor, sessions, timers, signalled, killed, trouble>>

\* ... before it is removed by its name.
Unlinks(p) ==
  /\ pc[p] = "unlink"
  /\ descriptor' = None
  /\ Notes("raced", descriptor \notin {p, None})
  /\ Goes(p, "release")
  /\ UNCHANGED <<managed, lockVars, sessions, timers, signalled, killed>>

\* releaseProcessLock(), whoever the file belongs to.
Releases(p) ==
  /\ pc[p] = "release"
  /\ pidFile' = None
  /\ Goes(p, "exit")
  /\ UNCHANGED <<managed, projectLock, descriptor, sessions, timers, signalled, killed, trouble>>

\* process.exit(0): the exit listener, unless a signal removed it, unlinks again.
Leaves(p) ==
  /\ pc[p] = "exit"
  /\ Goes(p, "gone")
  /\ pidFile' = IF p \in signalled THEN pidFile ELSE None
  /\ Notes("misjudged", p \notin signalled /\ pidFile # None)
  /\ UNCHANGED <<managed, projectLock, descriptor, sessions, timers, signalled, killed>>

-----------------------------------------------------------------------------
(* What happens to a process. *)

Crash(p) ==
  /\ Alive(p)
  /\ Befalls("crash")
  /\ killed' = killed \cup {p}
  /\ Goes(p, "gone")
  /\ sessions' = [sessions EXCEPT ![p] = {}]
  /\ timers' = [timers EXCEPT ![p] = {}]
  /\ UNCHANGED <<managed, lockVars, descriptor, signalled>>

\* proper-lockfile takes the lock of a dead holder for free after 30 seconds.
ProjectLockStale ==
  /\ projectLock # None /\ ~Alive(projectLock)
  /\ projectLock' = None
  /\ UNCHANGED <<pc, managed, pidFile, descriptor, sessions, timers, signalled, killed, trouble>>

\* A process is started: a managed one by a connector, another by the user.
Spawn(p, isManaged) ==
  /\ pc[p] = "unborn"
  /\ Goes(p, "inspect")
  /\ managed' = IF isManaged THEN managed \cup {p} ELSE managed
  /\ UNCHANGED <<lockVars, descriptor, sessions, timers, signalled, killed>>

ServerInit ==
  /\ pc = [p \in Servers |-> IF p = Old THEN "gone" ELSE "unborn"]
  /\ managed = {}
  /\ pidFile \in {None, [of |-> Old, written |-> TRUE]}
  /\ projectLock = None
  /\ descriptor \in {None, Old}
  /\ sessions = [p \in Servers |-> {}]
  /\ timers = [p \in Servers |-> {}]
  /\ signalled = {}
  /\ killed = {Old}
  /\ trouble = {}

\* The steps a process takes by itself.
ServerSteps(p) ==
  \/ Inspects(p) \/ Reclaims(p) \/ Creates(p) \/ Writes(p)
  \/ Starts(p) \/ Publishes(p) \/ ArmsGrace(p)
  \/ RuntimeCloses(p) \/ Unpublishes(p) \/ Unlinks(p) \/ Releases(p) \/ Leaves(p)

TimerFires(p) == GraceEnds(p) \/ IdleEnds(p)

ServerBefallen(p) == StartFails(p) \/ Signal(p) \/ SignalWhileClosing(p) \/ Crash(p)

-----------------------------------------------------------------------------
(* What holds. *)

ServerTypeOK ==
  /\ pc \in [Servers -> Starting \cup Serving \cup Closing \cup {"unborn", "gone"}]
  /\ managed \subseteq Servers
  /\ pidFile \in {None} \cup [of : Servers, written : BOOLEAN]
  /\ projectLock \in Servers \cup {None}
  /\ descriptor \in Servers \cup {None}
  /\ sessions \in [Servers -> SUBSET Clients]
  /\ timers \in [Servers -> SUBSET {"grace", "idle"}]
  /\ signalled \subseteq Servers
  /\ killed \subseteq Servers
  /\ trouble \subseteq Faults \cup Races

\* The databases are open in one process at most, though the pid file can be
\* taken from a living process (createRuntime's lock, src/server/factory.ts).
OneRuntime ==
  \A p, q \in Servers :
    {pc[p], pc[q]} \subseteq {"listen", "closing"} \cup Serving => p = q

\* A process that came through acquireProcessLock() has its pid file until it
\* releases it. Two things alone can change that: a process that removes a
\* file it has read before, and the exit listener of one that released already.
PidFileStays ==
  "misjudged" \notin trouble =>
    \A p \in Servers :
      pc[p] \in {"start", "listen"} \cup Serving \cup (Closing \ {"exit"}) =>
        pidFile # None /\ pidFile.of = p

\* A managed server that serves is the one the descriptor names, so that others
\* find it, unless its health check timed out or a removal hit a new descriptor.
PublishedWhileServing ==
  trouble \cap {"slow", "raced"} = {} => \A p \in Servers : Healthy(p) => descriptor = p

\* Files are left by processes that were killed or failed only: a shutdown takes
\* the descriptor and the pid file away.
LeftoversOfKilled ==
  \A p \in Servers : pc[p] = "gone" =>
    \/ p \in killed
    \/ descriptor # p /\ (pidFile # None => pidFile.of # p)

\* With idleShutdownMs set a managed server is about to go away exactly while it
\* has no session: a timer runs then, and the idle timer at no other time.
TimersMatchUse ==
  \A p \in managed : pc[p] = "serve" =>
    /\ IdleShutdown /\ sessions[p] = {} => timers[p] # {}
    /\ "idle" \in timers[p] => sessions[p] = {}
=============================================================================
