---------------------------- MODULE ProjectConnector ----------------------------
(***************************************************************************)
(* ensureProjectEndpoint() (src/server/project-connector.ts): connectors   *)
(* that find the managed server of a project, or start it, at the same     *)
(* time, against the life of the processes (ServerProcess); then the       *)
(* session that a bridge opens with the address (src/bin/http-bridge.ts).  *)
(*                                                                         *)
(* A call reads the descriptor and checks its server's health up to four   *)
(* times: first of all, again under the startup lock, in the poll for the  *)
(* server to come, and last, after a failure, to remove what is stale.     *)
(***************************************************************************)
EXTENDS ServerProcess

VARIABLES
  conn,        \* each connector: where it is, which descriptor it has read, its child
  startupLock  \* the connector that holds the global lock of the project's startup

connectorVars == <<serverVars, conn, startupLock>>

Connectors == Clients

Ended == {"connected", "session", "done", "failed", "killed"}

Puts(c, at, stage) == conn' = [conn EXCEPT ![c].at = at, ![c].stage = stage]

Released(c) == IF startupLock = c THEN None ELSE startupLock

-----------------------------------------------------------------------------
\* What follows if the descriptor is missing or names no healthy server.
Invalid(c) ==
  CASE conn[c].stage = "first" -> [at |-> "match", stage |-> "first"]
    [] conn[c].stage = "again" -> [at |-> "spawn", stage |-> "again"]
    [] conn[c].stage = "poll"  -> [at |-> "read",  stage |-> "poll"]
    [] conn[c].stage = "last"  -> [at |-> "match", stage |-> "last"]

\* What follows a removal: the startup lock, or the error.
Removed(c) == IF conn[c].stage = "first" THEN "want" ELSE "failed"

\* readProjectEndpoint()
Reads(c) ==
  /\ conn[c].at = "read"
  /\ IF descriptor # None
     THEN conn' = [conn EXCEPT ![c].at = "check", ![c].seen = descriptor]
     ELSE IF Invalid(c).at = "match" THEN Puts(c, Removed(c), conn[c].stage)
     ELSE Puts(c, Invalid(c).at, Invalid(c).stage)
  /\ UNCHANGED <<serverVars, startupLock>>

\* validateEndpoint() finds a healthy server: the call returns its address,
\* unless it has failed already.
Connects(c) ==
  /\ conn[c].at = "check"
  /\ Healthy(conn[c].seen)
  /\ Puts(c, IF conn[c].stage = "last" THEN "failed" ELSE "connected", conn[c].stage)
  /\ startupLock' = Released(c)
  /\ UNCHANGED serverVars

\* The process is dead, or /health does not answer in time.
Rejects(c) ==
  /\ conn[c].at = "check"
  /\ IF Healthy(conn[c].seen) THEN Befalls("slow") ELSE UNCHANGED trouble
  /\ Puts(c, Invalid(c).at, Invalid(c).stage)
  /\ UNCHANGED <<pc, managed, lockVars, descriptor, sessions, timers, signalled, killed, startupLock>>

\* The descriptor is removed whichever it is.
MutantMatches(c) ==
  /\ conn[c].at = "match"
  /\ conn' = [conn EXCEPT ![c].at = IF descriptor = None THEN Removed(c) ELSE "unlink",
                         ![c].seen = descriptor]
  /\ UNCHANGED <<serverVars, startupLock>>

\* removeProjectEndpointIfMatching(): the file is compared with what was read ...
Matches(c) ==
  /\ conn[c].at = "match"
  /\ Puts(c, IF descriptor = conn[c].seen THEN "unlink" ELSE Removed(c), conn[c].stage)
  /\ UNCHANGED <<serverVars, startupLock>>

\* ... and the name is removed, whatever it stands for by then.
RemovesStale(c) ==
  /\ conn[c].at = "unlink"
  /\ descriptor' = None
  /\ Notes("raced", descriptor \notin {conn[c].seen, None})
  /\ Puts(c, Removed(c), conn[c].stage)
  /\ UNCHANGED <<pc, managed, lockVars, sessions, timers, signalled, killed, startupLock>>

-----------------------------------------------------------------------------
\* The winner of the lock does not look for a descriptor again.
MutantTakesLock(c) ==
  /\ conn[c].at = "want"
  /\ startupLock = None
  /\ startupLock' = c
  /\ Puts(c, "spawn", "again")
  /\ UNCHANGED serverVars

\* acquireGlobalLock(): the lock is free at one of the attempts ...
TakesLock(c) ==
  /\ conn[c].at = "want"
  /\ startupLock = None
  /\ startupLock' = c
  /\ Puts(c, "read", "again")
  /\ UNCHANGED serverVars

\* ... or held at all of them: another connector starts the server.
WaitsForWinner(c) ==
  /\ conn[c].at = "want"
  /\ startupLock # None
  /\ Puts(c, "read", "poll")
  /\ UNCHANGED <<serverVars, startupLock>>

\* The child is started, detached.
Spawns(c) ==
  /\ conn[c].at = "spawn"
  /\ \E p \in Servers :
       /\ Spawn(p, TRUE)
       /\ conn' = [conn EXCEPT ![c].at = "read", ![c].stage = "poll", ![c].child = p]
  /\ UNCHANGED <<trouble, startupLock>>

\* A failing call returns without giving the lock back.
MutantFails(c) ==
  /\ Puts(c, "failed", conn[c].stage)
  /\ UNCHANGED startupLock

\* The call gives the lock back, and who has spawned looks for what the child left.
Fails(c) ==
  /\ IF startupLock = c THEN Puts(c, "read", "last") ELSE Puts(c, "failed", conn[c].stage)
  /\ startupLock' = Released(c)

\* spawn() reports an error.
SpawnFails(c) ==
  /\ conn[c].at = "spawn"
  /\ Befalls("failure")
  /\ Fails(c)
  /\ UNCHANGED <<pc, managed, lockVars, descriptor, sessions, timers, signalled, killed>>

Polls(c) == conn[c].stage = "poll" /\ conn[c].at \in {"read", "check"}

\* The child's 'close' event comes before a healthy descriptor.
ChildCloses(c) ==
  /\ Polls(c)
  /\ conn[c].child # None
  /\ pc[conn[c].child] = "gone"
  /\ Fails(c)
  /\ UNCHANGED serverVars

\* A server is there or on its way.
Expected ==
  \/ \E p \in managed : pc[p] \in Starting \/ (Healthy(p) /\ descriptor = p)
  \/ \E k \in Connectors : startupLock = k /\ conn[k].stage = "again"

\* startupTimeoutMs passes. It is long for a server that is on its way: that it
\* passes then is a fault.
Deadline(c) ==
  /\ Polls(c)
  /\ IF Expected THEN Befalls("deadline") ELSE UNCHANGED trouble
  /\ Fails(c)
  /\ UNCHANGED <<pc, managed, lockVars, descriptor, sessions, timers, signalled, killed>>

-----------------------------------------------------------------------------
\* The bridge opens its session; a server that closed meanwhile refuses it.
OpensSession(c) ==
  /\ conn[c].at = "connected"
  /\ IF Healthy(conn[c].seen)
     THEN OpenSession(conn[c].seen, c) /\ Puts(c, "session", conn[c].stage)
     ELSE Puts(c, "done", conn[c].stage) /\ UNCHANGED serverVars
  /\ UNCHANGED startupLock

\* The bridge ends its session, or finds that the server ended it.
EndsSession(c) ==
  /\ conn[c].at = "session"
  /\ Puts(c, "done", conn[c].stage)
  /\ IF c \in sessions[conn[c].seen] THEN CloseSession(conn[c].seen, c) ELSE UNCHANGED serverVars
  /\ UNCHANGED startupLock

ConnectorKilled(c) ==
  /\ conn[c].at \notin {"done", "failed", "killed"}
  /\ Befalls("crash")
  /\ Puts(c, "killed", conn[c].stage)
  /\ UNCHANGED <<pc, managed, lockVars, descriptor, sessions, timers, signalled, killed, startupLock>>

\* The interval closes a session its client does not use any more.
SessionExpires(p, c) ==
  /\ conn[c].at = "killed"
  /\ CloseSession(p, c)
  /\ UNCHANGED <<conn, startupLock>>

\* proper-lockfile takes the lock of a dead holder for free after 60 seconds.
StartupLockStale ==
  /\ startupLock # None /\ conn[startupLock].at = "killed"
  /\ startupLock' = None
  /\ UNCHANGED <<serverVars, conn>>

\* The user starts a server of another mode, or a reindex.
UserStarts ==
  /\ \E p \in Servers : Spawn(p, FALSE)
  /\ Befalls("plain")
  /\ UNCHANGED <<conn, startupLock>>

ConnectorInit ==
  /\ ServerInit
  /\ conn = [c \in Connectors |-> [at |-> "read", stage |-> "first", seen |-> None, child |-> None]]
  /\ startupLock = None

ConnectorSteps(c) ==
  \/ Reads(c) \/ Connects(c) \/ Rejects(c) \/ Matches(c) \/ RemovesStale(c)
  \/ TakesLock(c) \/ WaitsForWinner(c) \/ Spawns(c) \/ ChildCloses(c)

ProcessWorks(p) == ServerSteps(p) /\ UNCHANGED <<conn, startupLock>>
ProcessIdles(p) == TimerFires(p) /\ UNCHANGED <<conn, startupLock>>
ProcessBefallen(p) == ServerBefallen(p) /\ UNCHANGED <<conn, startupLock>>
LocksExpire == StartupLockStale \/ (ProjectLockStale /\ UNCHANGED <<conn, startupLock>>)

ConnectorNext ==
  \/ \E c \in Connectors :
       \/ ConnectorSteps(c) \/ SpawnFails(c) \/ Deadline(c)
       \/ OpensSession(c) \/ EndsSession(c) \/ ConnectorKilled(c)
       \/ \E p \in Servers : SessionExpires(p, c)
  \/ \E p \in Servers : ProcessWorks(p) \/ ProcessIdles(p) \/ ProcessBefallen(p)
  \/ UserStarts
  \/ LocksExpire

ConnectorSpec == ConnectorInit /\ [][ConnectorNext]_connectorVars

-----------------------------------------------------------------------------
ConnectorTypeOK ==
  /\ ServerTypeOK
  /\ conn \in [Connectors ->
       [at : Ended \cup {"read", "check", "match", "unlink", "want", "spawn"},
        stage : {"first", "again", "poll", "last"},
        seen : Servers \cup {None}, child : Servers \cup {None}]]
  /\ \A c \in Connectors :
       conn[c].at \in {"check", "unlink", "connected", "session"} => conn[c].seen # None
  /\ startupLock \in Connectors \cup {None}

\* As long as nothing goes wrong, no call fails, and however many are made at
\* once they start one server, also over the files a dead process left.
OneServerForAll ==
  trouble = {} =>
    /\ \A c \in Connectors : conn[c].at # "failed"
    /\ Cardinality({p \in Servers \ {Old} : pc[p] # "unborn"}) <= 1

\* The startup lock is held by calls that go on, or whose process was killed: no
\* way out of a call keeps it from the next.
LockHeldByCalls ==
  startupLock # None => conn[startupLock].at \notin Ended \ {"killed"}
=============================================================================
