------------------------- MODULE ProjectConnector_proofs -------------------------
(***************************************************************************)
(* Theorems about ProjectConnector, for any number of processes and        *)
(* connectors and any faults: one runtime at most, who can lose the pid    *)
(* file, who leaves files behind, that no call keeps the startup lock, that*)
(* a serving process is published and that its timer follows its use; and  *)
(* that one server serves every call as long as nothing goes wrong.        *)
(***************************************************************************)
EXTENDS ProjectConnector, FiniteSetTheorems, TLAPS

USE ServerAssumption DEF Connectors

\* From createRuntime() to the end of runtime.close().
RunsRuntime == {"listen", "closing"} \cup Serving

\* From the creation of the pid file to its release.
OwnsPidFile == {"write", "start", "listen"} \cup Serving \cup (Closing \ {"exit"})

\* From the descriptor's publication to its removal.
IsPublished == Serving \cup {"closing", "unpublish", "unlink"}

ProjectLockHeld ==
  \A p \in Servers : pc[p] \in RunsRuntime => projectLock = p

PidFileHeld ==
  "misjudged" \notin trouble =>
    \A p \in Servers : pc[p] \in OwnsPidFile => pidFile # None /\ pidFile.of = p

FilesExplained ==
  \A p \in Servers \ killed :
    /\ descriptor = p => p \in managed /\ pc[p] \in IsPublished
    /\ pidFile # None /\ pidFile.of = p => pc[p] \in OwnsPidFile

\* Only managed processes come to these steps.
ManagedListens ==
  \A p \in Servers : pc[p] \in {"listen", "publish", "unpublish", "unlink"} => p \in managed

SignalledCloses ==
  \A p \in signalled : pc[p] \in Closing \cup {"gone"}

KilledIsGone ==
  \A p \in killed : pc[p] = "gone"

\* The inductive invariant of the processes.
ServerInv ==
  /\ ServerTypeOK
  /\ ProjectLockHeld
  /\ PidFileHeld
  /\ FilesExplained
  /\ ManagedListens
  /\ SignalledCloses
  /\ KilledIsGone

-----------------------------------------------------------------------------
(* Steps of the processes: one lemma per part of the invariant. *)

ServerMoves(p) == ServerSteps(p) \/ TimerFires(p) \/ ServerBefallen(p)

\* A process steps from states of the type to states of the type.
LEMMA TypesKept ==
  ASSUME ServerTypeOK,
         NEW p \in Servers, ServerMoves(p)
  PROVE  ServerTypeOK'
<1> USE DEF ServerTypeOK, Starting, Serving, Closing, Faults, Races, lockVars, Goes, Notes, Alive
<1>1. CASE Inspects(p)
  BY <1>1 DEF Inspects
<1>2. CASE Reclaims(p)
  BY <1>2 DEF Reclaims
<1>3. CASE Creates(p)
  <2>1. [of |-> p, written |-> FALSE] \in [of : Servers, written : BOOLEAN]
    OBVIOUS
  <2>2. pidFile' \in {None} \cup [of : Servers, written : BOOLEAN]
    BY <1>3, <2>1 DEF Creates
  <2> QED  BY <1>3, <2>2 DEF Creates
<1>4. CASE Writes(p)
  BY <1>4 DEF Writes
<1>5. CASE Starts(p)
  BY <1>5 DEF Starts, Exits
<1>6. CASE Publishes(p)
  BY <1>6 DEF Publishes
<1>7. CASE ArmsGrace(p)
  BY <1>7 DEF ArmsGrace
<1>8. CASE RuntimeCloses(p)
  BY <1>8 DEF RuntimeCloses
<1>9. CASE Unpublishes(p)
  BY <1>9 DEF Unpublishes
<1>10. CASE Unlinks(p)
  BY <1>10 DEF Unlinks
<1>11. CASE Releases(p)
  BY <1>11 DEF Releases
<1>12. CASE Leaves(p)
  BY <1>12 DEF Leaves
<1>13. CASE GraceEnds(p)
  BY <1>13 DEF GraceEnds, Closes
<1>14. CASE IdleEnds(p)
  BY <1>14 DEF IdleEnds, Closes
<1>15. CASE StartFails(p)
  BY <1>15 DEF StartFails, Exits, Befalls
<1>16. CASE Signal(p)
  BY <1>16 DEF Signal, Closes, Befalls
<1>17. CASE SignalWhileClosing(p)
  BY <1>17 DEF SignalWhileClosing, Befalls
<1>18. CASE Crash(p)
  BY <1>18 DEF Crash, Befalls
<1> QED
  BY <1>1, <1>2, <1>3, <1>4, <1>5, <1>6, <1>7, <1>8, <1>9, <1>10, <1>11, <1>12, <1>13, <1>14, <1>15, <1>16, <1>17, <1>18
     DEF ServerMoves, ServerSteps, TimerFires, ServerBefallen

\* It takes the project lock before it opens the runtime and closes the runtime
\* before it gives the lock back.
LEMMA ProjectLockKept ==
  ASSUME ServerTypeOK, ProjectLockHeld,
         NEW p \in Servers, ServerMoves(p)
  PROVE  ProjectLockHeld'
<1> USE DEF ServerTypeOK, ProjectLockHeld, RunsRuntime, Starting, Serving, Closing, lockVars, Goes
<1>1. CASE Inspects(p)
  BY <1>1 DEF Inspects
<1>2. CASE Reclaims(p)
  BY <1>2 DEF Reclaims
<1>3. CASE Creates(p)
  BY <1>3 DEF Creates
<1>4. CASE Writes(p)
  BY <1>4 DEF Writes
<1>5. CASE Starts(p)
  BY <1>5 DEF Starts, Exits
<1>6. CASE Publishes(p)
  BY <1>6 DEF Publishes
<1>7. CASE ArmsGrace(p)
  BY <1>7 DEF ArmsGrace
<1>8. CASE RuntimeCloses(p)
  BY <1>8 DEF RuntimeCloses
<1>9. CASE Unpublishes(p)
  BY <1>9 DEF Unpublishes
<1>10. CASE Unlinks(p)
  BY <1>10 DEF Unlinks
<1>11. CASE Releases(p)
  BY <1>11 DEF Releases
<1>12. CASE Leaves(p)
  BY <1>12 DEF Leaves
<1>13. CASE GraceEnds(p)
  <2>1. CASE sessions[p] = {}
    BY <1>13, <2>1 DEF GraceEnds, Closes
  <2>2. CASE sessions[p] # {}
    BY <1>13, <2>2 DEF GraceEnds
  <2> QED  BY <2>1, <2>2
<1>14. CASE IdleEnds(p)
  BY <1>14 DEF IdleEnds, Closes
<1>15. CASE StartFails(p)
  BY <1>15 DEF StartFails, Exits, Befalls
<1>16. CASE Signal(p)
  BY <1>16 DEF Signal, Closes, Befalls
<1>17. CASE SignalWhileClosing(p)
  BY <1>17 DEF SignalWhileClosing, Befalls
<1>18. CASE Crash(p)
  BY <1>18 DEF Crash, Befalls
<1> QED
  BY <1>1, <1>2, <1>3, <1>4, <1>5, <1>6, <1>7, <1>8, <1>9, <1>10, <1>11, <1>12, <1>13, <1>14, <1>15, <1>16, <1>17, <1>18
     DEF ServerMoves, ServerSteps, TimerFires, ServerBefallen

\* A step takes no other process's pid file away, but for a misjudged removal.
LEMMA PidFileKept ==
  ASSUME ServerTypeOK, PidFileHeld,
         NEW p \in Servers, ServerMoves(p)
  PROVE  PidFileHeld'
<1> USE DEF ServerTypeOK, PidFileHeld, OwnsPidFile, Starting, Serving, Closing, lockVars, Goes, Notes, Alive
<1>1. CASE Inspects(p)
  BY <1>1 DEF Inspects
<1>2. CASE Reclaims(p)
  BY <1>2 DEF Reclaims
<1>3. CASE Creates(p)
  <2>1. CASE pidFile = None
    <3>1. pidFile' = [of |-> p, written |-> FALSE]
      BY <1>3, <2>1 DEF Creates
    <3>2. pidFile' \in [of : Servers, written : BOOLEAN] /\ pidFile'.of = p
      BY <3>1
    <3> QED  BY <1>3, <2>1, <3>2 DEF Creates
  <2>2. CASE pidFile # None
    BY <1>3, <2>2 DEF Creates
  <2> QED  BY <2>1, <2>2
<1>4. CASE Writes(p)
  <2>1. CASE pidFile # None /\ pidFile.of = p
    <3>1. pidFile' = [pidFile EXCEPT !.written = TRUE]
      BY <1>4, <2>1 DEF Writes
    <3>2. pidFile' \in [of : Servers, written : BOOLEAN] /\ pidFile'.of = p
      BY <2>1, <3>1
    <3> QED  BY <1>4, <2>1, <3>2 DEF Writes
  <2>2. CASE ~(pidFile # None /\ pidFile.of = p)
    BY <1>4, <2>2 DEF Writes
  <2> QED  BY <2>1, <2>2
<1>5. CASE Starts(p)
  BY <1>5 DEF Starts, Exits
<1>6. CASE Publishes(p)
  BY <1>6 DEF Publishes
<1>7. CASE ArmsGrace(p)
  BY <1>7 DEF ArmsGrace
<1>8. CASE RuntimeCloses(p)
  BY <1>8 DEF RuntimeCloses
<1>9. CASE Unpublishes(p)
  BY <1>9 DEF Unpublishes
<1>10. CASE Unlinks(p)
  BY <1>10 DEF Unlinks
<1>11. CASE Releases(p)
  BY <1>11 DEF Releases
<1>12. CASE Leaves(p)
  BY <1>12 DEF Leaves
<1>13. CASE GraceEnds(p)
  <2>1. CASE sessions[p] = {}
    BY <1>13, <2>1 DEF GraceEnds, Closes
  <2>2. CASE sessions[p] # {}
    BY <1>13, <2>2 DEF GraceEnds
  <2> QED  BY <2>1, <2>2
<1>14. CASE IdleEnds(p)
  BY <1>14 DEF IdleEnds, Closes
<1>15. CASE StartFails(p)
  BY <1>15 DEF StartFails, Exits, Befalls
<1>16. CASE Signal(p)
  BY <1>16 DEF Signal, Closes, Befalls
<1>17. CASE SignalWhileClosing(p)
  BY <1>17 DEF SignalWhileClosing, Befalls
<1>18. CASE Crash(p)
  BY <1>18 DEF Crash, Befalls
<1> QED
  BY <1>1, <1>2, <1>3, <1>4, <1>5, <1>6, <1>7, <1>8, <1>9, <1>10, <1>11, <1>12, <1>13, <1>14, <1>15, <1>16, <1>17, <1>18
     DEF ServerMoves, ServerSteps, TimerFires, ServerBefallen

\* What a process has written goes before the process does, unless it is killed.
LEMMA FilesStayExplained ==
  ASSUME ServerTypeOK, FilesExplained, ManagedListens, KilledIsGone, SignalledCloses,
         NEW p \in Servers, ServerMoves(p)
  PROVE  FilesExplained'
<1> USE DEF ServerTypeOK, FilesExplained, ManagedListens, KilledIsGone, SignalledCloses, OwnsPidFile, IsPublished, Starting, Serving, Closing, lockVars, Goes
<1>1. CASE Inspects(p)
  BY <1>1 DEF Inspects
<1>2. CASE Reclaims(p)
  BY <1>2 DEF Reclaims
<1>3. CASE Creates(p)
  BY <1>3 DEF Creates
<1>4. CASE Writes(p)
  BY <1>4 DEF Writes
<1>5. CASE Starts(p)
  BY <1>5 DEF Starts, Exits
<1>6. CASE Publishes(p)
  BY <1>6 DEF Publishes
<1>7. CASE ArmsGrace(p)
  BY <1>7 DEF ArmsGrace
<1>8. CASE RuntimeCloses(p)
  BY <1>8 DEF RuntimeCloses
<1>9. CASE Unpublishes(p)
  BY <1>9 DEF Unpublishes
<1>10. CASE Unlinks(p)
  BY <1>10 DEF Unlinks
<1>11. CASE Releases(p)
  BY <1>11 DEF Releases
<1>12. CASE Leaves(p)
  BY <1>12 DEF Leaves
<1>13. CASE GraceEnds(p)
  <2>1. CASE sessions[p] = {}
    BY <1>13, <2>1 DEF GraceEnds, Closes
  <2>2. CASE sessions[p] # {}
    BY <1>13, <2>2 DEF GraceEnds
  <2> QED  BY <2>1, <2>2
<1>14. CASE IdleEnds(p)
  BY <1>14 DEF IdleEnds, Closes
<1>15. CASE StartFails(p)
  BY <1>15 DEF StartFails, Exits, Befalls
<1>16. CASE Signal(p)
  BY <1>16 DEF Signal, Closes, Befalls
<1>17. CASE SignalWhileClosing(p)
  BY <1>17 DEF SignalWhileClosing, Befalls
<1>18. CASE Crash(p)
  BY <1>18 DEF Crash, Befalls
<1> QED
  BY <1>1, <1>2, <1>3, <1>4, <1>5, <1>6, <1>7, <1>8, <1>9, <1>10, <1>11, <1>12, <1>13, <1>14, <1>15, <1>16, <1>17, <1>18
     DEF ServerMoves, ServerSteps, TimerFires, ServerBefallen

\* The steps of the descriptor are taken by managed processes.
LEMMA ManagedStayListening ==
  ASSUME ServerTypeOK, ManagedListens,
         NEW p \in Servers, ServerMoves(p)
  PROVE  ManagedListens'
<1> USE DEF ServerTypeOK, ManagedListens, Starting, Serving, Closing, Goes
<1>1. CASE Inspects(p)
  BY <1>1 DEF Inspects
<1>2. CASE Reclaims(p)
  BY <1>2 DEF Reclaims
<1>3. CASE Creates(p)
  BY <1>3 DEF Creates
<1>4. CASE Writes(p)
  BY <1>4 DEF Writes
<1>5. CASE Starts(p)
  BY <1>5 DEF Starts, Exits
<1>6. CASE Publishes(p)
  BY <1>6 DEF Publishes
<1>7. CASE ArmsGrace(p)
  BY <1>7 DEF ArmsGrace
<1>8. CASE RuntimeCloses(p)
  BY <1>8 DEF RuntimeCloses
<1>9. CASE Unpublishes(p)
  BY <1>9 DEF Unpublishes
<1>10. CASE Unlinks(p)
  BY <1>10 DEF Unlinks
<1>11. CASE Releases(p)
  BY <1>11 DEF Releases
<1>12. CASE Leaves(p)
  BY <1>12 DEF Leaves
<1>13. CASE GraceEnds(p)
  BY <1>13 DEF GraceEnds, Closes
<1>14. CASE IdleEnds(p)
  BY <1>14 DEF IdleEnds, Closes
<1>15. CASE StartFails(p)
  BY <1>15 DEF StartFails, Exits, Befalls
<1>16. CASE Signal(p)
  BY <1>16 DEF Signal, Closes, Befalls
<1>17. CASE SignalWhileClosing(p)
  BY <1>17 DEF SignalWhileClosing, Befalls
<1>18. CASE Crash(p)
  BY <1>18 DEF Crash, Befalls
<1> QED
  BY <1>1, <1>2, <1>3, <1>4, <1>5, <1>6, <1>7, <1>8, <1>9, <1>10, <1>11, <1>12, <1>13, <1>14, <1>15, <1>16, <1>17, <1>18
     DEF ServerMoves, ServerSteps, TimerFires, ServerBefallen

\* After a signal a process only closes.
LEMMA SignalledStayClosing ==
  ASSUME ServerTypeOK, SignalledCloses,
         NEW p \in Servers, ServerMoves(p)
  PROVE  SignalledCloses'
<1> USE DEF ServerTypeOK, SignalledCloses, Starting, Serving, Closing, Goes
<1>1. CASE Inspects(p)
  BY <1>1 DEF Inspects
<1>2. CASE Reclaims(p)
  BY <1>2 DEF Reclaims
<1>3. CASE Creates(p)
  BY <1>3 DEF Creates
<1>4. CASE Writes(p)
  BY <1>4 DEF Writes
<1>5. CASE Starts(p)
  BY <1>5 DEF Starts, Exits
<1>6. CASE Publishes(p)
  BY <1>6 DEF Publishes
<1>7. CASE ArmsGrace(p)
  BY <1>7 DEF ArmsGrace
<1>8. CASE RuntimeCloses(p)
  BY <1>8 DEF RuntimeCloses
<1>9. CASE Unpublishes(p)
  BY <1>9 DEF Unpublishes
<1>10. CASE Unlinks(p)
  BY <1>10 DEF Unlinks
<1>11. CASE Releases(p)
  BY <1>11 DEF Releases
<1>12. CASE Leaves(p)
  BY <1>12 DEF Leaves
<1>13. CASE GraceEnds(p)
  <2>1. CASE sessions[p] = {}
    BY <1>13, <2>1 DEF GraceEnds, Closes
  <2>2. CASE sessions[p] # {}
    BY <1>13, <2>2 DEF GraceEnds
  <2> QED  BY <2>1, <2>2
<1>14. CASE IdleEnds(p)
  BY <1>14 DEF IdleEnds, Closes
<1>15. CASE StartFails(p)
  BY <1>15 DEF StartFails, Exits, Befalls
<1>16. CASE Signal(p)
  BY <1>16 DEF Signal, Closes, Befalls
<1>17. CASE SignalWhileClosing(p)
  BY <1>17 DEF SignalWhileClosing, Befalls
<1>18. CASE Crash(p)
  BY <1>18 DEF Crash, Befalls
<1> QED
  BY <1>1, <1>2, <1>3, <1>4, <1>5, <1>6, <1>7, <1>8, <1>9, <1>10, <1>11, <1>12, <1>13, <1>14, <1>15, <1>16, <1>17, <1>18
     DEF ServerMoves, ServerSteps, TimerFires, ServerBefallen

\* Nobody steps who is gone.
LEMMA KilledStayGone ==
  ASSUME ServerTypeOK, KilledIsGone,
         NEW p \in Servers, ServerMoves(p)
  PROVE  KilledIsGone'
<1> USE DEF ServerTypeOK, KilledIsGone, Starting, Serving, Closing, Goes, Alive
<1>1. CASE Inspects(p)
  BY <1>1 DEF Inspects
<1>2. CASE Reclaims(p)
  BY <1>2 DEF Reclaims
<1>3. CASE Creates(p)
  BY <1>3 DEF Creates
<1>4. CASE Writes(p)
  BY <1>4 DEF Writes
<1>5. CASE Starts(p)
  BY <1>5 DEF Starts, Exits
<1>6. CASE Publishes(p)
  BY <1>6 DEF Publishes
<1>7. CASE ArmsGrace(p)
  BY <1>7 DEF ArmsGrace
<1>8. CASE RuntimeCloses(p)
  BY <1>8 DEF RuntimeCloses
<1>9. CASE Unpublishes(p)
  BY <1>9 DEF Unpublishes
<1>10. CASE Unlinks(p)
  BY <1>10 DEF Unlinks
<1>11. CASE Releases(p)
  BY <1>11 DEF Releases
<1>12. CASE Leaves(p)
  BY <1>12 DEF Leaves
<1>13. CASE GraceEnds(p)
  <2>1. CASE sessions[p] = {}
    BY <1>13, <2>1 DEF GraceEnds, Closes
  <2>2. CASE sessions[p] # {}
    <3>1. pc' = pc /\ killed' = killed
      BY <1>13, <2>2 DEF GraceEnds
    <3> QED  BY <3>1
  <2> QED  BY <2>1, <2>2
<1>14. CASE IdleEnds(p)
  BY <1>14 DEF IdleEnds, Closes
<1>15. CASE StartFails(p)
  BY <1>15 DEF StartFails, Exits, Befalls
<1>16. CASE Signal(p)
  BY <1>16 DEF Signal, Closes, Befalls
<1>17. CASE SignalWhileClosing(p)
  BY <1>17 DEF SignalWhileClosing, Befalls
<1>18. CASE Crash(p)
  BY <1>18 DEF Crash, Befalls
<1> QED
  BY <1>1, <1>2, <1>3, <1>4, <1>5, <1>6, <1>7, <1>8, <1>9, <1>10, <1>11, <1>12, <1>13, <1>14, <1>15, <1>16, <1>17, <1>18
     DEF ServerMoves, ServerSteps, TimerFires, ServerBefallen

\* The seven together.
LEMMA MovesKeep ==
  ASSUME ServerInv, NEW p \in Servers, ServerMoves(p)
  PROVE  ServerInv'
BY TypesKept, ProjectLockKept, PidFileKept, FilesStayExplained, ManagedStayListening,
   SignalledStayClosing, KilledStayGone DEF ServerInv

-----------------------------------------------------------------------------
(* Steps of the connectors. *)

\* All but the history of faults stays as it is.
LEMMA FaultsKeep ==
  ASSUME ServerInv, NEW kind \in Faults \cup Races, kind # "misjudged",
         trouble' \in {trouble, trouble \cup {kind}},
         UNCHANGED <<pc, managed, lockVars, descriptor, sessions, timers, signalled, killed>>
  PROVE  ServerInv'
BY DEF ServerInv, ServerTypeOK, ProjectLockHeld, PidFileHeld, FilesExplained, ManagedListens,
       SignalledCloses, KilledIsGone, lockVars, OwnsPidFile, RunsRuntime, IsPublished, Faults, Races

\* A connector removes a descriptor.
LEMMA RemovalKeeps ==
  ASSUME ServerInv, NEW c \in Clients, RemovesStale(c)
  PROVE  ServerInv'
<1>1. /\ descriptor' = None
      /\ trouble' \in {trouble, trouble \cup {"raced"}}
      /\ UNCHANGED <<pc, managed, lockVars, sessions, timers, signalled, killed>>
  BY DEF RemovesStale, Notes
<1> QED
  BY <1>1 DEF ServerInv, ServerTypeOK, ProjectLockHeld, PidFileHeld, FilesExplained, ManagedListens,
     SignalledCloses, KilledIsGone, lockVars, OwnsPidFile, RunsRuntime, IsPublished, Faults, Races

\* Sessions and timers change.
LEMMA SessionsKeep ==
  ASSUME ServerInv, NEW p \in Servers, NEW c \in Clients, OpenSession(p, c) \/ CloseSession(p, c)
  PROVE  ServerInv'
<1>1. /\ sessions' \in [Servers -> SUBSET Clients]
      /\ timers' \in [Servers -> SUBSET {"grace", "idle"}]
      /\ UNCHANGED <<pc, managed, lockVars, descriptor, signalled, killed, trouble>>
  BY DEF ServerInv, ServerTypeOK, OpenSession, CloseSession
<1> QED
  BY <1>1 DEF ServerInv, ServerTypeOK, ProjectLockHeld, PidFileHeld, FilesExplained, ManagedListens,
     SignalledCloses, KilledIsGone, lockVars, OwnsPidFile, RunsRuntime, IsPublished

\* A process is born.
LEMMA SpawnKeeps ==
  ASSUME ServerInv, NEW p \in Servers, NEW b \in BOOLEAN, Spawn(p, b),
         trouble' \in {trouble, trouble \cup {"plain"}}
  PROVE  ServerInv'
<1> USE DEF ServerInv, Spawn, Goes, lockVars
<1>1. ServerTypeOK'
  BY DEF ServerTypeOK, Starting, Faults
<1>2. ProjectLockHeld'
  BY DEF ServerTypeOK, ProjectLockHeld, RunsRuntime, Serving
<1>3. PidFileHeld'
  BY DEF ServerTypeOK, PidFileHeld, OwnsPidFile, Serving, Closing
<1>4. FilesExplained'
  BY DEF ServerTypeOK, FilesExplained, OwnsPidFile, IsPublished, Serving, Closing
<1>5. ManagedListens'
  BY DEF ServerTypeOK, ManagedListens
<1>6. SignalledCloses' /\ KilledIsGone'
  BY DEF ServerTypeOK, SignalledCloses, KilledIsGone, Closing
<1> QED  BY <1>1, <1>2, <1>3, <1>4, <1>5, <1>6

\* The project lock of a dead process is taken for free.
LEMMA StaleLockKeeps ==
  ASSUME ServerInv, ProjectLockStale
  PROVE  ServerInv'
BY DEF ServerInv, ProjectLockStale, Alive, ServerTypeOK, ProjectLockHeld, PidFileHeld, FilesExplained,
       ManagedListens, SignalledCloses, KilledIsGone, OwnsPidFile, RunsRuntime, IsPublished, Serving

\* Nothing happens to the processes.
LEMMA StutterKeeps ==
  ASSUME ServerInv, UNCHANGED serverVars
  PROVE  ServerInv'
BY DEF ServerInv, serverVars, lockVars, ServerTypeOK, ProjectLockHeld, PidFileHeld, FilesExplained,
       ManagedListens, SignalledCloses, KilledIsGone, OwnsPidFile, RunsRuntime, IsPublished

\* Who runs has the project lock; who came through acquireProcessLock() has the pid
\* file until its release; a file whose process was not killed is on its way out.
THEOREM ProcessesStaySound == ConnectorSpec => []ServerInv
<1>1. ConnectorInit => ServerInv
  <2> SUFFICES ASSUME ConnectorInit PROVE ServerInv
    OBVIOUS
  <2>1. \A p \in Servers : pc[p] \in {"gone", "unborn"} /\ (p = Old => pc[p] = "gone")
    BY DEF ConnectorInit, ServerInit
  <2>2. [of |-> Old, written |-> TRUE] \in [of : Servers, written : BOOLEAN]
    OBVIOUS
  <2>3. pidFile \in {None} \cup [of : Servers, written : BOOLEAN]
    BY <2>2 DEF ConnectorInit, ServerInit
  <2>4. pc \in [Servers -> Starting \cup Serving \cup Closing \cup {"unborn", "gone"}]
    BY DEF ConnectorInit, ServerInit
  <2>5. ServerTypeOK
    BY <2>3, <2>4, Zenon DEF ConnectorInit, ServerInit, ServerTypeOK
  <2>6. ProjectLockHeld /\ PidFileHeld
    BY <2>1 DEF ProjectLockHeld, PidFileHeld, OwnsPidFile, RunsRuntime, Serving, Closing
  <2>7. FilesExplained
    BY <2>2 DEF ConnectorInit, ServerInit, FilesExplained
  <2>8. ManagedListens /\ SignalledCloses /\ KilledIsGone
    BY <2>1 DEF ConnectorInit, ServerInit, ManagedListens, SignalledCloses, KilledIsGone
  <2> QED  BY <2>5, <2>6, <2>7, <2>8 DEF ServerInv
<1>2. ServerInv /\ [ConnectorNext]_connectorVars => ServerInv'
  <2> SUFFICES ASSUME ServerInv, [ConnectorNext]_connectorVars PROVE ServerInv'
    OBVIOUS
  <2>1. CASE UNCHANGED serverVars
    BY <2>1, StutterKeeps
  <2>2. ASSUME NEW c \in Clients, ConnectorSteps(c)
        PROVE  ServerInv'
    <3>1. CASE Reads(c) \/ Connects(c) \/ Matches(c) \/ TakesLock(c) \/ WaitsForWinner(c) \/ ChildCloses(c)
      BY <3>1, <2>1 DEF Reads, Connects, Matches, TakesLock, WaitsForWinner, ChildCloses
    <3>2. CASE Rejects(c)
      <4>1. trouble' \in {trouble, trouble \cup {"slow"}}
        BY <3>2 DEF Rejects, Befalls
      <4> QED  BY <3>2, <4>1, FaultsKeep DEF Rejects, Faults
    <3>3. CASE RemovesStale(c)
      BY <3>3, RemovalKeeps
    <3>4. CASE Spawns(c)
      BY <3>4, SpawnKeeps DEF Spawns
    <3> QED  BY <2>2, <3>1, <3>2, <3>3, <3>4 DEF ConnectorSteps
  <2>3. ASSUME NEW c \in Clients, SpawnFails(c) \/ Deadline(c) \/ ConnectorKilled(c)
        PROVE  ServerInv'
    <3>1. /\ \E kind \in Faults : trouble' \in {trouble, trouble \cup {kind}}
          /\ UNCHANGED <<pc, managed, lockVars, descriptor, sessions, timers, signalled, killed>>
      BY <2>3 DEF SpawnFails, Deadline, ConnectorKilled, Befalls, Faults
    <3> QED  BY <3>1, FaultsKeep DEF Faults
  <2>4. ASSUME NEW c \in Clients,
               OpensSession(c) \/ EndsSession(c) \/ \E p \in Servers : SessionExpires(p, c)
        PROVE  ServerInv'
    <3>1. CASE OpensSession(c)
      BY <3>1, <2>1, SessionsKeep DEF OpensSession, Healthy, ServerInv, ServerTypeOK
    <3>2. CASE EndsSession(c)
      BY <3>2, <2>1, SessionsKeep DEF EndsSession, CloseSession, Healthy, ServerInv, ServerTypeOK
    <3>3. CASE \E p \in Servers : SessionExpires(p, c)
      BY <3>3, SessionsKeep DEF SessionExpires
    <3> QED  BY <2>4, <3>1, <3>2, <3>3
  <2>5. ASSUME NEW p \in Servers, ProcessWorks(p) \/ ProcessIdles(p) \/ ProcessBefallen(p)
        PROVE  ServerInv'
    BY <2>5, MovesKeep DEF ProcessWorks, ProcessIdles, ProcessBefallen, ServerMoves
  <2>6. CASE UserStarts
    BY <2>6, SpawnKeeps DEF UserStarts, Befalls
  <2>7. CASE LocksExpire
    BY <2>7, <2>1, StaleLockKeeps DEF LocksExpire, StartupLockStale
  <2> QED
    BY <2>1, <2>2, <2>3, <2>4, <2>5, <2>6, <2>7 DEF ConnectorNext, connectorVars
<1> QED  BY <1>1, <1>2, PTL DEF ConnectorSpec

-----------------------------------------------------------------------------
\* One process at most has the databases open, whatever becomes of the pid file.
THEOREM OneRuntimeAlways == ConnectorSpec => []OneRuntime
<1>1. ServerInv => OneRuntime
  BY DEF ServerInv, ProjectLockHeld, OneRuntime, RunsRuntime
<1> QED  BY <1>1, ProcessesStaySound, PTL

\* The pid file of a process is only taken by a late removal of a stale file or
\* by the second unlink of a process that exits.
THEOREM PidFileStaysAlways == ConnectorSpec => []PidFileStays
<1>1. ServerInv => PidFileStays
  BY DEF ServerInv, PidFileHeld, PidFileStays, OwnsPidFile
<1> QED  BY <1>1, ProcessesStaySound, PTL

\* A process that is gone and left a file was killed or failed.
THEOREM LeftoversExplained == ConnectorSpec => []LeftoversOfKilled
<1>1. ServerInv => LeftoversOfKilled
  BY DEF ServerInv, FilesExplained, LeftoversOfKilled, OwnsPidFile, IsPublished, Serving, Closing
<1> QED  BY <1>1, ProcessesStaySound, PTL

-----------------------------------------------------------------------------
Places == Ended \cup {"read", "check", "match", "unlink", "want", "spawn"}
Stages == {"first", "again", "poll", "last"}
Calls == [at : Places, stage : Stages, seen : Servers \cup {None}, child : Servers \cup {None}]

CallTypeOK ==
  /\ conn \in [Connectors -> Calls]
  /\ startupLock \in Connectors \cup {None}

\* Which reads of the descriptor can be followed by these steps.
CallsFormed ==
  \A c \in Connectors :
    /\ conn[c].at \in {"match", "unlink"} => conn[c].stage \in {"first", "last"}
    /\ conn[c].at = "want" => conn[c].stage = "first"

\* A call has the lock from its second read to the end of its poll.
LockFormed ==
  \A c \in Connectors : startupLock = c =>
    /\ conn[c].at \notin Ended \ {"killed"}
    /\ conn[c].stage \in {"again", "poll"}

CallInv == CallTypeOK /\ CallsFormed /\ LockFormed

\* A call that goes to a place stays a call.
LEMMA PutsTyped ==
  ASSUME CallTypeOK, NEW c \in Connectors, NEW at \in Places, NEW stage \in Stages,
         Puts(c, at, stage), startupLock' \in Connectors \cup {None}
  PROVE  CallTypeOK'
<1>1. conn[c] \in Calls
  BY DEF CallTypeOK
<1> DEFINE put == [conn[c] EXCEPT !.at = at, !.stage = stage]
<1>2. put \in Calls
  BY <1>1 DEF Calls
<1>3. conn' = [conn EXCEPT ![c] = put]
  BY <1>1 DEF CallTypeOK, Puts
<1> HIDE DEF put
<1> QED  BY <1>2, <1>3 DEF CallTypeOK

USE DEF Places, Stages, Calls, Ended

\* The steps that go from one place of a call to another without the lock.
LEMMA PutsKeepCalls ==
  ASSUME CallInv, NEW c \in Connectors, startupLock # c, startupLock' = startupLock,
         NEW at \in Places,
         NEW stage \in Stages,
         at \in {"match", "unlink"} => stage \in {"first", "last"},
         at = "want" => stage = "first",
         Puts(c, at, stage)
  PROVE  CallInv'
<1>1. CallTypeOK'
  BY PutsTyped DEF CallInv, CallTypeOK
<1>2. CallsFormed'
  BY DEF CallInv, CallTypeOK, CallsFormed, Puts
<1>3. LockFormed'
  BY DEF CallInv, CallTypeOK, LockFormed, Puts
<1> QED  BY <1>1, <1>2, <1>3 DEF CallInv

\* Where a call goes without a healthy server.
LEMMA InvalidFormed ==
  ASSUME CallInv, NEW c \in Connectors
  PROVE  /\ Invalid(c).at \in {"match", "spawn", "read"}
         /\ Invalid(c).stage = conn[c].stage
         /\ Invalid(c).at = "match" <=> conn[c].stage \in {"first", "last"}
BY DEF CallInv, CallTypeOK, Invalid

LEMMA ReadsKeepCalls ==
  ASSUME CallInv, NEW c \in Connectors, ServerTypeOK, Reads(c)
  PROVE  CallInv'
<1>1. CASE descriptor # None
  <2>1. CallTypeOK'
    BY <1>1 DEF CallInv, CallTypeOK, Reads, ServerTypeOK
  <2>2. CallsFormed'
    BY <1>1 DEF CallInv, CallTypeOK, CallsFormed, Reads
  <2>3. LockFormed'
    BY <1>1 DEF CallInv, CallTypeOK, LockFormed, Reads
  <2> QED  BY <2>1, <2>2, <2>3 DEF CallInv
<1>2. CASE descriptor = None /\ Invalid(c).at = "match"
  <2>1. conn[c].stage \in {"first", "last"} /\ startupLock # c
    BY <1>2, InvalidFormed DEF CallInv, LockFormed
  <2>2. Puts(c, Removed(c), conn[c].stage) /\ startupLock' = startupLock
    BY <1>2 DEF Reads
  <2> QED  BY <2>1, <2>2, PutsKeepCalls DEF Removed
<1>3. CASE descriptor = None /\ Invalid(c).at # "match"
  <2>1. /\ Invalid(c).at \in {"spawn", "read"}
        /\ Invalid(c).stage = conn[c].stage
        /\ conn[c].stage \in {"again", "poll"}
    BY <1>3, InvalidFormed DEF CallInv, CallTypeOK
  <2>2. Puts(c, Invalid(c).at, Invalid(c).stage) /\ startupLock' = startupLock
    BY <1>3 DEF Reads
  <2>3. CallTypeOK'
    BY <2>1, <2>2, PutsTyped DEF CallInv, CallTypeOK
  <2>4. CallsFormed'
    BY <2>1, <2>2 DEF CallInv, CallTypeOK, CallsFormed, Puts
  <2>5. LockFormed'
    BY <2>1, <2>2 DEF CallInv, CallTypeOK, LockFormed, Puts
  <2> QED  BY <2>3, <2>4, <2>5 DEF CallInv
<1> QED  BY <1>1, <1>2, <1>3

LEMMA ChecksKeepCalls ==
  ASSUME CallInv, NEW c \in Connectors, Connects(c) \/ Rejects(c)
  PROVE  CallInv'
<1>1. CASE Connects(c)
  <2>1. CallTypeOK'
    BY <1>1, PutsTyped DEF CallInv, CallTypeOK, Connects, Released
  <2>2. CallsFormed'
    BY <1>1 DEF CallInv, CallTypeOK, CallsFormed, Connects, Puts
  <2>3. LockFormed'
    BY <1>1 DEF CallInv, CallTypeOK, LockFormed, Connects, Puts, Released
  <2> QED  BY <2>1, <2>2, <2>3 DEF CallInv
<1>2. CASE Rejects(c)
  <2>1. Puts(c, Invalid(c).at, Invalid(c).stage) /\ startupLock' = startupLock
    BY <1>2 DEF Rejects
  <2>2. Invalid(c).at \in Places /\ Invalid(c).stage \in Stages
    BY InvalidFormed DEF CallInv, CallTypeOK
  <2>3. CallTypeOK'
    BY <2>1, <2>2, PutsTyped DEF CallInv, CallTypeOK
  <2>4. CallsFormed'
    BY <2>1, InvalidFormed DEF CallInv, CallTypeOK, CallsFormed, Puts
  <2>5. LockFormed'
    BY <2>1, InvalidFormed DEF CallInv, CallTypeOK, LockFormed, Puts
  <2> QED  BY <2>3, <2>4, <2>5 DEF CallInv
<1> QED  BY <1>1, <1>2

\* The removal of a descriptor is done without the lock.
LEMMA RemovalsKeepCalls ==
  ASSUME CallInv, NEW c \in Connectors, Matches(c) \/ RemovesStale(c)
  PROVE  CallInv'
<1>1. conn[c].stage \in {"first", "last"} /\ startupLock # c
  BY DEF CallInv, CallsFormed, LockFormed, Matches, RemovesStale
<1>2. startupLock' = startupLock
  BY DEF Matches, RemovesStale
<1>3. Puts(c, "unlink", conn[c].stage) \/ Puts(c, Removed(c), conn[c].stage)
  BY DEF Matches, RemovesStale
<1> QED  BY <1>1, <1>2, <1>3, PutsKeepCalls DEF Removed

LEMMA LocksKeepCalls ==
  ASSUME CallInv, NEW c \in Connectors, TakesLock(c) \/ WaitsForWinner(c)
  PROVE  CallInv'
<1>1. CASE TakesLock(c)
  <2>1. CallTypeOK'
    BY <1>1, PutsTyped DEF CallInv, CallTypeOK, TakesLock
  <2>2. CallsFormed'
    BY <1>1 DEF CallInv, CallTypeOK, CallsFormed, TakesLock, Puts
  <2>3. LockFormed'
    BY <1>1 DEF CallInv, CallTypeOK, LockFormed, TakesLock, Puts
  <2> QED  BY <2>1, <2>2, <2>3 DEF CallInv
<1>2. CASE WaitsForWinner(c)
  <2>1. startupLock # c
    BY <1>2 DEF CallInv, CallsFormed, LockFormed, WaitsForWinner
  <2> QED  BY <1>2, <2>1, PutsKeepCalls DEF WaitsForWinner
<1> QED  BY <1>1, <1>2

\* Whoever fails with the lock gives it back before the last read.
LEMMA FailingKeepsCalls ==
  ASSUME CallInv, NEW c \in Connectors, Fails(c)
  PROVE  CallInv'
<1>1. CallTypeOK'
  <2>1. Puts(c, "read", "last") \/ Puts(c, "failed", conn[c].stage)
    BY DEF Fails
  <2>2. conn[c].stage \in Stages /\ startupLock' \in Connectors \cup {None}
    BY DEF CallInv, CallTypeOK, Fails, Released
  <2> QED  BY <2>1, <2>2, PutsTyped DEF CallInv
<1>2. CallsFormed'
  BY DEF CallInv, CallTypeOK, CallsFormed, Fails, Puts
<1>3. LockFormed'
  BY DEF CallInv, CallTypeOK, LockFormed, Fails, Puts, Released
<1> QED  BY <1>1, <1>2, <1>3 DEF CallInv

LEMMA SpawningKeepsCalls ==
  ASSUME CallInv, NEW c \in Connectors, Spawns(c)
  PROVE  CallInv'
<1>1. PICK p \in Servers :
        conn' = [conn EXCEPT ![c].at = "read", ![c].stage = "poll", ![c].child = p]
  BY DEF Spawns
<1>2. startupLock' = startupLock /\ conn[c].at = "spawn"
  BY DEF Spawns
<1> DEFINE spawning == [conn[c] EXCEPT !.at = "read", !.stage = "poll", !.child = p]
<1>3. CallTypeOK'
  <2>1. spawning \in Calls
    BY DEF CallInv, CallTypeOK
  <2>2. conn' = [conn EXCEPT ![c] = spawning]
    BY <1>1 DEF CallInv, CallTypeOK
  <2> HIDE DEF spawning
  <2> QED  BY <1>2, <2>1, <2>2 DEF CallInv, CallTypeOK
<1>4. CallsFormed'
  BY <1>1 DEF CallInv, CallTypeOK, CallsFormed
<1>5. LockFormed'
  BY <1>1, <1>2 DEF CallInv, CallTypeOK, LockFormed
<1> QED  BY <1>3, <1>4, <1>5 DEF CallInv

\* A bridge has no lock.
LEMMA BridgesKeepCalls ==
  ASSUME CallInv, NEW c \in Connectors, OpensSession(c) \/ EndsSession(c)
  PROVE  CallInv'
<1>1. startupLock # c /\ startupLock' = startupLock
  BY DEF CallInv, LockFormed, OpensSession, EndsSession
<1>2. Puts(c, "session", conn[c].stage) \/ Puts(c, "done", conn[c].stage)
  BY DEF OpensSession, EndsSession
<1>3. conn[c].stage \in {"first", "again", "poll", "last"}
  BY DEF CallInv, CallTypeOK
<1> QED  BY <1>1, <1>2, <1>3, PutsKeepCalls

LEMMA KillingKeepsCalls ==
  ASSUME CallInv, NEW c \in Connectors, ConnectorKilled(c)
  PROVE  CallInv'
<1>1. Puts(c, "killed", conn[c].stage) /\ startupLock' = startupLock
  BY DEF ConnectorKilled
<1>2. conn[c].stage \in Stages
  BY DEF CallInv, CallTypeOK
<1>3. CallTypeOK'
  BY <1>1, <1>2, PutsTyped DEF CallInv, CallTypeOK
<1>4. CallsFormed'
  BY <1>1 DEF CallInv, CallTypeOK, CallsFormed, Puts
<1>5. LockFormed'
  BY <1>1 DEF CallInv, CallTypeOK, LockFormed, Puts
<1> QED  BY <1>3, <1>4, <1>5 DEF CallInv

\* A step of the processes or a time-out of a lock leaves the calls alone.
LEMMA OthersKeepCalls ==
  ASSUME CallInv, conn' = conn, startupLock' \in {startupLock, None}
  PROVE  CallInv'
BY DEF CallInv, CallTypeOK, CallsFormed, LockFormed

\* Every call is at a place its reads of the descriptor lead to, and the startup
\* lock belongs to a call between its second read and the end of its poll.
THEOREM CallsStaySound == ConnectorSpec => []CallInv
<1>1. ConnectorInit => CallInv
  BY DEF ConnectorInit, CallInv, CallTypeOK, CallsFormed, LockFormed
<1>2. CallInv /\ ServerInv /\ [ConnectorNext]_connectorVars => CallInv'
  <2> SUFFICES ASSUME CallInv, ServerInv, [ConnectorNext]_connectorVars PROVE CallInv'
    OBVIOUS
  <2>1. CASE UNCHANGED connectorVars
    BY <2>1, OthersKeepCalls DEF connectorVars
  <2>2. ASSUME NEW c \in Connectors, ConnectorSteps(c) \/ SpawnFails(c) \/ Deadline(c)
        PROVE  CallInv'
    <3>1. CASE Reads(c)
      BY <3>1, ReadsKeepCalls DEF ServerInv
    <3>2. CASE Connects(c) \/ Rejects(c)
      BY <3>2, ChecksKeepCalls
    <3>3. CASE Matches(c) \/ RemovesStale(c)
      BY <3>3, RemovalsKeepCalls
    <3>4. CASE TakesLock(c) \/ WaitsForWinner(c)
      BY <3>4, LocksKeepCalls
    <3>5. CASE Spawns(c)
      BY <3>5, SpawningKeepsCalls
    <3>6. CASE ChildCloses(c) \/ SpawnFails(c) \/ Deadline(c)
      BY <3>6, FailingKeepsCalls DEF ChildCloses, SpawnFails, Deadline
    <3> QED  BY <2>2, <3>1, <3>2, <3>3, <3>4, <3>5, <3>6 DEF ConnectorSteps
  <2>3. ASSUME NEW c \in Connectors,
               \/ OpensSession(c) \/ EndsSession(c) \/ ConnectorKilled(c)
               \/ \E p \in Servers : SessionExpires(p, c)
        PROVE  CallInv'
    <3>1. CASE OpensSession(c) \/ EndsSession(c)
      BY <3>1, BridgesKeepCalls
    <3>2. CASE ConnectorKilled(c)
      BY <3>2, KillingKeepsCalls
    <3>3. CASE \E p \in Servers : SessionExpires(p, c)
      BY <3>3, OthersKeepCalls DEF SessionExpires
    <3> QED  BY <2>3, <3>1, <3>2, <3>3
  <2>4. CASE \E p \in Servers : ProcessWorks(p) \/ ProcessIdles(p) \/ ProcessBefallen(p)
    BY <2>4, OthersKeepCalls DEF ProcessWorks, ProcessIdles, ProcessBefallen
  <2>5. CASE UserStarts \/ LocksExpire
    BY <2>5, OthersKeepCalls DEF UserStarts, LocksExpire, StartupLockStale
  <2> QED
    BY <2>1, <2>2, <2>3, <2>4, <2>5 DEF ConnectorNext
<1> QED  BY <1>1, <1>2, ProcessesStaySound, PTL DEF ConnectorSpec

\* No call that has returned or thrown keeps the startup lock from the next one.
THEOREM LockIsGivenBack == ConnectorSpec => []LockHeldByCalls
<1>1. CallInv => LockHeldByCalls
  BY DEF CallInv, CallTypeOK, LockFormed, LockHeldByCalls
<1> QED  BY <1>1, CallsStaySound, PTL
-----------------------------------------------------------------------------
(* The descriptor: what it named has come to serve and does not come back. *)

Past == Serving \cup Closing \cup {"gone"}

NamedHaveServed ==
  /\ descriptor # None => pc[descriptor] \in Past
  /\ \A c \in Connectors : conn[c].seen # None => pc[conn[c].seen] \in Past

CheckedIsNamed == \A c \in Connectors : conn[c].at = "check" => conn[c].seen # None

\* A server that a call takes for dead is, unless its answer was late.
RejectedIsOver ==
  "slow" \notin trouble =>
    \A c \in Connectors : conn[c].at \in {"match", "unlink"} =>
      conn[c].seen # None /\ ~Healthy(conn[c].seen)

DescriptorInv == NamedHaveServed /\ CheckedIsNamed /\ RejectedIsOver /\ PublishedWhileServing

\* How far a step takes a process, and what it does to the descriptor.
LEMMA MovesForward ==
  ASSUME ServerTypeOK, ManagedListens, NEW p \in Servers, ServerMoves(p)
  PROVE  /\ pc[p] \notin {"unborn", "gone"} /\ pc'[p] # "unborn"
         /\ \A q \in Servers \ {p} : pc'[q] = pc[q]
         /\ pc[p] \in Past => pc'[p] \in Past
         /\ pc[p] \in Closing => pc'[p] \notin Serving
         /\ pc'[p] \in Serving =>
              p \notin managed \/ pc[p] \in Serving \/ descriptor' = p
         /\ managed' = managed /\ trouble \subseteq trouble'
         /\ descriptor' # descriptor =>
              \/ descriptor' = p /\ pc[p] = "listen" /\ pc'[p] = "publish"
              \/ descriptor' = None /\ pc[p] = "unlink" /\
                   (descriptor = p \/ "raced" \in trouble')
<1> USE DEF ServerTypeOK, ManagedListens, Past, Starting, Serving, Closing, lockVars, Goes, Alive, Notes
<1>1. CASE Inspects(p)
  BY <1>1 DEF Inspects
<1>2. CASE Reclaims(p)
  BY <1>2 DEF Reclaims
<1>3. CASE Creates(p)
  BY <1>3 DEF Creates
<1>4. CASE Writes(p)
  BY <1>4 DEF Writes
<1>5. CASE Starts(p)
  BY <1>5 DEF Starts, Exits
<1>6. CASE Publishes(p)
  BY <1>6 DEF Publishes
<1>7. CASE ArmsGrace(p)
  BY <1>7 DEF ArmsGrace
<1>8. CASE RuntimeCloses(p)
  BY <1>8 DEF RuntimeCloses
<1>9. CASE Unpublishes(p)
  BY <1>9 DEF Unpublishes
<1>10. CASE Unlinks(p)
  BY <1>10 DEF Unlinks
<1>11. CASE Releases(p)
  BY <1>11 DEF Releases
<1>12. CASE Leaves(p)
  BY <1>12 DEF Leaves
<1>13. CASE GraceEnds(p)
  <2>1. CASE sessions[p] = {}
    BY <1>13, <2>1 DEF GraceEnds, Closes
  <2>2. CASE sessions[p] # {}
    BY <1>13, <2>2 DEF GraceEnds
  <2> QED  BY <2>1, <2>2
<1>14. CASE IdleEnds(p)
  BY <1>14 DEF IdleEnds, Closes
<1>15. CASE StartFails(p)
  BY <1>15 DEF StartFails, Exits, Befalls
<1>16. CASE Signal(p)
  BY <1>16 DEF Signal, Closes, Befalls
<1>17. CASE SignalWhileClosing(p)
  BY <1>17 DEF SignalWhileClosing, Befalls
<1>18. CASE Crash(p)
  BY <1>18 DEF Crash, Befalls
<1> QED
  BY <1>1, <1>2, <1>3, <1>4, <1>5, <1>6, <1>7, <1>8, <1>9, <1>10, <1>11, <1>12, <1>13, <1>14, <1>15, <1>16, <1>17, <1>18
     DEF ServerMoves, ServerSteps, TimerFires, ServerBefallen

LEMMA DescriptorMoves ==
  ASSUME ServerInv, CallTypeOK, DescriptorInv, NEW p \in Servers, ServerMoves(p), conn' = conn
  PROVE  DescriptorInv'
<1>1. ServerTypeOK /\ ProjectLockHeld /\ ManagedListens
  BY DEF ServerInv
<1>2. /\ pc[p] \notin {"unborn", "gone"} /\ pc'[p] # "unborn"
      /\ \A q \in Servers \ {p} : pc'[q] = pc[q]
      /\ pc[p] \in Past => pc'[p] \in Past
      /\ pc[p] \in Closing => pc'[p] \notin Serving
      /\ pc'[p] \in Serving => p \notin managed \/ pc[p] \in Serving \/ descriptor' = p
      /\ managed' = managed /\ trouble \subseteq trouble'
      /\ descriptor' # descriptor =>
           \/ descriptor' = p /\ pc[p] = "listen" /\ pc'[p] = "publish"
           \/ descriptor' = None /\ pc[p] = "unlink" /\ (descriptor = p \/ "raced" \in trouble')
  BY <1>1, MovesForward
<1>3. \A q \in Servers : pc[q] \in Past => pc'[q] \in Past
  BY <1>2
<1>4. \A c \in Connectors : conn[c].seen \in Servers \cup {None}
  BY DEF CallTypeOK
<1>5. descriptor \in Servers \cup {None}
  BY <1>1 DEF ServerTypeOK
<1>6. NamedHaveServed'
  BY <1>2, <1>3, <1>4, <1>5 DEF DescriptorInv, NamedHaveServed, Past, Serving
<1>7. CheckedIsNamed'
  BY DEF DescriptorInv, CheckedIsNamed
<1>8. ASSUME NEW q \in Servers, pc[q] \in Past, ~Healthy(q) PROVE ~Healthy(q)'
  BY <1>2, <1>8 DEF Healthy, Past, Closing, Serving
<1>9. RejectedIsOver'
  <2> SUFFICES ASSUME "slow" \notin trouble', NEW c \in Connectors,
                      conn[c].at \in {"match", "unlink"}
               PROVE  conn[c].seen # None /\ ~Healthy(conn[c].seen)'
    BY DEF RejectedIsOver
  <2>1. conn[c].seen # None /\ ~Healthy(conn[c].seen)
    BY <1>2 DEF DescriptorInv, RejectedIsOver
  <2>2. pc[conn[c].seen] \in Past
    BY <2>1 DEF DescriptorInv, NamedHaveServed
  <2> QED  BY <1>4, <1>8, <2>1, <2>2
<1>10. PublishedWhileServing'
  <2> SUFFICES ASSUME trouble' \cap {"slow", "raced"} = {}, NEW q \in Servers, Healthy(q)'
               PROVE  descriptor' = q
    BY DEF PublishedWhileServing
  <2>1. trouble \cap {"slow", "raced"} = {} /\ "raced" \notin trouble'
    BY <1>2
  <2>2. q \in managed /\ pc'[q] \in Serving
    BY <1>2 DEF Healthy
  <2>3. CASE pc[q] \notin Serving
    BY <1>2, <2>2, <2>3
  <2>4. CASE pc[q] \in Serving
    <3>1. descriptor = q
      BY <2>1, <2>2, <2>4 DEF DescriptorInv, PublishedWhileServing, Healthy
    <3>2. projectLock = q
      BY <1>1, <2>4 DEF ProjectLockHeld, RunsRuntime
    <3>3. pc[p] # "listen"
      <4>1. pc[p] = "listen" => projectLock = p
        BY <1>1 DEF ProjectLockHeld, RunsRuntime
      <4> QED  BY <2>4, <3>2, <4>1 DEF Serving
    <3>4. pc[q] # "unlink"
      BY <2>4 DEF Serving
    <3> QED  BY <1>2, <2>1, <3>1, <3>3, <3>4
  <2> QED  BY <2>3, <2>4
<1> QED  BY <1>6, <1>7, <1>9, <1>10 DEF DescriptorInv
\* What Puts does to each field of a call.
LEMMA PutsFields ==
  ASSUME CallTypeOK, NEW c \in Connectors, NEW at \in Places, NEW stage \in Stages,
         Puts(c, at, stage)
  PROVE  /\ conn'[c].at = at /\ conn'[c].stage = stage
         /\ conn'[c].seen = conn[c].seen /\ conn'[c].child = conn[c].child
         /\ \A d \in Connectors \ {c} : conn'[d] = conn[d]
BY DEF CallTypeOK, Puts

\* A step of a call that neither reads nor judges a descriptor.
LEMMA DescriptorUnread ==
  ASSUME DescriptorInv, UNCHANGED <<pc, managed, descriptor>>, trouble \subseteq trouble',
         \A d \in Connectors :
           /\ conn'[d].seen = conn[d].seen
           /\ conn'[d].at = "check" => conn[d].at = "check"
           /\ conn'[d].at \in {"match", "unlink"} => conn[d].at \in {"match", "unlink"}
  PROVE  DescriptorInv'
<1>1. NamedHaveServed' /\ CheckedIsNamed'
  BY DEF DescriptorInv, NamedHaveServed, CheckedIsNamed
<1>2. RejectedIsOver'
  BY DEF DescriptorInv, RejectedIsOver, Healthy
<1>3. PublishedWhileServing'
  <2>1. trouble' \cap {"slow", "raced"} = {} => trouble \cap {"slow", "raced"} = {}
    OBVIOUS
  <2> QED  BY <2>1 DEF DescriptorInv, PublishedWhileServing, Healthy
<1> QED  BY <1>1, <1>2, <1>3 DEF DescriptorInv

LEMMA DescriptorPuts ==
  ASSUME DescriptorInv, CallTypeOK, UNCHANGED <<pc, managed, descriptor>>,
         trouble \subseteq trouble', NEW c \in Connectors,
         NEW at \in Places \ {"check", "match", "unlink"}, NEW stage \in Stages,
         Puts(c, at, stage)
  PROVE  DescriptorInv'
<1>1. \A d \in Connectors :
        /\ conn'[d].seen = conn[d].seen
        /\ conn'[d].at = "check" => conn[d].at = "check"
        /\ conn'[d].at \in {"match", "unlink"} => conn[d].at \in {"match", "unlink"}
  BY PutsFields
<1> QED  BY <1>1, DescriptorUnread

LEMMA DescriptorReads ==
  ASSUME ServerInv, CallInv, DescriptorInv, NEW c \in Connectors, Reads(c)
  PROVE  DescriptorInv'
<1>1. UNCHANGED <<pc, managed, descriptor>> /\ trouble \subseteq trouble' /\ CallTypeOK
      /\ conn[c].stage \in Stages
  BY DEF Reads, serverVars, CallInv, CallTypeOK
<1>2. CASE descriptor # None
  <2>1. conn' = [conn EXCEPT ![c].at = "check", ![c].seen = descriptor]
    BY <1>2 DEF Reads
  <2>2. /\ conn'[c].at = "check" /\ conn'[c].seen = descriptor
        /\ \A d \in Connectors \ {c} : conn'[d] = conn[d]
    BY <1>1, <2>1 DEF CallTypeOK
  <2>3. NamedHaveServed' /\ CheckedIsNamed'
    BY <1>1, <1>2, <2>2 DEF DescriptorInv, NamedHaveServed, CheckedIsNamed
  <2>4. RejectedIsOver'
    BY <1>1, <2>2 DEF DescriptorInv, RejectedIsOver, Healthy
  <2>5. PublishedWhileServing'
    BY <1>1 DEF DescriptorInv, PublishedWhileServing, Healthy, Reads, serverVars
  <2> QED  BY <2>3, <2>4, <2>5 DEF DescriptorInv
<1>3. CASE descriptor = None
  <2>1. PICK at \in {"want", "failed", "spawn", "read"}, stage \in Stages : Puts(c, at, stage)
    <3>1. CASE Invalid(c).at = "match"
      BY <1>1, <1>3, <3>1 DEF Reads, Removed
    <3>2. CASE Invalid(c).at # "match"
      BY <1>1, <1>3, <3>2, InvalidFormed DEF Reads
    <3> QED  BY <3>1, <3>2
  <2> QED  BY <1>1, <2>1, DescriptorPuts
<1> QED  BY <1>2, <1>3

LEMMA DescriptorJudged ==
  ASSUME ServerInv, CallInv, DescriptorInv, NEW c \in Connectors, Rejects(c)
  PROVE  DescriptorInv'
<1>1. /\ UNCHANGED <<pc, managed, descriptor>> /\ trouble \subseteq trouble' /\ CallTypeOK
      /\ Healthy(conn[c].seen) => "slow" \in trouble'
  BY DEF Rejects, CallInv, Befalls
<1>2. conn[c].seen # None
  BY DEF DescriptorInv, CheckedIsNamed, Rejects
<1>3. Invalid(c).at \in Places \ {"check", "unlink"} /\ Invalid(c).stage \in Stages
  BY InvalidFormed DEF CallInv, CallTypeOK
<1>4. Puts(c, Invalid(c).at, Invalid(c).stage)
  BY DEF Rejects
<1>5. /\ conn'[c].at \notin {"check", "unlink"} /\ conn'[c].seen = conn[c].seen
      /\ \A d \in Connectors \ {c} : conn'[d] = conn[d]
  BY <1>1, <1>3, <1>4, PutsFields
<1>6. NamedHaveServed' /\ CheckedIsNamed'
  BY <1>1, <1>5 DEF DescriptorInv, NamedHaveServed, CheckedIsNamed
<1>7. RejectedIsOver'
  BY <1>1, <1>2, <1>5 DEF DescriptorInv, RejectedIsOver, Healthy
<1>8. PublishedWhileServing'
  <2>1. trouble' \cap {"slow", "raced"} = {} => trouble \cap {"slow", "raced"} = {}
    BY <1>1
  <2> QED  BY <1>1, <2>1 DEF DescriptorInv, PublishedWhileServing, Healthy
<1> QED  BY <1>6, <1>7, <1>8 DEF DescriptorInv

\* What a call removes is what it found dead, or the history says it raced.
LEMMA DescriptorRemoved ==
  ASSUME ServerInv, CallInv, DescriptorInv, NEW c \in Connectors, RemovesStale(c)
  PROVE  DescriptorInv'
<1>1. /\ UNCHANGED <<pc, managed>> /\ descriptor' = None /\ CallTypeOK
      /\ trouble' = IF descriptor \notin {conn[c].seen, None} THEN trouble \cup {"raced"} ELSE trouble
  BY DEF RemovesStale, CallInv, Notes
<1>2. /\ conn'[c].at \in {"want", "failed"} /\ conn'[c].seen = conn[c].seen
      /\ \A d \in Connectors \ {c} : conn'[d] = conn[d]
  <2>1. PICK at \in {"want", "failed"} : Puts(c, at, conn[c].stage)
    BY DEF RemovesStale, Removed
  <2>2. conn[c].stage \in Stages
    BY <1>1 DEF CallTypeOK
  <2> QED  BY <1>1, <2>1, <2>2, PutsFields
<1>3. NamedHaveServed' /\ CheckedIsNamed'
  BY <1>1, <1>2 DEF DescriptorInv, NamedHaveServed, CheckedIsNamed
<1>4. RejectedIsOver'
  BY <1>1, <1>2 DEF DescriptorInv, RejectedIsOver, Healthy
<1>5. PublishedWhileServing'
  <2> SUFFICES ASSUME trouble' \cap {"slow", "raced"} = {}, NEW q \in Servers, Healthy(q)'
               PROVE  FALSE
    BY DEF PublishedWhileServing
  <2>1. trouble' = trouble /\ descriptor \in {conn[c].seen, None}
    BY <1>1
  <2>2. Healthy(q)
    BY <1>1 DEF Healthy
  <2>3. descriptor = q
    BY <2>1, <2>2 DEF DescriptorInv, PublishedWhileServing
  <2>4. conn[c].seen # None /\ ~Healthy(conn[c].seen)
    BY <2>1 DEF DescriptorInv, RejectedIsOver, RemovesStale
  <2> QED  BY <2>1, <2>2, <2>3, <2>4
<1> QED  BY <1>3, <1>4, <1>5 DEF DescriptorInv

LEMMA DescriptorSpawned ==
  ASSUME ServerInv, CallTypeOK, DescriptorInv, NEW p \in Servers, NEW b \in BOOLEAN, Spawn(p, b),
         trouble \subseteq trouble',
         \A d \in Connectors :
           /\ conn'[d].seen = conn[d].seen
           /\ conn'[d].at \in {"check", "match", "unlink"} => conn'[d].at = conn[d].at
  PROVE  DescriptorInv'
<1>1. /\ pc[p] = "unborn" /\ pc' = [pc EXCEPT ![p] = "inspect"] /\ descriptor' = descriptor
      /\ managed' \in {managed, managed \cup {p}}
      /\ pc \in [Servers -> Starting \cup Serving \cup Closing \cup {"unborn", "gone"}]
  BY DEF Spawn, Goes, ServerInv, ServerTypeOK
<1>2. \A q \in Servers : pc[q] \in Past => pc'[q] \in Past
  BY <1>1 DEF Past, Serving, Closing
<1>3. \A q \in Servers : Healthy(q)' <=> Healthy(q)
  BY <1>1 DEF Healthy, Serving
<1>4. \A c \in Connectors : conn[c].seen \in Servers \cup {None}
  BY DEF CallTypeOK
<1>5. descriptor \in Servers \cup {None}
  BY DEF ServerInv, ServerTypeOK
<1>6. NamedHaveServed' /\ CheckedIsNamed'
  BY <1>1, <1>2, <1>4, <1>5 DEF DescriptorInv, NamedHaveServed, CheckedIsNamed
<1>7. RejectedIsOver'
  BY <1>3, <1>4 DEF DescriptorInv, RejectedIsOver
<1>8. PublishedWhileServing'
  <2>1. trouble' \cap {"slow", "raced"} = {} => trouble \cap {"slow", "raced"} = {}
    OBVIOUS
  <2> QED  BY <1>1, <1>3, <2>1 DEF DescriptorInv, PublishedWhileServing
<1> QED  BY <1>6, <1>7, <1>8 DEF DescriptorInv

LEMMA DescriptorInitially == ConnectorInit => DescriptorInv
<1> SUFFICES ASSUME ConnectorInit PROVE DescriptorInv
  OBVIOUS
<1>1. \A p \in Servers : pc[p] \in {"gone", "unborn"} /\ (p = Old => pc[p] = "gone")
  BY DEF ConnectorInit, ServerInit
<1>2. descriptor \in {None, Old} /\ managed = {}
  BY DEF ConnectorInit, ServerInit
<1>3. \A c \in Connectors : conn[c].at = "read" /\ conn[c].seen = None
  BY DEF ConnectorInit
<1> QED
  BY <1>1, <1>2, <1>3
     DEF DescriptorInv, NamedHaveServed, CheckedIsNamed, RejectedIsOver, PublishedWhileServing,
         Healthy, Past

LEMMA DescriptorStep ==
  ServerInv /\ CallInv /\ DescriptorInv /\ [ConnectorNext]_connectorVars => DescriptorInv'
<1> SUFFICES ASSUME ServerInv, CallInv, DescriptorInv, [ConnectorNext]_connectorVars
             PROVE  DescriptorInv'
  OBVIOUS
<1>0. CallTypeOK /\ \A c \in Connectors : conn[c].stage \in Stages
  BY DEF CallInv, CallTypeOK
<1>1. CASE UNCHANGED connectorVars
  BY <1>1, DescriptorUnread DEF connectorVars, serverVars
<1>2. ASSUME NEW c \in Connectors, ConnectorSteps(c)
      PROVE  DescriptorInv'
  <2>1. CASE Reads(c)
    BY <2>1, DescriptorReads
  <2>2. CASE Connects(c)
    <3>1. UNCHANGED <<pc, managed, descriptor>> /\ trouble \subseteq trouble'
      BY <2>2 DEF Connects, serverVars
    <3>2. Puts(c, "failed", conn[c].stage) \/ Puts(c, "connected", conn[c].stage)
      BY <2>2 DEF Connects
    <3> QED  BY <1>0, <3>1, <3>2, DescriptorPuts
  <2>3. CASE Rejects(c)
    BY <2>3, DescriptorJudged
  <2>4. CASE Matches(c)
    <3>1. UNCHANGED <<pc, managed, descriptor>> /\ trouble \subseteq trouble'
      BY <2>4 DEF Matches, serverVars
    <3>2. PICK at \in {"unlink", "want", "failed"} : Puts(c, at, conn[c].stage)
      BY <2>4 DEF Matches, Removed
    <3>3. \A d \in Connectors :
            /\ conn'[d].seen = conn[d].seen
            /\ conn'[d].at = "check" => conn[d].at = "check"
            /\ conn'[d].at \in {"match", "unlink"} => conn[d].at \in {"match", "unlink"}
      BY <1>0, <2>4, <3>2, PutsFields DEF Matches
    <3> QED  BY <3>1, <3>3, DescriptorUnread
  <2>5. CASE RemovesStale(c)
    BY <2>5, DescriptorRemoved
  <2>6. CASE TakesLock(c) \/ WaitsForWinner(c)
    <3>1. UNCHANGED <<pc, managed, descriptor>> /\ trouble \subseteq trouble'
      BY <2>6 DEF TakesLock, WaitsForWinner, serverVars
    <3>2. Puts(c, "read", "again") \/ Puts(c, "read", "poll")
      BY <2>6 DEF TakesLock, WaitsForWinner
    <3> QED  BY <1>0, <3>1, <3>2, DescriptorPuts
  <2>7. CASE Spawns(c)
    <3>1. PICK p \in Servers :
            /\ Spawn(p, TRUE)
            /\ conn' = [conn EXCEPT ![c].at = "read", ![c].stage = "poll", ![c].child = p]
      BY <2>7 DEF Spawns
    <3>2. \A d \in Connectors :
            /\ conn'[d].seen = conn[d].seen
            /\ conn'[d].at \in {"check", "match", "unlink"} => conn'[d].at = conn[d].at
      BY <1>0, <3>1 DEF CallTypeOK
    <3>3. trouble \subseteq trouble'
      BY <2>7 DEF Spawns
    <3> QED  BY <1>0, <3>1, <3>2, <3>3, DescriptorSpawned
  <2>8. CASE ChildCloses(c)
    <3>1. UNCHANGED <<pc, managed, descriptor>> /\ trouble \subseteq trouble'
      BY <2>8 DEF ChildCloses, serverVars
    <3>2. Puts(c, "read", "last") \/ Puts(c, "failed", conn[c].stage)
      BY <2>8 DEF ChildCloses, Fails
    <3> QED  BY <1>0, <3>1, <3>2, DescriptorPuts
  <2> QED  BY <1>2, <2>1, <2>2, <2>3, <2>4, <2>5, <2>6, <2>7, <2>8 DEF ConnectorSteps
<1>3. ASSUME NEW c \in Connectors, SpawnFails(c) \/ Deadline(c) \/ ConnectorKilled(c)
      PROVE  DescriptorInv'
  <2>1. UNCHANGED <<pc, managed, descriptor>> /\ trouble \subseteq trouble'
    BY <1>3 DEF SpawnFails, Deadline, ConnectorKilled, Befalls
  <2>2. Puts(c, "read", "last") \/ Puts(c, "failed", conn[c].stage) \/ Puts(c, "killed", conn[c].stage)
    BY <1>3 DEF SpawnFails, Deadline, ConnectorKilled, Fails
  <2> QED  BY <1>0, <2>1, <2>2, DescriptorPuts
<1>4. ASSUME NEW c \in Connectors,
             OpensSession(c) \/ EndsSession(c) \/ \E p \in Servers : SessionExpires(p, c)
      PROVE  DescriptorInv'
  <2>1. UNCHANGED <<pc, managed, descriptor>> /\ trouble \subseteq trouble'
    BY <1>4 DEF OpensSession, EndsSession, SessionExpires, OpenSession, CloseSession, serverVars
  <2>2. CASE OpensSession(c) \/ EndsSession(c)
    <3>1. Puts(c, "session", conn[c].stage) \/ Puts(c, "done", conn[c].stage)
      BY <2>2 DEF OpensSession, EndsSession
    <3> QED  BY <1>0, <2>1, <3>1, DescriptorPuts
  <2>3. CASE \E p \in Servers : SessionExpires(p, c)
    <3>1. conn' = conn
      BY <2>3 DEF SessionExpires
    <3> QED  BY <2>1, <3>1, DescriptorUnread
  <2> QED  BY <1>4, <2>2, <2>3
<1>5. ASSUME NEW p \in Servers, ProcessWorks(p) \/ ProcessIdles(p) \/ ProcessBefallen(p)
      PROVE  DescriptorInv'
  BY <1>0, <1>5, DescriptorMoves DEF ProcessWorks, ProcessIdles, ProcessBefallen, ServerMoves
<1>6. CASE UserStarts
  <2>1. PICK p \in Servers : Spawn(p, FALSE)
    BY <1>6 DEF UserStarts
  <2>2. trouble \subseteq trouble' /\ conn' = conn
    BY <1>6 DEF UserStarts, Befalls
  <2> QED  BY <1>0, <2>1, <2>2, DescriptorSpawned
<1>7. CASE LocksExpire
  <2>1. /\ UNCHANGED <<pc, managed, descriptor>> /\ trouble \subseteq trouble' /\ conn' = conn
    BY <1>7 DEF LocksExpire, StartupLockStale, ProjectLockStale, serverVars
  <2> QED  BY <2>1, DescriptorUnread
<1> QED
  BY <1>1, <1>2, <1>3, <1>4, <1>5, <1>6, <1>7 DEF ConnectorNext

LEMMA DescriptorHolds == ConnectorSpec => []DescriptorInv
BY DescriptorInitially, DescriptorStep, ProcessesStaySound, CallsStaySound, PTL DEF ConnectorSpec

\* A managed server that serves can be found, unless a health check timed out or
\* a removal by name hit the descriptor of another server: only a call that saw
\* the server dead removes what names it (removeProjectEndpointIfMatching()).
THEOREM ServersArePublished == ConnectorSpec => []PublishedWhileServing
<1>1. DescriptorInv => PublishedWhileServing
  BY DEF DescriptorInv
<1> QED  BY <1>1, DescriptorHolds, PTL
-----------------------------------------------------------------------------
(* The two timers of a managed server. *)

\* In whatever state a process is: the idle timer is set when the last session
\* closes and cleared when one opens or the server closes.
IdleWithoutSessions == \A p \in Servers : "idle" \in timers[p] => sessions[p] = {}

TimersInv == IdleWithoutSessions /\ TimersMatchUse

LEMMA TimersMoves ==
  ASSUME ServerTypeOK, TimersInv, NEW p \in Servers, ServerMoves(p)
  PROVE  TimersInv'
<1> USE DEF ServerTypeOK, TimersInv, IdleWithoutSessions, TimersMatchUse, Goes
<1>1. CASE Inspects(p) \/ Reclaims(p) \/ Creates(p) \/ Writes(p) \/ Publishes(p)
           \/ RuntimeCloses(p) \/ Unpublishes(p) \/ Unlinks(p) \/ Releases(p) \/ Leaves(p)
  <2>1. UNCHANGED <<sessions, timers, managed>>
    BY <1>1 DEF Inspects, Reclaims, Creates, Writes, Publishes, RuntimeCloses, Unpublishes,
                Unlinks, Releases, Leaves
  <2>2. /\ \A q \in Servers \ {p} : pc'[q] = pc[q]
        /\ pc'[p] # "serve"
    BY <1>1 DEF Inspects, Reclaims, Creates, Writes, Publishes, RuntimeCloses, Unpublishes,
                Unlinks, Releases, Leaves
  <2> QED  BY <2>1, <2>2
<1>2. CASE Starts(p)
  <2>1. CASE projectLock = None
    BY <1>2, <2>1 DEF Starts
  <2>2. CASE projectLock # None
    BY <1>2, <2>2 DEF Starts, Exits
  <2> QED  BY <2>1, <2>2
<1>3. CASE ArmsGrace(p)
  BY <1>3 DEF ArmsGrace
<1>4. CASE GraceEnds(p)
  <2>1. CASE sessions[p] = {}
    BY <1>4, <2>1 DEF GraceEnds, Closes
  <2>2. CASE sessions[p] # {}
    <3>1. /\ timers' = [timers EXCEPT ![p] = @ \ {"grace"}]
          /\ UNCHANGED <<pc, managed, sessions>>
      BY <1>4, <2>2, Zenon DEF GraceEnds
    <3>2. /\ \A q \in Servers \ {p} : timers'[q] = timers[q]
          /\ timers'[p] \subseteq timers[p]
      BY <3>1
    <3> QED  BY <2>2, <3>1, <3>2
  <2> QED  BY <2>1, <2>2
<1>5. CASE IdleEnds(p)
  BY <1>5 DEF IdleEnds, Closes
<1>6. CASE StartFails(p)
  BY <1>6 DEF StartFails, Exits
<1>7. CASE Signal(p)
  BY <1>7 DEF Signal, Closes
<1>8. CASE SignalWhileClosing(p)
  BY <1>8 DEF SignalWhileClosing
<1>9. CASE Crash(p)
  BY <1>9 DEF Crash
<1> QED
  BY <1>1, <1>2, <1>3, <1>4, <1>5, <1>6, <1>7, <1>8, <1>9
     DEF ServerMoves, ServerSteps, TimerFires, ServerBefallen

LEMMA TimersSessions ==
  ASSUME ServerTypeOK, TimersInv, NEW p \in Servers, NEW c \in Clients,
         OpenSession(p, c) \/ CloseSession(p, c)
  PROVE  TimersInv'
<1>1. CASE OpenSession(p, c)
  BY <1>1 DEF ServerTypeOK, TimersInv, IdleWithoutSessions, TimersMatchUse, OpenSession
<1>2. CASE CloseSession(p, c)
  <2>1. /\ \A q \in Servers \ {p} : sessions'[q] = sessions[q] /\ timers'[q] = timers[q]
        /\ sessions'[p] = sessions[p] \ {c}
        /\ timers'[p] = IF sessions[p] = {c} /\ IdleShutdown THEN timers[p] \cup {"idle"} ELSE timers[p]
        /\ c \in sessions[p] /\ UNCHANGED <<pc, managed>>
    BY <1>2 DEF ServerTypeOK, CloseSession
  <2>2. IdleWithoutSessions'
    BY <2>1 DEF TimersInv, IdleWithoutSessions
  <2>3. TimersMatchUse'
    <3>1. ASSUME IdleShutdown, sessions'[p] = {} PROVE timers'[p] # {}
      BY <2>1, <3>1
    <3>2. "idle" \in timers'[p] => sessions'[p] = {}
      BY <2>2 DEF IdleWithoutSessions
    <3> QED  BY <2>1, <3>1, <3>2 DEF TimersInv, TimersMatchUse, ServerTypeOK
  <2> QED  BY <2>2, <2>3 DEF TimersInv
<1> QED  BY <1>1, <1>2

LEMMA TimersSpawned ==
  ASSUME ServerTypeOK, TimersInv, NEW p \in Servers, NEW b \in BOOLEAN, Spawn(p, b)
  PROVE  TimersInv'
BY DEF ServerTypeOK, TimersInv, IdleWithoutSessions, TimersMatchUse, Spawn, Goes

LEMMA TimersUntouched ==
  ASSUME TimersInv, UNCHANGED <<pc, managed, sessions, timers>>
  PROVE  TimersInv'
BY DEF TimersInv, IdleWithoutSessions, TimersMatchUse

LEMMA TimersStep ==
  ServerInv /\ CallInv /\ DescriptorInv /\ TimersInv /\ [ConnectorNext]_connectorVars => TimersInv'
<1> SUFFICES ASSUME ServerInv, CallInv, DescriptorInv, TimersInv, [ConnectorNext]_connectorVars
             PROVE  TimersInv'
  OBVIOUS
<1>0. ServerTypeOK /\ CallTypeOK
  BY DEF ServerInv, CallInv
<1>1. CASE UNCHANGED connectorVars
  BY <1>1, TimersUntouched DEF connectorVars, serverVars
<1>2. ASSUME NEW c \in Connectors,
             ConnectorSteps(c) \/ SpawnFails(c) \/ Deadline(c) \/ ConnectorKilled(c)
      PROVE  TimersInv'
  <2>1. CASE Spawns(c)
    BY <1>0, <2>1, TimersSpawned DEF Spawns
  <2>2. CASE ~Spawns(c)
    <3>1. UNCHANGED <<pc, managed, sessions, timers>>
      BY <1>2, <2>2 DEF ConnectorSteps, Reads, Connects, Rejects, Matches, RemovesStale, TakesLock,
         WaitsForWinner, ChildCloses, SpawnFails, Deadline, ConnectorKilled, serverVars
    <3> QED  BY <3>1, TimersUntouched
  <2> QED  BY <2>1, <2>2
<1>3. ASSUME NEW c \in Connectors, OpensSession(c) \/ EndsSession(c)
      PROVE  TimersInv'
  <2>1. CASE UNCHANGED serverVars
    BY <2>1, TimersUntouched DEF serverVars
  <2>2. CASE OpenSession(conn[c].seen, c) \/ CloseSession(conn[c].seen, c)
    <3>1. conn[c].seen \in Servers
      BY <1>0, <2>2 DEF CallTypeOK, OpenSession, CloseSession, Healthy, ServerTypeOK
    <3> QED  BY <1>0, <2>2, <3>1, TimersSessions
  <2> QED  BY <1>3, <2>1, <2>2 DEF OpensSession, EndsSession
<1>4. ASSUME NEW c \in Connectors, NEW p \in Servers, SessionExpires(p, c)
      PROVE  TimersInv'
  BY <1>0, <1>4, TimersSessions DEF SessionExpires
<1>5. ASSUME NEW p \in Servers, ProcessWorks(p) \/ ProcessIdles(p) \/ ProcessBefallen(p)
      PROVE  TimersInv'
  BY <1>0, <1>5, TimersMoves DEF ProcessWorks, ProcessIdles, ProcessBefallen, ServerMoves
<1>6. CASE UserStarts
  BY <1>0, <1>6, TimersSpawned DEF UserStarts
<1>7. CASE LocksExpire
  <2>1. UNCHANGED <<pc, managed, sessions, timers>>
    BY <1>7 DEF LocksExpire, StartupLockStale, ProjectLockStale, serverVars
  <2> QED  BY <2>1, TimersUntouched
<1> QED
  BY <1>1, <1>2, <1>3, <1>4, <1>5, <1>6, <1>7 DEF ConnectorNext

\* A managed server that has no session and may go away by itself has a timer set
\* that makes it go, and the idle timer never runs out under a session, also when
\* sessions open and close before the descriptor is written.
THEOREM TimersAlwaysMatch == ConnectorSpec => []TimersMatchUse
<1>1. ConnectorInit => TimersInv
  BY DEF ConnectorInit, ServerInit, TimersInv, IdleWithoutSessions, TimersMatchUse
<1>2. TimersInv => TimersMatchUse
  BY DEF TimersInv
<1> QED
  BY <1>1, <1>2, TimersStep, ProcessesStaySound, CallsStaySound, DescriptorHolds, PTL
     DEF ConnectorSpec
-----------------------------------------------------------------------------
(* As long as nothing goes wrong one server is started. *)

Spawned == {p \in Servers \ {Old} : pc[p] # "unborn"}

\* There is one at most, it is on its way or serves, and finds no file or lock
\* of another but what the dead one left.
ServersAlone ==
  /\ killed = {Old}
  /\ \A p \in Spawned : pc[p] \in Starting \cup Serving /\ p \in managed
  /\ \A p, q \in Spawned : p = q
  /\ projectLock # None => pc[projectLock] \in {"listen"} \cup Serving
  /\ \A p \in Spawned : pc[p] = "create" => pidFile = None

\* A call has the startup lock and has not spawned yet.
UnderLock == startupLock # None /\ conn[startupLock].stage = "again"

AgainHasLock ==
  \A c \in Connectors : conn[c].at \notin Ended /\ conn[c].stage = "again" => startupLock = c

\* A call spawns when there is no server only, and polls for one that is there
\* or will be spawned by the holder of the lock.
GoesWell(c) ==
  /\ conn[c].at \notin {"failed", "killed"} /\ conn[c].stage # "last"
  /\ conn[c].child # None => conn[c].child \in Spawned
  /\ conn[c].at = "spawn" => conn[c].stage = "again" /\ Spawned = {}
  /\ conn[c].at = "check" /\ conn[c].stage = "again" =>
       Spawned = {} \/ Healthy(conn[c].seen)
  /\ Polls(c) => Spawned # {} \/ UnderLock

\* The lock is given back once the server serves.
LockMeansServed ==
  startupLock = None \/ UnderLock => \A p \in Spawned : pc[p] \in Serving

WellInv ==
  /\ ServersAlone
  /\ AgainHasLock
  /\ \A c \in Connectors : GoesWell(c)
  /\ LockMeansServed

Untroubled == trouble = {} => WellInv

LEMMA OldIsGone == ServerInv /\ ServersAlone => pc[Old] = "gone"
BY DEF ServerInv, KilledIsGone, ServersAlone

\* While there is no trouble a server only goes forward.
LEMMA AloneMoves ==
  ASSUME ServerInv, ServersAlone, NEW p \in Servers, ServerMoves(p), trouble' = {}
  PROVE  /\ ServersAlone' /\ p \in Spawned /\ Spawned' = Spawned /\ managed' = managed
         /\ \A q \in Servers : pc[q] \in Serving => pc'[q] \in Serving
<1>1. ServerTypeOK /\ FilesExplained /\ KilledIsGone /\ pc[Old] = "gone"
  BY OldIsGone DEF ServerInv
<1>2. /\ pc[p] \notin {"unborn", "gone"} /\ pc'[p] # "unborn"
      /\ \A q \in Servers \ {p} : pc'[q] = pc[q]
      /\ managed' = managed
  BY MovesForward DEF ServerInv
<1>3. p \in Spawned /\ Spawned' = Spawned
  BY <1>1, <1>2 DEF Spawned
<1>4. p \in managed /\ pc[p] \in Starting \cup Serving /\ \A q \in Spawned : q = p
  BY <1>3 DEF ServersAlone
<1>5. pidFile # None => pidFile.of \in Servers /\ (pidFile.of = Old \/ pc[p] \in OwnsPidFile)
  <2> SUFFICES ASSUME pidFile # None, pidFile.of # Old PROVE pidFile.of \in Servers /\ pc[p] \in OwnsPidFile
    BY <1>1 DEF ServerTypeOK
  <2>1. pidFile.of \in Servers
    BY <1>1 DEF ServerTypeOK
  <2>2. pidFile.of \notin killed
    BY <2>1 DEF ServersAlone
  <2>3. pc[pidFile.of] \in OwnsPidFile
    BY <1>1, <2>1, <2>2 DEF FilesExplained
  <2>4. pidFile.of \in Spawned
    BY <2>1, <2>3 DEF Spawned, OwnsPidFile, Serving, Closing
  <2> QED  BY <1>4, <2>1, <2>3, <2>4
<1>6. projectLock # None => projectLock = p /\ pc[p] \in {"listen"} \cup Serving
  <2> SUFFICES ASSUME projectLock # None
               PROVE  projectLock = p /\ pc[p] \in {"listen"} \cup Serving
    OBVIOUS
  <2>1. projectLock \in Servers /\ pc[projectLock] \in {"listen"} \cup Serving
    BY <1>1 DEF ServerTypeOK, ServersAlone
  <2>2. projectLock \in Spawned
    BY <1>1, <2>1 DEF Spawned, Serving
  <2> QED  BY <1>4, <2>1, <2>2
<1>7. SUFFICES /\ killed' = killed /\ pc'[p] \in Starting \cup Serving
               /\ pc[p] \in Serving => pc'[p] \in Serving
               /\ projectLock' # None => projectLock' = p /\ pc'[p] \in {"listen"} \cup Serving
               /\ pc'[p] = "create" => pidFile' = None
  <2>1. ServersAlone'
    BY <1>2, <1>3, <1>4, <1>7 DEF ServersAlone
  <2> QED  BY <1>2, <1>3, <1>7, <2>1
<1> USE <1>1, <1>4, <1>6, <1>7 DEF ServerTypeOK, Starting, Serving, Goes, lockVars
<1>8. CASE Inspects(p)
  <2>1. pc[p] = "inspect"
    BY <1>8 DEF Inspects
  <2>2. pidFile # None => ~Alive(pidFile.of)
    BY <1>5, <2>1 DEF OwnsPidFile, Closing, Alive
  <2> QED  BY <1>8, <2>2 DEF Inspects
<1>9. CASE Reclaims(p)
  BY <1>9 DEF Reclaims
<1>10. CASE Creates(p)
  <2>1. pidFile = None
    BY <1>3, <1>10 DEF ServersAlone, Creates
  <2> QED  BY <1>10, <2>1 DEF Creates
<1>11. CASE Writes(p)
  BY <1>11 DEF Writes
<1>12. CASE Starts(p)
  <2>1. projectLock = None
    BY <1>12 DEF Starts
  <2> QED  BY <1>12, <2>1 DEF Starts
<1>13. CASE Publishes(p)
  BY <1>13 DEF Publishes
<1>14. CASE ArmsGrace(p)
  BY <1>14 DEF ArmsGrace
<1>15. CASE RuntimeCloses(p) \/ Unpublishes(p) \/ Unlinks(p) \/ Releases(p) \/ Leaves(p)
  BY <1>15 DEF RuntimeCloses, Unpublishes, Unlinks, Releases, Leaves
<1>16. CASE GraceEnds(p)
  <2>1. CASE sessions[p] = {}
    BY <1>16, <2>1 DEF GraceEnds, Notes
  <2>2. CASE sessions[p] # {}
    <3>1. UNCHANGED <<pc, projectLock, pidFile, killed>>
      BY <1>16, <2>2, Zenon DEF GraceEnds
    <3> QED  BY <1>3, <3>1 DEF ServersAlone
  <2> QED  BY <2>1, <2>2
<1>17. CASE IdleEnds(p) \/ StartFails(p) \/ Signal(p) \/ SignalWhileClosing(p) \/ Crash(p)
  BY <1>17 DEF IdleEnds, Notes, StartFails, Signal, SignalWhileClosing, Crash, Befalls
<1> QED
  BY <1>8, <1>9, <1>10, <1>11, <1>12, <1>13, <1>14, <1>15, <1>16, <1>17
     DEF ServerMoves, ServerSteps, TimerFires, ServerBefallen

LEMMA WellMoves ==
  ASSUME ServerInv, CallTypeOK, WellInv, NEW p \in Servers, ServerMoves(p), trouble' = {},
         UNCHANGED <<conn, startupLock>>
  PROVE  WellInv'
<1>1. /\ ServersAlone' /\ Spawned' = Spawned /\ managed' = managed
      /\ \A q \in Servers : pc[q] \in Serving => pc'[q] \in Serving
  BY AloneMoves DEF WellInv
<1>2. AgainHasLock' /\ UnderLock' = UnderLock
  BY DEF WellInv, AgainHasLock, UnderLock
<1>3. \A q \in Servers : Healthy(q) => Healthy(q)'
  BY <1>1 DEF Healthy
<1>4. ASSUME NEW c \in Connectors PROVE GoesWell(c)'
  <2>1. Healthy(conn[c].seen) => Healthy(conn[c].seen)'
    BY <1>1, <1>3 DEF CallTypeOK, Healthy, ServerInv, ServerTypeOK
  <2> QED  BY <1>1, <1>2, <2>1 DEF WellInv, GoesWell, Polls
<1>5. LockMeansServed'
  BY <1>1, <1>2 DEF WellInv, LockMeansServed, Spawned
<1> QED  BY <1>1, <1>2, <1>4, <1>5 DEF WellInv
\* A call goes on and the processes stay as they are.
LEMMA WellGoesOn ==
  ASSUME CallTypeOK, WellInv, UNCHANGED <<pc, managed, lockVars, killed, startupLock>>,
         NEW c \in Connectors,
         \A d \in Connectors \ {c} : conn'[d] = conn[d],
         conn'[c].child = conn[c].child,
         conn'[c].stage = conn[c].stage \/ (startupLock # c /\ conn'[c].stage = "poll"),
         conn'[c].at \notin {"failed", "killed"},
         conn'[c].at \notin Ended => conn[c].at \notin Ended,
         conn'[c].at = "spawn" => conn'[c].stage = "again" /\ Spawned = {},
         conn'[c].at = "check" /\ conn'[c].stage = "again" =>
           Spawned = {} \/ Healthy(conn'[c].seen),
         Polls(c)' => Spawned # {} \/ UnderLock
  PROVE  WellInv'
<1>1. ServersAlone' /\ Spawned' = Spawned
  BY DEF WellInv, ServersAlone, Spawned, lockVars
<1>2. startupLock # None => startupLock \in Connectors
  BY DEF CallTypeOK
<1>3. AgainHasLock'
  BY DEF WellInv, AgainHasLock
<1>4. UnderLock' = UnderLock
  BY <1>2 DEF UnderLock
<1>5. GoesWell(c)'
  BY <1>1, <1>4 DEF WellInv, GoesWell, Healthy
<1>6. ASSUME NEW d \in Connectors \ {c} PROVE GoesWell(d)'
  BY <1>1, <1>4 DEF WellInv, GoesWell, Polls, Healthy
<1>7. LockMeansServed'
  BY <1>1, <1>4 DEF WellInv, LockMeansServed
<1> QED  BY <1>1, <1>3, <1>5, <1>6, <1>7 DEF WellInv

\* The holder of the lock sees a server's descriptor when there is a server.
LEMMA HolderSeesServer ==
  ASSUME ServerInv, CallInv, DescriptorInv, WellInv, trouble = {}, NEW c \in Connectors,
         conn[c].at \notin Ended, conn[c].stage = "again", NEW p \in Spawned
  PROVE  descriptor = p /\ Healthy(p) /\ descriptor # None
<1>1. startupLock = c /\ c # None
  BY DEF WellInv, AgainHasLock
<1>2. UnderLock
  BY <1>1 DEF UnderLock
<1>3. Healthy(p)
  BY <1>2 DEF WellInv, LockMeansServed, ServersAlone, Healthy
<1>4. descriptor = p
  BY <1>3 DEF DescriptorInv, PublishedWhileServing, Spawned
<1> QED  BY <1>3, <1>4 DEF Spawned

LEMMA WellReads ==
  ASSUME ServerInv, CallInv, DescriptorInv, WellInv, trouble = {}, NEW c \in Connectors, Reads(c)
  PROVE  WellInv'
<1>1. /\ CallTypeOK /\ UNCHANGED <<pc, managed, lockVars, killed, startupLock>>
      /\ conn[c].stage \in {"first", "again", "poll"} /\ conn[c].at = "read"
  BY DEF CallInv, CallTypeOK, WellInv, GoesWell, Reads, serverVars
<1>2. Polls(c) => Spawned # {} \/ UnderLock
  BY DEF WellInv, GoesWell
<1>3. CASE descriptor # None
  <2>1. conn' = [conn EXCEPT ![c].at = "check", ![c].seen = descriptor]
    BY <1>3 DEF Reads
  <2>2. /\ conn'[c].at = "check" /\ conn'[c].seen = descriptor /\ conn'[c].stage = conn[c].stage
        /\ conn'[c].child = conn[c].child
        /\ \A d \in Connectors \ {c} : conn'[d] = conn[d]
    BY <1>1, <2>1 DEF CallTypeOK
  <2>3. conn[c].stage = "again" => Spawned = {} \/ Healthy(descriptor)
    BY <1>1, HolderSeesServer
  <2> QED  BY <1>1, <1>2, <2>2, <2>3, WellGoesOn DEF Polls
<1>4. CASE descriptor = None
  <2>1. PICK at \in {"want", "spawn", "read"} :
          /\ Puts(c, at, conn[c].stage)
          /\ at = "spawn" => conn[c].stage = "again"
    BY <1>1, <1>4 DEF Reads, Invalid, Removed
  <2>2. /\ conn'[c].at = at /\ conn'[c].stage = conn[c].stage /\ conn'[c].child = conn[c].child
        /\ \A d \in Connectors \ {c} : conn'[d] = conn[d]
    BY <1>1, <2>1, PutsFields
  <2>3. conn[c].stage = "again" => Spawned = {}
    BY <1>1, <1>4, HolderSeesServer
  <2> QED  BY <1>1, <1>2, <2>1, <2>2, <2>3, WellGoesOn DEF Polls
<1> QED  BY <1>3, <1>4

LEMMA WellConnects ==
  ASSUME ServerInv, CallInv, DescriptorInv, WellInv, NEW c \in Connectors, Connects(c)
  PROVE  WellInv'
<1>1. CallTypeOK /\ UNCHANGED serverVars /\ conn[c].stage # "last" /\ conn[c].stage \in Stages
  BY DEF CallInv, CallTypeOK, WellInv, GoesWell, Connects
<1>2. Puts(c, "connected", conn[c].stage)
  BY <1>1 DEF Connects
<1>3. /\ conn'[c].at = "connected" /\ conn'[c].stage = conn[c].stage
      /\ conn'[c].child = conn[c].child /\ conn'[c].seen = conn[c].seen
      /\ \A d \in Connectors \ {c} : conn'[d] = conn[d]
  BY <1>1, <1>2, PutsFields
<1>4. conn[c].seen \in Spawned /\ pc[conn[c].seen] \in Serving
  <2>1. pc[Old] = "gone"
    BY OldIsGone DEF WellInv
  <2>2. Healthy(conn[c].seen) /\ conn[c].seen \in Servers
    BY DEF Connects, Healthy, ServerInv, ServerTypeOK
  <2> QED  BY <2>1, <2>2 DEF Healthy, Spawned, Serving
<1>5. ServersAlone' /\ Spawned' = Spawned /\ \A p \in Spawned : pc'[p] \in Serving
  BY <1>1, <1>4 DEF serverVars, lockVars, WellInv, ServersAlone, Spawned
<1>6. startupLock' = IF startupLock = c THEN None ELSE startupLock
  BY DEF Connects, Released
<1>7. AgainHasLock'
  BY <1>3, <1>6 DEF WellInv, AgainHasLock
<1>8. ASSUME NEW d \in Connectors PROVE GoesWell(d)'
  <2>1. GoesWell(d)
    BY DEF WellInv
  <2>2. Healthy(conn[d].seen) => Healthy(conn[d].seen)'
    BY <1>1, <1>3 DEF Healthy, serverVars
  <2> QED  BY <1>3, <1>4, <1>5, <2>1, <2>2 DEF GoesWell, Polls
<1>9. LockMeansServed'
  BY <1>5 DEF LockMeansServed
<1> QED  BY <1>5, <1>7, <1>8, <1>9 DEF WellInv

LEMMA WellRejects ==
  ASSUME CallInv, WellInv, trouble' = {}, NEW c \in Connectors, Rejects(c)
  PROVE  WellInv'
<1>1. /\ CallTypeOK /\ UNCHANGED <<pc, managed, lockVars, killed, startupLock>>
      /\ conn[c].stage \in {"first", "again", "poll"} /\ conn[c].at = "check"
      /\ ~Healthy(conn[c].seen)
  BY DEF CallInv, CallTypeOK, WellInv, GoesWell, Rejects, Befalls
<1>2. PICK at \in {"match", "spawn", "read"} :
        /\ Puts(c, at, conn[c].stage)
        /\ at = "spawn" => conn[c].stage = "again"
        /\ at = "read" => conn[c].stage = "poll"
  BY <1>1 DEF Rejects, Invalid
<1>3. /\ conn'[c].at = at /\ conn'[c].stage = conn[c].stage /\ conn'[c].child = conn[c].child
      /\ \A d \in Connectors \ {c} : conn'[d] = conn[d]
  BY <1>1, <1>2, PutsFields
<1>4. /\ conn[c].stage = "again" => Spawned = {}
      /\ Polls(c) => Spawned # {} \/ UnderLock
  BY <1>1 DEF WellInv, GoesWell
<1> QED  BY <1>1, <1>2, <1>3, <1>4, WellGoesOn DEF Polls

LEMMA WellRemoves ==
  ASSUME CallInv, WellInv, NEW c \in Connectors, Matches(c) \/ RemovesStale(c)
  PROVE  WellInv'
<1>1. /\ CallTypeOK /\ UNCHANGED <<pc, managed, lockVars, killed, startupLock>>
      /\ conn[c].stage = "first" /\ conn[c].at \in {"match", "unlink"}
  BY DEF CallInv, CallTypeOK, CallsFormed, WellInv, GoesWell, Matches, RemovesStale, serverVars
<1>2. PICK at \in {"unlink", "want"} : Puts(c, at, conn[c].stage)
  BY <1>1 DEF Matches, RemovesStale, Removed
<1>3. /\ conn'[c].at = at /\ conn'[c].stage = conn[c].stage /\ conn'[c].child = conn[c].child
      /\ \A d \in Connectors \ {c} : conn'[d] = conn[d]
  BY <1>1, <1>2, PutsFields
<1> QED  BY <1>1, <1>3, WellGoesOn DEF Polls

\* The lock is free only when a server that was started serves.
LEMMA WellTakesLock ==
  ASSUME CallInv, WellInv, NEW c \in Connectors, TakesLock(c)
  PROVE  WellInv'
<1>1. /\ CallTypeOK /\ UNCHANGED serverVars /\ startupLock = None /\ startupLock' = c
      /\ Puts(c, "read", "again") /\ c # None
  BY DEF CallInv, TakesLock
<1>2. /\ conn'[c].at = "read" /\ conn'[c].stage = "again" /\ conn'[c].child = conn[c].child
      /\ \A d \in Connectors \ {c} : conn'[d] = conn[d]
  BY <1>1, PutsFields
<1>3. ServersAlone' /\ Spawned' = Spawned
  BY <1>1 DEF serverVars, lockVars, WellInv, ServersAlone, Spawned
<1>4. \A p \in Spawned : pc'[p] \in Serving
  BY <1>1 DEF serverVars, WellInv, LockMeansServed
<1>5. UnderLock'
  BY <1>1, <1>2 DEF UnderLock
<1>6. AgainHasLock'
  BY <1>1, <1>2 DEF WellInv, AgainHasLock
<1>7. ASSUME NEW d \in Connectors PROVE GoesWell(d)'
  <2>1. GoesWell(d)
    BY DEF WellInv
  <2>2. Healthy(conn[d].seen) => Healthy(conn[d].seen)'
    BY <1>1 DEF Healthy, serverVars, Puts, CallTypeOK
  <2> QED  BY <1>2, <1>3, <1>5, <2>1, <2>2 DEF GoesWell, Polls
<1> QED  BY <1>3, <1>4, <1>6, <1>7 DEF WellInv, LockMeansServed

LEMMA WellWaits ==
  ASSUME CallInv, WellInv, NEW c \in Connectors, WaitsForWinner(c)
  PROVE  WellInv'
<1>1. /\ CallTypeOK /\ UNCHANGED <<pc, managed, lockVars, killed, startupLock>>
      /\ Puts(c, "read", "poll") /\ conn[c].at = "want" /\ startupLock # None
  BY DEF CallInv, WaitsForWinner, serverVars
<1>2. /\ conn'[c].at = "read" /\ conn'[c].stage = "poll" /\ conn'[c].child = conn[c].child
      /\ \A d \in Connectors \ {c} : conn'[d] = conn[d]
  BY <1>1, PutsFields
<1>3. startupLock \in Connectors /\ conn[startupLock].at \notin Ended
      /\ conn[startupLock].stage \in {"again", "poll"}
  BY <1>1 DEF CallTypeOK, CallInv, LockFormed, WellInv, GoesWell
<1>4. startupLock # c
  BY <1>1, <1>3 DEF CallInv, CallsFormed
<1>5. Spawned # {} \/ UnderLock
  <2>1. CASE conn[startupLock].stage = "again"
    BY <1>1, <2>1 DEF UnderLock
  <2>2. CASE conn[startupLock].stage = "poll"
    <3>1. conn[startupLock].at \in {"read", "check"}
      BY <1>3, <2>2 DEF CallInv, CallTypeOK, CallsFormed, WellInv, GoesWell
    <3>2. Polls(startupLock)
      BY <2>2, <3>1 DEF Polls
    <3> QED  BY <1>3, <3>2 DEF WellInv, GoesWell
  <2> QED  BY <1>3, <2>1, <2>2
<1> QED  BY <1>1, <1>2, <1>4, <1>5, WellGoesOn
\* Who spawns is alone with the lock, and spawns the first server.
LEMMA WellSpawns ==
  ASSUME ServerInv, CallInv, WellInv, NEW c \in Connectors, Spawns(c)
  PROVE  WellInv'
<1>1. PICK p \in Servers :
        /\ Spawn(p, TRUE)
        /\ conn' = [conn EXCEPT ![c].at = "read", ![c].stage = "poll", ![c].child = p]
  BY DEF Spawns
<1>2. /\ CallTypeOK /\ ServerTypeOK /\ startupLock' = startupLock
      /\ conn[c].at = "spawn" /\ conn[c].stage = "again" /\ Spawned = {}
  BY DEF ServerInv, CallInv, WellInv, GoesWell, Spawns
<1>3. startupLock = c /\ c # None
  BY <1>2 DEF WellInv, AgainHasLock
<1>4. /\ conn'[c].at = "read" /\ conn'[c].stage = "poll" /\ conn'[c].child = p
      /\ \A d \in Connectors \ {c} : conn'[d] = conn[d]
  BY <1>1, <1>2 DEF CallTypeOK
<1>5. p # Old /\ pc' = [pc EXCEPT ![p] = "inspect"] /\ managed' = managed \cup {p}
      /\ UNCHANGED <<lockVars, killed>> /\ pc[p] = "unborn"
  <2>1. pc[Old] = "gone"
    BY OldIsGone DEF WellInv
  <2> QED  BY <1>1, <2>1 DEF Spawn, Goes
<1>6. Spawned' = {p}
  BY <1>2, <1>5 DEF Spawned, ServerTypeOK
<1>7. ServersAlone'
  <2>1. projectLock = None
    <3>1. projectLock # None => projectLock \in Servers /\ pc[projectLock] \in {"listen"} \cup Serving
      BY <1>2 DEF WellInv, ServersAlone, ServerTypeOK
    <3>2. pc[Old] = "gone"
      BY OldIsGone DEF WellInv
    <3>3. projectLock # None => projectLock \in Spawned
      BY <3>1, <3>2 DEF Spawned, Serving
    <3> QED  BY <1>2, <3>3
  <2>2. pc'[p] = "inspect" /\ p \in managed'
    BY <1>2, <1>5 DEF ServerTypeOK
  <2>3. killed' = {Old} /\ projectLock' = None
    BY <1>5, <2>1 DEF WellInv, ServersAlone, lockVars
  <2> QED  BY <1>6, <2>2, <2>3 DEF ServersAlone, Starting
<1>8. AgainHasLock'
  BY <1>2, <1>4 DEF WellInv, AgainHasLock
<1>9. GoesWell(c)'
  BY <1>4, <1>6 DEF GoesWell, Polls
<1>10. ASSUME NEW d \in Connectors \ {c} PROVE GoesWell(d)'
  <2>1. GoesWell(d) /\ conn'[d] = conn[d]
    BY <1>4 DEF WellInv
  <2>2. conn[d].stage = "again" => conn[d].at \in Ended
    BY <1>3 DEF WellInv, AgainHasLock
  <2> QED  BY <1>2, <1>6, <2>1, <2>2 DEF GoesWell, Polls
<1>11. LockMeansServed'
  BY <1>2, <1>3, <1>4 DEF LockMeansServed, UnderLock
<1> QED  BY <1>7, <1>8, <1>9, <1>10, <1>11 DEF WellInv

\* A poll ends with a server: the child does not close, and who waits too long
\* waits for a server that is expected.
LEMMA PollsSucceed ==
  ASSUME ServerInv, CallInv, DescriptorInv, WellInv, trouble = {}, trouble' = {},
         NEW c \in Connectors, ChildCloses(c) \/ Deadline(c)
  PROVE  FALSE
<1>1. CASE ChildCloses(c)
  <2>1. conn[c].child \in Spawned
    BY <1>1 DEF ChildCloses, WellInv, GoesWell
  <2> QED  BY <1>1, <2>1 DEF ChildCloses, WellInv, ServersAlone, Starting, Serving
<1>2. CASE Deadline(c)
  <2>1. ~Expected
    BY <1>2 DEF Deadline, Befalls
  <2>2. Spawned # {} \/ UnderLock
    BY <1>2 DEF Deadline, WellInv, GoesWell
  <2>3. CASE UnderLock
    BY <2>1, <2>3 DEF UnderLock, Expected, CallInv, CallTypeOK
  <2>4. CASE Spawned # {}
    <3>1. PICK p \in Spawned : TRUE
      BY <2>4
    <3>2. p \in managed /\ pc[p] \in Starting \cup Serving
      BY DEF WellInv, ServersAlone
    <3>3. pc[p] \in Serving => Healthy(p) /\ descriptor = p
      BY <3>2 DEF Healthy, DescriptorInv, PublishedWhileServing, Spawned
    <3> QED  BY <2>1, <3>2, <3>3 DEF Expected
  <2> QED  BY <2>2, <2>3, <2>4
<1> QED  BY <1>1, <1>2

LEMMA WellUsesSession ==
  ASSUME CallInv, WellInv, NEW c \in Connectors, OpensSession(c) \/ EndsSession(c)
  PROVE  WellInv'
<1>1. /\ CallTypeOK /\ UNCHANGED <<pc, managed, lockVars, killed, startupLock>>
      /\ conn[c].stage \in Stages
  BY DEF CallInv, CallTypeOK, OpensSession, EndsSession, OpenSession, CloseSession, serverVars
<1>2. PICK at \in {"session", "done"} : Puts(c, at, conn[c].stage)
  BY DEF OpensSession, EndsSession
<1>3. /\ conn'[c].at = at /\ conn'[c].stage = conn[c].stage /\ conn'[c].child = conn[c].child
      /\ \A d \in Connectors \ {c} : conn'[d] = conn[d]
  BY <1>1, <1>2, PutsFields
<1> QED  BY <1>1, <1>3, WellGoesOn DEF Polls

LEMMA WellUntouched ==
  ASSUME WellInv, UNCHANGED <<pc, managed, pidFile, killed, conn, startupLock>>,
         projectLock' \in {projectLock, None}
  PROVE  WellInv'
<1>1. ServersAlone' /\ Spawned' = Spawned
  BY DEF WellInv, ServersAlone, Spawned
<1>2. AgainHasLock' /\ UnderLock' = UnderLock /\ LockMeansServed'
  BY <1>1 DEF WellInv, AgainHasLock, UnderLock, LockMeansServed
<1>3. ASSUME NEW c \in Connectors PROVE GoesWell(c)'
  BY <1>1, <1>2 DEF WellInv, GoesWell, Polls, Healthy
<1> QED  BY <1>1, <1>2, <1>3 DEF WellInv

LEMMA UntroubledInitially == ConnectorInit => Untroubled
<1> SUFFICES ASSUME ConnectorInit PROVE WellInv
  BY DEF Untroubled
<1>1. Spawned = {}
  BY DEF ConnectorInit, ServerInit, Spawned
<1>2. ServersAlone
  BY <1>1 DEF ConnectorInit, ServerInit, ServersAlone
<1>3. \A c \in Connectors : conn[c].at = "read" /\ conn[c].stage = "first" /\ conn[c].child = None
  BY DEF ConnectorInit
<1> QED  BY <1>1, <1>2, <1>3 DEF WellInv, AgainHasLock, GoesWell, Polls, LockMeansServed

LEMMA UntroubledStep ==
  ServerInv /\ CallInv /\ DescriptorInv /\ Untroubled /\ [ConnectorNext]_connectorVars
    => Untroubled'
<1> SUFFICES ASSUME ServerInv, CallInv, DescriptorInv, Untroubled, trouble' = {},
                    [ConnectorNext]_connectorVars
             PROVE  WellInv'
  BY DEF Untroubled
<1>0. CallTypeOK /\ ServerTypeOK /\ ManagedListens
  BY DEF CallInv, ServerInv
<1>1. CASE UNCHANGED connectorVars
  BY <1>1, WellUntouched DEF Untroubled, connectorVars, serverVars, lockVars
<1>2. ASSUME NEW c \in Connectors, ConnectorSteps(c)
      PROVE  WellInv'
  <2>1. trouble = {}
    BY <1>2 DEF ConnectorSteps, Reads, Connects, Rejects, Matches, RemovesStale, TakesLock,
       WaitsForWinner, Spawns, ChildCloses, serverVars, Befalls, Notes
  <2>2. WellInv
    BY <2>1 DEF Untroubled
  <2>3. CASE Reads(c)
    BY <2>1, <2>2, <2>3, WellReads
  <2>4. CASE Connects(c)
    BY <2>2, <2>4, WellConnects
  <2>5. CASE Rejects(c)
    BY <2>2, <2>5, WellRejects
  <2>6. CASE Matches(c) \/ RemovesStale(c)
    BY <2>2, <2>6, WellRemoves
  <2>7. CASE TakesLock(c)
    BY <2>2, <2>7, WellTakesLock
  <2>8. CASE WaitsForWinner(c)
    BY <2>2, <2>8, WellWaits
  <2>9. CASE Spawns(c)
    BY <2>2, <2>9, WellSpawns
  <2>10. CASE ChildCloses(c)
    BY <2>1, <2>2, <2>10, PollsSucceed
  <2> QED  BY <1>2, <2>3, <2>4, <2>5, <2>6, <2>7, <2>8, <2>9, <2>10 DEF ConnectorSteps
<1>3. ASSUME NEW c \in Connectors, SpawnFails(c) \/ ConnectorKilled(c)
      PROVE  FALSE
  BY <1>3 DEF SpawnFails, ConnectorKilled, Befalls
<1>4. ASSUME NEW c \in Connectors, Deadline(c)
      PROVE  FALSE
  <2>1. trouble = {}
    BY <1>4 DEF Deadline, Befalls
  <2> QED  BY <1>4, <2>1, PollsSucceed DEF Untroubled
<1>5. ASSUME NEW c \in Connectors, OpensSession(c) \/ EndsSession(c)
      PROVE  WellInv'
  <2>1. trouble = {}
    BY <1>5 DEF OpensSession, EndsSession, OpenSession, CloseSession, serverVars
  <2> QED  BY <1>5, <2>1, WellUsesSession DEF Untroubled
<1>6. ASSUME NEW c \in Connectors, NEW p \in Servers, SessionExpires(p, c)
      PROVE  WellInv'
  BY <1>6, WellUntouched DEF Untroubled, SessionExpires, CloseSession, lockVars
<1>7. ASSUME NEW p \in Servers, ProcessWorks(p) \/ ProcessIdles(p) \/ ProcessBefallen(p)
      PROVE  WellInv'
  <2>1. ServerMoves(p) /\ UNCHANGED <<conn, startupLock>>
    BY <1>7 DEF ProcessWorks, ProcessIdles, ProcessBefallen, ServerMoves
  <2>2. trouble = {}
    BY <1>0, <2>1, MovesForward
  <2> QED  BY <1>0, <2>1, <2>2, WellMoves DEF Untroubled
<1>8. CASE UserStarts
  BY <1>8 DEF UserStarts, Befalls
<1>9. CASE LocksExpire
  <2>1. trouble = {}
    BY <1>9 DEF LocksExpire, StartupLockStale, ProjectLockStale, serverVars
  <2>2. ~StartupLockStale
    BY <1>0, <2>1 DEF Untroubled, WellInv, GoesWell, StartupLockStale, CallTypeOK
  <2> QED  BY <1>9, <2>1, <2>2, WellUntouched DEF Untroubled, LocksExpire, ProjectLockStale
<1> QED
  BY <1>1, <1>2, <1>3, <1>4, <1>5, <1>6, <1>7, <1>8, <1>9 DEF ConnectorNext

LEMMA UntroubledHolds == ConnectorSpec => []Untroubled
BY UntroubledInitially, UntroubledStep, ProcessesStaySound, CallsStaySound, DescriptorHolds, PTL
   DEF ConnectorSpec

\* However many calls of ensureProjectEndpoint() are made at once, also over the
\* files of a dead process: as long as nothing goes wrong they all get an address
\* and start one server between them.
THEOREM OneServerServesAll == ConnectorSpec => []OneServerForAll
<1>1. WellInv => /\ \A c \in Connectors : conn[c].at # "failed"
                 /\ Cardinality(Spawned) <= 1
  <2> SUFFICES ASSUME WellInv
               PROVE  /\ \A c \in Connectors : conn[c].at # "failed"
                      /\ Cardinality(Spawned) <= 1
    OBVIOUS
  <2>1. \A c \in Connectors : conn[c].at # "failed"
    BY DEF WellInv, GoesWell
  <2>2. CASE Spawned = {}
    BY <2>1, <2>2, FS_EmptySet
  <2>3. CASE Spawned # {}
    <3>1. \A p, q \in Spawned : p = q
      BY <2>3 DEF WellInv, ServersAlone
    <3>2. PICK p \in Spawned : TRUE
      BY <2>3
    <3>3. Spawned = {p}
      BY <3>1, <3>2
    <3> QED  BY <2>1, <3>3, FS_Singleton
  <2> QED  BY <2>2, <2>3
<1>2. Untroubled => OneServerForAll
  BY <1>1 DEF Untroubled, OneServerForAll, Spawned
<1> QED  BY <1>2, UntroubledHolds, PTL

-----------------------------------------------------------------------------
(* The type of the whole module. *)

\* A call that compares, removes or uses a descriptor has read one.
SeenNamed ==
  \A c \in Connectors :
    conn[c].at \in {"check", "match", "unlink", "connected", "session"} =>
      conn[c].seen # None

\* Every step leaves the other calls alone, and takes its own to such a place
\* either with a descriptor it has just read or from another such place.
LEMMA SeenStays ==
  ASSUME CallTypeOK, SeenNamed, NEW c \in Connectors, NEW at \in Places, NEW stage \in Stages,
         at \in {"match", "unlink", "connected", "session"} =>
           conn[c].at \in {"check", "match", "connected"},
         at # "check", Puts(c, at, stage)
  PROVE  SeenNamed'
<1>1. /\ conn'[c].at = at /\ conn'[c].seen = conn[c].seen
      /\ \A d \in Connectors \ {c} : conn'[d] = conn[d]
  BY PutsFields
<1> QED  BY <1>1 DEF SeenNamed

LEMMA SeenAfterReads ==
  ASSUME CallInv, ServerTypeOK, SeenNamed, NEW c \in Connectors, Reads(c)
  PROVE  SeenNamed'
<1>1. CallTypeOK /\ conn[c].stage \in Stages
  BY DEF CallInv, CallTypeOK
<1>2. CASE descriptor # None
  <2>1. /\ conn'[c].seen = descriptor
        /\ \A d \in Connectors \ {c} : conn'[d] = conn[d]
    BY <1>1, <1>2 DEF Reads, CallTypeOK
  <2> QED  BY <1>2, <2>1 DEF SeenNamed
<1>3. CASE descriptor = None
  <2>1. PICK at \in {"want", "failed", "spawn", "read"}, stage \in Stages : Puts(c, at, stage)
    <3>1. CASE Invalid(c).at = "match"
      BY <1>1, <1>3, <3>1 DEF Reads, Removed
    <3>2. CASE Invalid(c).at # "match"
      BY <1>1, <1>3, <3>2, InvalidFormed DEF Reads
    <3> QED  BY <3>1, <3>2
  <2> QED  BY <1>1, <2>1, SeenStays
<1> QED  BY <1>2, <1>3

LEMMA SeenAfterSteps ==
  ASSUME CallInv, SeenNamed, NEW c \in Connectors,
         Connects(c) \/ Rejects(c) \/ Matches(c) \/ RemovesStale(c) \/ TakesLock(c)
           \/ WaitsForWinner(c)
  PROVE  SeenNamed'
<1>1. CallTypeOK /\ conn[c].stage \in Stages
  BY DEF CallInv, CallTypeOK
<1>2. CASE Connects(c)
  BY <1>1, <1>2, SeenStays DEF Connects
<1>3. CASE Rejects(c)
  <2>1. /\ Invalid(c).at \in {"match", "spawn", "read"} /\ Invalid(c).stage \in Stages
        /\ Puts(c, Invalid(c).at, Invalid(c).stage) /\ conn[c].at = "check"
    BY <1>1, <1>3, InvalidFormed DEF Rejects
  <2> QED  BY <1>1, <2>1, SeenStays
<1>4. CASE Matches(c)
  <2>1. PICK at \in {"unlink", "want", "failed"} : Puts(c, at, conn[c].stage)
    BY <1>4 DEF Matches, Removed
  <2> QED  BY <1>1, <1>4, <2>1, SeenStays DEF Matches
<1>5. CASE RemovesStale(c)
  <2>1. PICK at \in {"want", "failed"} : Puts(c, at, conn[c].stage)
    BY <1>5 DEF RemovesStale, Removed
  <2> QED  BY <1>1, <2>1, SeenStays
<1>6. CASE TakesLock(c) \/ WaitsForWinner(c)
  <2>1. PICK stage \in {"again", "poll"} : Puts(c, "read", stage)
    BY <1>6 DEF TakesLock, WaitsForWinner
  <2> QED  BY <1>1, <2>1, SeenStays
<1> QED  BY <1>2, <1>3, <1>4, <1>5, <1>6

LEMMA SeenAfterEnds ==
  ASSUME CallInv, SeenNamed, NEW c \in Connectors,
         Fails(c) \/ OpensSession(c) \/ EndsSession(c) \/ ConnectorKilled(c)
  PROVE  SeenNamed'
<1>1. CallTypeOK /\ conn[c].stage \in Stages
  BY DEF CallInv, CallTypeOK
<1>2. CASE Fails(c)
  <2>1. PICK at \in {"read", "failed"}, stage \in Stages : Puts(c, at, stage)
    BY <1>1, <1>2 DEF Fails
  <2> QED  BY <1>1, <2>1, SeenStays
<1>3. CASE OpensSession(c)
  <2>1. PICK at \in {"session", "done"} : Puts(c, at, conn[c].stage)
    BY <1>3 DEF OpensSession
  <2> QED  BY <1>1, <1>3, <2>1, SeenStays DEF OpensSession
<1>4. CASE EndsSession(c)
  BY <1>1, <1>4, SeenStays DEF EndsSession
<1>5. CASE ConnectorKilled(c)
  BY <1>1, <1>5, SeenStays DEF ConnectorKilled
<1> QED  BY <1>2, <1>3, <1>4, <1>5

LEMMA SeenAfterSpawn ==
  ASSUME CallInv, SeenNamed, NEW c \in Connectors, Spawns(c)
  PROVE  SeenNamed'
<1>1. PICK p \in Servers :
        conn' = [conn EXCEPT ![c].at = "read", ![c].stage = "poll", ![c].child = p]
  BY DEF Spawns
<1>2. conn'[c].at = "read" /\ \A d \in Connectors \ {c} : conn'[d] = conn[d]
  BY <1>1 DEF CallInv, CallTypeOK
<1> QED  BY <1>2 DEF SeenNamed

LEMMA SeenElsewhere ==
  ASSUME SeenNamed, conn' = conn
  PROVE  SeenNamed'
BY DEF SeenNamed

\* The types of project-connector.ts's calls and of the processes they meet: no
\* call uses, judges or removes a descriptor that it has not read.
THEOREM ConnectorTyped == ConnectorSpec => []ConnectorTypeOK
<1>1. ConnectorInit => SeenNamed
  BY DEF ConnectorInit, SeenNamed
<1>2. CallInv /\ ServerInv /\ SeenNamed /\ [ConnectorNext]_connectorVars => SeenNamed'
  <2> SUFFICES ASSUME CallInv, ServerInv, SeenNamed, [ConnectorNext]_connectorVars
               PROVE  SeenNamed'
    OBVIOUS
  <2>1. CASE UNCHANGED connectorVars
    BY <2>1, SeenElsewhere DEF connectorVars
  <2>2. ASSUME NEW c \in Connectors, ConnectorSteps(c) \/ SpawnFails(c) \/ Deadline(c)
        PROVE  SeenNamed'
    <3>1. CASE Reads(c)
      BY <3>1, SeenAfterReads DEF ServerInv
    <3>2. CASE Connects(c) \/ Rejects(c) \/ Matches(c) \/ RemovesStale(c) \/ TakesLock(c)
                 \/ WaitsForWinner(c)
      BY <3>2, SeenAfterSteps
    <3>3. CASE Spawns(c)
      BY <3>3, SeenAfterSpawn
    <3>4. CASE ChildCloses(c) \/ SpawnFails(c) \/ Deadline(c)
      BY <3>4, SeenAfterEnds DEF ChildCloses, SpawnFails, Deadline
    <3> QED  BY <2>2, <3>1, <3>2, <3>3, <3>4 DEF ConnectorSteps
  <2>3. ASSUME NEW c \in Connectors,
               \/ OpensSession(c) \/ EndsSession(c) \/ ConnectorKilled(c)
               \/ \E p \in Servers : SessionExpires(p, c)
        PROVE  SeenNamed'
    <3>1. CASE OpensSession(c) \/ EndsSession(c) \/ ConnectorKilled(c)
      BY <3>1, SeenAfterEnds
    <3>2. CASE \E p \in Servers : SessionExpires(p, c)
      BY <3>2, SeenElsewhere DEF SessionExpires
    <3> QED  BY <2>3, <3>1, <3>2
  <2>4. CASE \E p \in Servers : ProcessWorks(p) \/ ProcessIdles(p) \/ ProcessBefallen(p)
    BY <2>4, SeenElsewhere DEF ProcessWorks, ProcessIdles, ProcessBefallen
  <2>5. CASE UserStarts \/ LocksExpire
    BY <2>5, SeenElsewhere DEF UserStarts, LocksExpire, StartupLockStale
  <2> QED  BY <2>1, <2>2, <2>3, <2>4, <2>5 DEF ConnectorNext
<1>3. ServerInv /\ CallInv /\ SeenNamed => ConnectorTypeOK
  BY DEF ServerInv, CallInv, CallTypeOK, SeenNamed, ConnectorTypeOK
<1> QED
  BY <1>1, <1>2, <1>3, ProcessesStaySound, CallsStaySound, PTL DEF ConnectorSpec
=============================================================================
