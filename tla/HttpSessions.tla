------------------------------ MODULE HttpSessions ------------------------------
(***************************************************************************)
(* The sessions of the streamable HTTP transport (src/server/transport.ts) *)
(* and the count of them a managed server keeps by the two callbacks       *)
(* (src/server/managed-http-server.ts).  A session is made by a request to *)
(* initialize; it is closed by the client (the transport's onclose), by    *)
(* the idle timer, by the failure of its first request or by dispose(),    *)
(* any of which may come while requests are in flight.                     *)
(*                                                                         *)
(* The transport itself is a library: it asks for an id while it handles   *)
(* the first request, and a request may take any time.                     *)
(***************************************************************************)
EXTENDS Integers, FiniteSets

CONSTANTS
  Sessions,    \* ids of the sessions that are ever made
  MaxInFlight  \* bound: requests of one session at once

ASSUME SessionsAssumption == IsFiniteSet(Sessions)
ASSUME InFlightAssumption == MaxInFlight \in Nat \ {0}

VARIABLES
  sessions,        \* the map: ids under which requests find an entry
  made,            \* entries that were created
  fresh,           \* entries whose first request has not ended
  identified,      \* entries whose transport has an id
  closedEntries,   \* entries with closed set
  inFlight,        \* requests of every entry
  idle,            \* entries whose last activity is too long ago
  leaving,         \* entries whose server is being closed by closeEntry()
  activeSessions,  \* the managed server's count
  disposal,        \* dispose(): "no", "closing" or "done"
  awaited,         \* entries dispose() closes and waits for
  overtaken        \* history: entries that had no id yet when dispose() looked

entries == <<sessions, made, fresh, identified, closedEntries, inFlight, idle>>
disposeVars == <<disposal, awaited, overtaken>>
httpVars == <<entries, leaving, activeSessions, disposeVars>>

Open == identified \ closedEntries

OnSessionClose == activeSessions' = IF activeSessions > 0 THEN activeSessions - 1 ELSE 0

-----------------------------------------------------------------------------
\* createSessionEntry(), for a request to initialize under no known id.
CreateSessionEntry(s) ==
  /\ s \notin made
  /\ disposal = "no"
  /\ made' = made \cup {s}
  /\ fresh' = fresh \cup {s}
  /\ inFlight' = [inFlight EXCEPT ![s] = 1]
  /\ UNCHANGED <<sessions, identified, closedEntries, idle, leaving, activeSessions,
                 disposeVars>>

\* The transport takes its id and says that the session is initialized.
SessionInitialized(s) ==
  /\ s \in fresh \ identified
  /\ s \notin closedEntries
  /\ identified' = identified \cup {s}
  /\ sessions' = sessions \cup {s}
  /\ activeSessions' = activeSessions + 1
  /\ UNCHANGED <<made, fresh, closedEntries, inFlight, idle, leaving, disposeVars>>

HandleRequest(s) ==
  /\ s \in sessions
  /\ inFlight[s] < MaxInFlight
  /\ inFlight' = [inFlight EXCEPT ![s] = @ + 1]
  /\ idle' = idle \ {s}
  /\ UNCHANGED <<sessions, made, fresh, identified, closedEntries, leaving, activeSessions,
                 disposeVars>>

\* One request is over, the first of the session or another.
RequestOver(s, first) ==
  /\ inFlight[s] > (IF first \/ s \notin fresh THEN 0 ELSE 1)
  /\ first => s \in fresh
  /\ fresh' = IF first THEN fresh \ {s} ELSE fresh
  /\ inFlight' = [inFlight EXCEPT ![s] = @ - 1]
  /\ idle' = idle \ {s}

RequestEnds(s, first) ==
  /\ RequestOver(s, first)
  /\ sessions' = IF s \in Open THEN sessions \cup {s} ELSE sessions
  /\ UNCHANGED <<made, identified, closedEntries, leaving, activeSessions, disposeVars>>

\* The first request throws: cleanupFailedNewSession(), unless the entry has
\* been closed by then.
FirstRequestFails(s) ==
  /\ RequestOver(s, TRUE)
  /\ closedEntries' = closedEntries \cup {s}
  /\ IF s \in Open
     THEN sessions' = sessions \ {s} /\ OnSessionClose
     ELSE UNCHANGED <<sessions, activeSessions>>
  /\ UNCHANGED <<made, identified, leaving, disposeVars>>

\* transport.onclose: the client ended the session or its server was closed.
MutantOnClose(s) ==
  /\ s \in made \ closedEntries
  /\ closedEntries' = closedEntries \cup {s}
  /\ sessions' = sessions \ {s}
  /\ UNCHANGED <<made, fresh, identified, inFlight, idle, leaving, activeSessions,
                 disposeVars>>

OnClose(s) ==
  /\ s \in made \ closedEntries
  /\ closedEntries' = closedEntries \cup {s}
  /\ IF s \in identified
     THEN sessions' = sessions \ {s} /\ OnSessionClose
     ELSE UNCHANGED <<sessions, activeSessions>>
  /\ UNCHANGED <<made, fresh, identified, inFlight, idle, leaving, disposeVars>>

-----------------------------------------------------------------------------
\* closeEntry() up to the closing of the server, for every entry of S.
CloseEntries(S) ==
  /\ sessions' = sessions \ S
  /\ closedEntries' = closedEntries \cup S
  /\ leaving' = leaving \cup S

TimePasses(s) ==
  /\ s \in Open \ idle
  /\ idle' = idle \cup {s}
  /\ UNCHANGED <<sessions, made, fresh, identified, closedEntries, inFlight, leaving,
                 activeSessions, disposeVars>>

Expired == {s \in sessions \cap idle : inFlight[s] = 0}

CleansUp ==
  /\ disposal = "no"
  /\ Expired # {}
  /\ CloseEntries(Expired)
  /\ UNCHANGED <<made, fresh, identified, inFlight, idle, activeSessions, disposeVars>>

\* The rest of closeEntry(), when the server is closed.
EntryClosed(s) ==
  /\ s \in leaving
  /\ leaving' = leaving \ {s}
  /\ OnSessionClose
  /\ UNCHANGED <<entries, disposeVars>>

\* The owner has stopped to take requests; those in flight go on.
Dispose ==
  /\ disposal = "no"
  /\ disposal' = "closing"
  /\ awaited' = sessions
  /\ CloseEntries(sessions)
  /\ overtaken' = fresh \ (identified \cup closedEntries)
  /\ UNCHANGED <<made, fresh, identified, inFlight, idle, activeSessions>>

\* What the idle timer closes when dispose() is called is not waited for.
DisposeEnds ==
  /\ disposal = "closing"
  /\ leaving \cap awaited = {}
  /\ disposal' = "done"
  /\ UNCHANGED <<entries, leaving, activeSessions, awaited, overtaken>>

HttpInit ==
  /\ sessions = {} /\ made = {} /\ fresh = {} /\ identified = {} /\ closedEntries = {}
  /\ inFlight = [s \in Sessions |-> 0]
  /\ idle = {} /\ leaving = {}
  /\ activeSessions = 0
  /\ disposal = "no"
  /\ awaited = {}
  /\ overtaken = {}

HttpNext ==
  \/ \E s \in Sessions :
        \/ CreateSessionEntry(s)
        \/ SessionInitialized(s)
        \/ HandleRequest(s)
        \/ \E first \in BOOLEAN : RequestEnds(s, first)
        \/ FirstRequestFails(s)
        \/ OnClose(s)
        \/ TimePasses(s)
        \/ EntryClosed(s)
  \/ CleansUp
  \/ Dispose
  \/ DisposeEnds

HttpSpec == HttpInit /\ [][HttpNext]_httpVars

-----------------------------------------------------------------------------
HttpTypeOK ==
  /\ sessions \subseteq made /\ made \subseteq Sessions
  /\ fresh \subseteq made /\ identified \subseteq made /\ closedEntries \subseteq made
  /\ inFlight \in [Sessions -> 0 .. MaxInFlight]
  /\ idle \subseteq Sessions /\ leaving \subseteq closedEntries
  /\ activeSessions \in Nat
  /\ disposal \in {"no", "closing", "done"}
  /\ awaited \subseteq made /\ overtaken \subseteq made

\* The count by which a managed server decides to shut down is the number of
\* sessions that are open or being closed, however a session ended and whatever
\* was in flight: every onSessionOpen is answered by one onSessionClose.
CountMatchesSessions ==
  activeSessions = Cardinality(Open \cup leaving)

\* Requests find every open session, and no request brings back one that was
\* closed while it was in flight; after dispose() none is left but those that
\* had no id when it looked.
MapHoldsOpenSessions ==
  /\ sessions = Open
  /\ disposal = "done" => sessions \subseteq overtaken

\* Count and map agree with the sessions, in whatever order their ends and the
\* ends of their requests come.
SessionsAccounted == CountMatchesSessions /\ MapHoldsOpenSessions
=============================================================================
