----------------------------- MODULE ManagedStore -----------------------------
(***************************************************************************)
(* What the vector store promises those who call it, whatever it does      *)
(* inside: writes run one at a time in the order of their calls, a read    *)
(* starts when the writes called before it have settled, nothing is        *)
(* accepted once close() was called, and close() releases the store when   *)
(* everything accepted has settled or its time is up.  VectorStore         *)
(* implements this module; RuntimeLifecycle is built on it.                *)
(***************************************************************************)
EXTENDS FiniteSets

CONSTANTS
  Calls,   \* identities of calls; one is used again when its call has settled
  NoCall   \* no call

ASSUME NoCallAssumption == NoCall \notin Calls

VARIABLES
  life,     \* "new", "open", "closing" or "closed"
  pending,  \* calls accepted and not settled
  writing,  \* those of them that write
  started,  \* those of them whose turn has come
  before    \* for each call the pending writes that were called before it

storeVars == <<life, pending, writing, started, before>>

Accepting == life \in {"new", "open"}

\* The constructor.
StoreInit ==
  /\ life = "new"
  /\ pending = {}
  /\ writing = {}
  /\ started = {}
  /\ before = [c \in Calls |-> {}]

CallTypes == {"write", "read", "initialize"}

\* trackOp() admits a call; runInWriteLock() puts a write behind the others, a
\* read waits for them too.
Admit(c, type) ==
  /\ Accepting
  /\ c \in Calls \ pending
  /\ pending' = pending \cup {c}
  /\ writing' = IF type = "write" THEN writing \cup {c} ELSE writing
  /\ before' = [before EXCEPT ![c] = IF type = "initialize" THEN {} ELSE writing]
  /\ UNCHANGED <<life, started>>

Start(c) ==
  /\ c \in pending \ started
  /\ before[c] = {}
  /\ started' = started \cup {c}
  /\ UNCHANGED <<life, pending, writing, before>>

Forget(c) ==
  /\ pending' = pending \ {c}
  /\ writing' = writing \ {c}
  /\ started' = started \ {c}
  /\ before' = [d \in Calls |-> IF d = c THEN {} ELSE before[d] \ {c}]

\* A call settles, with or without success.
Settle(c) ==
  /\ c \in started
  /\ Forget(c)
  /\ UNCHANGED life

\* initialize() ends with the tables open.
Opens(c) ==
  /\ c \in started
  /\ life = "new"
  /\ life' = "open"
  /\ Forget(c)

StartClose ==
  /\ Accepting
  /\ life' = "closing"
  /\ UNCHANGED <<pending, writing, started, before>>

\* close() has waited for all calls.
CloseQuietly ==
  /\ life = "closing"
  /\ pending = {}
  /\ life' = "closed"
  /\ UNCHANGED <<pending, writing, started, before>>

\* CLOSE_TIMEOUT_MS have passed.
CloseByForce ==
  /\ life = "closing"
  /\ pending # {}
  /\ life' = "closed"
  /\ UNCHANGED <<pending, writing, started, before>>

\* The process dies; the next one makes a store of its own.
Restarts ==
  /\ life' = "new"
  /\ pending' = {}
  /\ writing' = {}
  /\ started' = {}
  /\ before' = [c \in Calls |-> {}]

StoreNext ==
  \/ \E c \in Calls : \/ \E type \in CallTypes : Admit(c, type)
                      \/ Start(c)
                      \/ Settle(c)
                      \/ Opens(c)
  \/ StartClose
  \/ CloseQuietly
  \/ CloseByForce
  \/ Restarts

StoreSpec == StoreInit /\ [][StoreNext]_storeVars

-----------------------------------------------------------------------------
StoreTypeOK ==
  /\ life \in {"new", "open", "closing", "closed"}
  /\ pending \subseteq Calls
  /\ writing \subseteq pending
  /\ started \subseteq pending
  /\ before \in [Calls -> SUBSET writing]

\* Of two pending writes one was called before the other, and a write that has
\* started waits for nobody.
WritesOrdered ==
  /\ \A c, d \in writing : c # d => c \in before[d] \/ d \in before[c]
  /\ \A c \in started : before[c] = {}

\* Two writes never run at once.
OneWriter == \A c, d \in writing \cap started : c = d
=============================================================================
