--------------------------- MODULE VectorStore_proofs ---------------------------
(***************************************************************************)
(* Theorems about LanceVectorStore, for every finite set of files and any  *)
(* number of calls.  First: the chain of promises in runInWriteLock() and  *)
(* trackOp() keeps what ManagedStore promises, and with it what            *)
(* RuntimeLifecycle is built on; the argument is that the calls a call     *)
(* waits for are the writes that were pending when it came, and that of    *)
(* these the one that runs is the first.  Then, because writes run alone:  *)
(* the counter of files is right whenever no write is under way, and one   *)
(* write that is cut short does not make the store unreadable.             *)
(***************************************************************************)
EXTENDS VectorStore, FiniteSetTheorems, TLAPS

USE NoCallAssumption

-----------------------------------------------------------------------------
\* The calls and what a step does to them.
Kinds == Writes \cup {"initialize", "read", "none"}
Steps == {"settled", "called", "running", "adding"}

CallOK(k) ==
  /\ k = [kind |-> k.kind, files |-> k.files, add |-> k.add, step |-> k.step,
          after |-> k.after, gain |-> k.gain]
  /\ k.kind \in Kinds
  /\ k.files \subseteq Files
  /\ k.add \in Nat
  /\ k.step \in Steps
  /\ k.after \in Calls \cup {NoCall}
  /\ k.gain.total \in Int

CallsOK ==
  /\ call = [c \in Calls |-> call[c]]
  /\ \A c \in Calls : CallOK(call[c])
  /\ tail \in Calls \cup {NoCall}

WritesPending == {c \in Pending : call[c].kind \in Writes}

\* The steps of a call, as far as promises go.
Begins(c) ==
  /\ life \in {"new", "open"}
  /\ call[c].step = "settled"
  /\ call'[c].step = "called"
  /\ call'[c].kind \in Kinds
  /\ call'[c].after = IF call'[c].kind = "initialize" THEN NoCall ELSE tail
  /\ tail' = IF call'[c].kind \in Writes THEN c ELSE tail
  /\ \A d \in Calls \ {c} : call'[d] = call[d]

TakesTurn(c) ==
  /\ call[c].step = "called"
  /\ call[c].after = NoCall
  /\ call'[c].step = "running"
  /\ call'[c].kind = call[c].kind
  /\ call'[c].after = call[c].after
  /\ tail' = tail
  /\ \A d \in Calls \ {c} : call'[d] = call[d]

GoesOn(c) ==
  /\ call[c].step \in {"running", "adding"}
  /\ call'[c].step = "adding"
  /\ call'[c].kind = call[c].kind
  /\ call'[c].after = call[c].after
  /\ tail' = tail
  /\ \A d \in Calls \ {c} : call'[d] = call[d]

Leaves(c) ==
  /\ call[c].step \in {"running", "adding"}
  /\ call'[c] = Settled
  /\ \A d \in Calls \ {c} :
       /\ call'[d].step = call[d].step
       /\ call'[d].kind = call[d].kind
       /\ call'[d].after = IF call[d].after = c THEN NoCall ELSE call[d].after
  /\ tail' = IF tail = c THEN NoCall ELSE tail

-----------------------------------------------------------------------------
LEMMA BeginEffects ==
  ASSUME CallsOK, NEW c \in Calls, NEW kind \in Kinds, NEW files \in SUBSET Files,
         NEW add \in Nat, Begin(c, kind, files, add)
  PROVE  /\ CallsOK' /\ Begins(c)
         /\ call'[c].kind = kind /\ call'[c].files = files /\ call'[c].add = add
<1>1. CallOK(call'[c]) /\ call'[c].kind = kind /\ call'[c].step = "called"
      /\ call'[c].files = files /\ call'[c].add = add
      /\ call'[c].after = IF kind = "initialize" THEN NoCall ELSE tail
  BY DEF Begin, CallsOK, CallOK, Steps, NoCounters
<1>2. \A d \in Calls \ {c} : call'[d] = call[d]
  BY DEF Begin, CallsOK
<1>3. call' = [d \in Calls |-> call'[d]]
  BY DEF Begin, CallsOK
<1>4. tail' \in Calls \cup {NoCall}
  BY DEF Begin, CallsOK
<1>5. call[c].step = "settled"
  BY DEF Begin, Pending
<1>6. CallsOK'
  BY <1>1, <1>2, <1>3, <1>4 DEF CallsOK
<1>7. Begins(c)
  BY <1>1, <1>2, <1>5 DEF Begin, Begins
<1> QED BY <1>1, <1>6, <1>7

LEMMA TurnEffects ==
  ASSUME CallsOK, NEW c \in Calls, Turn(c)
  PROVE  /\ CallsOK' /\ TakesTurn(c)
         /\ call'[c].files = call[c].files /\ call'[c].add = call[c].add
<1>1. CallOK(call[c])
  BY DEF CallsOK
<1>2. call'[c] = [call[c] EXCEPT !.step = "running"] /\ tail' = tail
  BY DEF CallsOK, Turn, Goes
<1>3. CallOK(call'[c]) /\ call'[c].kind = call[c].kind /\ call'[c].step = "running"
      /\ call'[c].files = call[c].files /\ call'[c].add = call[c].add
      /\ call'[c].after = call[c].after
  BY <1>1, <1>2 DEF CallOK, Steps
<1>4. \A d \in Calls \ {c} : call'[d] = call[d]
  BY DEF CallsOK, Turn, Goes
<1>5. call' = [d \in Calls |-> call'[d]]
  BY DEF CallsOK, Turn, Goes
<1>6. CallsOK'
  BY <1>2, <1>3, <1>4, <1>5 DEF CallsOK
<1>7. TakesTurn(c)
  BY <1>2, <1>3, <1>4 DEF TakesTurn, Turn
<1> QED BY <1>3, <1>6, <1>7

LEMMA ChangedEffects ==
  ASSUME CallsOK, NEW c \in Calls, NEW stale, NEW total \in Int,
         call[c].step = "running", Changed(c, "adding", stale, total)
  PROVE  /\ CallsOK' /\ GoesOn(c)
         /\ call'[c].files = call[c].files /\ call'[c].add = call[c].add
         /\ call'[c].gain.total = total
<1>1. CallOK(call[c])
  BY DEF CallsOK
<1>2. call'[c] = [call[c] EXCEPT !.step = "adding", !.gain = [stale |-> stale, total |-> total]]
      /\ tail' = tail
  BY DEF CallsOK, Changed
<1>3. CallOK(call'[c]) /\ call'[c].kind = call[c].kind /\ call'[c].step = "adding"
      /\ call'[c].files = call[c].files /\ call'[c].add = call[c].add
      /\ call'[c].after = call[c].after /\ call'[c].gain = [stale |-> stale, total |-> total]
  <2> DEFINE gain == [stale |-> stale, total |-> total]
  <2>1. gain.total \in Int
    OBVIOUS
  <2>2. call'[c] = [kind |-> call[c].kind, files |-> call[c].files, add |-> call[c].add,
                    step |-> "adding", after |-> call[c].after, gain |-> gain]
    BY <1>1, <1>2 DEF CallOK
  <2> HIDE DEF gain
  <2>3. CallOK(call'[c]) /\ call'[c].kind = call[c].kind /\ call'[c].step = "adding"
        /\ call'[c].files = call[c].files /\ call'[c].add = call[c].add
        /\ call'[c].after = call[c].after /\ call'[c].gain = gain
    BY <1>1, <2>1, <2>2 DEF CallOK, Steps
  <2> QED BY <2>3 DEF gain
<1>4. \A d \in Calls \ {c} : call'[d] = call[d]
  BY DEF CallsOK, Changed
<1>5. call' = [d \in Calls |-> call'[d]]
  BY DEF CallsOK, Changed
<1>6. CallsOK'
  BY <1>2, <1>3, <1>4, <1>5 DEF CallsOK
<1>7. GoesOn(c)
  BY <1>2, <1>3, <1>4 DEF GoesOn
<1>8. call'[c].gain.total = total
  BY <1>3
<1> QED BY <1>3, <1>6, <1>7, <1>8

LEMMA SettlingEffects ==
  ASSUME CallsOK, NEW c \in Calls, call[c].step \in {"running", "adding"}, Settling(c)
  PROVE  /\ CallsOK' /\ Leaves(c)
         /\ \A d \in Calls \ {c} : /\ call'[d].files = call[d].files
                                   /\ call'[d].add = call[d].add
                                   /\ call'[d].gain = call[d].gain
<1>1. call'[c] = Settled /\ CallOK(Settled)
  BY DEF Settling, Settled, CallOK, Kinds, Steps, NoCounters
<1>2. ASSUME NEW d \in Calls \ {c}
      PROVE  /\ CallOK(call'[d]) /\ call'[d].step = call[d].step
             /\ call'[d].kind = call[d].kind
             /\ call'[d].after = IF call[d].after = c THEN NoCall ELSE call[d].after
             /\ call'[d].files = call[d].files /\ call'[d].add = call[d].add
             /\ call'[d].gain = call[d].gain
  <2>1. CallOK(call[d])
    BY DEF CallsOK
  <2>2. call'[d] = IF call[d].after = c THEN [call[d] EXCEPT !.after = NoCall] ELSE call[d]
    BY DEF Settling
  <2>3. CASE call[d].after = c
    BY <2>1, <2>2, <2>3 DEF CallOK
  <2>4. CASE call[d].after # c
    BY <2>1, <2>2, <2>4
  <2> QED BY <2>3, <2>4
<1>3. call' = [d \in Calls |-> call'[d]]
  BY DEF Settling
<1>4. tail' \in Calls \cup {NoCall} /\ tail' = IF tail = c THEN NoCall ELSE tail
  BY DEF Settling, CallsOK
<1>5. CallsOK'
  BY <1>1, <1>2, <1>3, <1>4 DEF CallsOK
<1>6. Leaves(c)
  BY <1>1, <1>2, <1>4 DEF Leaves
<1> QED BY <1>2, <1>5, <1>6

\* A batch is added; less is left to add.
LEMMA AddsEffects ==
  ASSUME CallsOK, NEW c \in Calls, Adds(c)
  PROVE  \E n \in Nat \ {0} :
           /\ CallsOK' /\ GoesOn(c)
           /\ call'[c].files = call[c].files /\ call'[c].add = call[c].add - n
           /\ call'[c].gain = call[c].gain
           /\ rows' = [f \in Files |-> IF f \in call[c].files THEN rows[f] + n ELSE rows[f]]
<1> DEFINE n == IF call[c].add < BatchSize THEN call[c].add ELSE BatchSize
<1>1. CallOK(call[c]) /\ call[c].add > 0
  BY DEF CallsOK, Adds
<1>2. n \in Nat \ {0} /\ call[c].add - n \in Nat
  BY <1>1, BatchAssumption DEF CallOK
<1>3. /\ rows' = [f \in Files |-> IF f \in call[c].files THEN rows[f] + n ELSE rows[f]]
      /\ call' = [call EXCEPT ![c].add = @ - n]
      /\ tail' = tail /\ call[c].step = "adding"
  BY DEF Adds
<1> HIDE DEF n
<1>4. call'[c] = [call[c] EXCEPT !.add = call[c].add - n]
  BY <1>3 DEF CallsOK
<1>5. CallOK(call'[c]) /\ call'[c].kind = call[c].kind /\ call'[c].step = "adding"
      /\ call'[c].files = call[c].files /\ call'[c].add = call[c].add - n
      /\ call'[c].after = call[c].after /\ call'[c].gain = call[c].gain
  BY <1>1, <1>2, <1>3, <1>4 DEF CallOK, Steps
<1>6. \A d \in Calls \ {c} : call'[d] = call[d]
  BY <1>3 DEF CallsOK
<1>7. call' = [d \in Calls |-> call'[d]]
  BY <1>3 DEF CallsOK
<1>8. CallsOK'
  BY <1>3, <1>5, <1>6, <1>7 DEF CallsOK
<1>9. GoesOn(c)
  BY <1>3, <1>5, <1>6 DEF GoesOn
<1> QED BY <1>2, <1>3, <1>5, <1>8, <1>9

LEMMA FilesAreCounted ==
  ASSUME NEW S \in SUBSET Files
  PROVE  IsFiniteSet(S) /\ Cardinality(S) \in Nat
  BY FilesAssumption, FS_Subset, FS_CardinalityType

\* The rows of a file are taken out; what that gains is an integer.
LEMMA ReplacesEffects ==
  ASSUME CallsOK, NEW c \in Calls, Replaces(c)
  PROVE  /\ CallsOK' /\ GoesOn(c)
         /\ call'[c].files = call[c].files /\ call'[c].add = call[c].add
         /\ call'[c].gain.total = Cardinality(call[c].files \ (call[c].files \cap Indexed))
<1>1. CallOK(call[c])
  BY DEF CallsOK
<1> DEFINE held == call[c].files \cap Indexed
<1>2. Cardinality(call[c].files \ held) \in Int
  BY <1>1, FilesAreCounted DEF CallOK
<1>3. PICK stale : Changed(c, "adding", stale, Cardinality(call[c].files \ held))
  BY DEF Replaces
<1>4. call[c].step = "running"
  BY DEF Replaces, Running
<1> QED BY <1>2, <1>3, <1>4, ChangedEffects

LEMMA RemovesEffects ==
  ASSUME CallsOK, NEW c \in Calls, Removes(c)
  PROVE  /\ CallsOK' /\ GoesOn(c)
         /\ call'[c].files = call[c].files /\ call'[c].add = call[c].add
         /\ call'[c].gain.total = -Cardinality(call[c].files \cap Indexed)
<1>1. CallOK(call[c])
  BY DEF CallsOK
<1> DEFINE held == call[c].files \cap Indexed
<1>2. -Cardinality(held) \in Int
  BY <1>1, FilesAreCounted DEF CallOK
<1>3. PICK stale : Changed(c, "adding", stale, -Cardinality(held))
  BY DEF Removes
<1>4. call[c].step = "running"
  BY DEF Removes, Running
<1> QED BY <1>2, <1>3, <1>4, ChangedEffects

LEMMA CompactsEffects ==
  ASSUME CallsOK, NEW c \in Calls, Compacts(c)
  PROVE  /\ CallsOK' /\ GoesOn(c)
         /\ call'[c].files = call[c].files /\ call'[c].add = call[c].add
         /\ call'[c].gain.total = 0
<1>1. PICK stale : Changed(c, "adding", stale, 0)
  BY DEF Compacts
<1>2. call[c].step = "running"
  BY DEF Compacts, Running
<1> QED BY <1>1, <1>2, ChangedEffects

\* The process is gone, and its calls with it.
AllGone == (\A c \in Calls : call'[c] = Settled) /\ tail' = NoCall

LEMMA BodySteps ==
  ASSUME CallsOK, NEW c \in Calls, BodyStep(c)
  PROVE  /\ CallsOK' /\ (GoesOn(c) \/ Leaves(c))
         /\ life' = life \/ (Leaves(c) /\ life = "new" /\ life' = "open")
<1>1. CASE InitializeFails(c) \/ Reads(c) \/ Returns(c)
  <2>1. Settling(c) /\ call[c].step = "running" /\ life' = life
    BY <1>1 DEF InitializeFails, Reads, Returns, Running, memory
  <2> QED BY <2>1, SettlingEffects
<1>2. CASE Commits(c)
  <2>1. Settling(c) /\ call[c].step = "running"
        /\ (life' = life \/ (life = "new" /\ life' = "open"))
    BY <1>2 DEF Commits, Running, memory
  <2> QED BY <2>1, SettlingEffects
<1>3. CASE Records(c)
  <2>1. Settling(c) /\ call[c].step = "adding" /\ life' = life
    BY <1>3 DEF Records, Counts
  <2> QED BY <2>1, SettlingEffects
<1>4. CASE FailsToRecord(c)
  <2>1. Settling(c) /\ call[c].step = "adding" /\ life' = life
    BY <1>4 DEF FailsToRecord, Counts
  <2> QED BY <2>1, SettlingEffects
<1>5. CASE Fails(c) \/ LosesTables(c)
  <2>1. Settling(c) /\ call[c].step \in {"running", "adding"} /\ life' = life
    BY <1>5 DEF Fails, LosesTables, memory
  <2> QED BY <2>1, SettlingEffects
<1>6. CASE Replaces(c)
  <2>1. life' = life
    BY <1>6 DEF Replaces, memory
  <2> QED BY <1>6, <2>1, ReplacesEffects
<1>7. CASE Adds(c)
  <2>1. life' = life
    BY <1>7 DEF Adds
  <2> QED BY <1>7, <2>1, AddsEffects
<1>8. CASE Removes(c)
  <2>1. life' = life
    BY <1>8 DEF Removes, memory
  <2> QED BY <1>8, <2>1, RemovesEffects
<1>9. CASE Compacts(c)
  <2>1. life' = life
    BY <1>9 DEF Compacts, memory
  <2> QED BY <1>9, <2>1, CompactsEffects
<1> QED BY <1>1, <1>2, <1>3, <1>4, <1>5, <1>6, <1>7, <1>8, <1>9 DEF BodyStep

LEMMA CallSteps ==
  ASSUME CallsOK, NEW c \in Calls, CallMade(c) \/ IdleCompaction(c)
  PROVE  CallsOK' /\ Begins(c) /\ life' = life
<1>1. CASE Initialize(c)
  <2>1. Begin(c, "initialize", {}, 0) /\ life' = life
    BY <1>1 DEF Initialize, memory
  <2> QED BY <2>1, BeginEffects DEF Kinds
<1>2. ASSUME NEW f \in Files, NEW n \in 1 .. MaxRows, Upsert(c, f, n)
      PROVE  CallsOK' /\ Begins(c) /\ life' = life
  <2>1. Begin(c, "upsert", {f}, n) /\ life' = life
    BY <1>2 DEF Upsert, memory
  <2>2. "upsert" \in Kinds /\ {f} \in SUBSET Files /\ n \in Nat
    BY StoreBoundsAssumption DEF Kinds, Writes
  <2> QED BY <2>1, <2>2, BeginEffects
<1>3. ASSUME NEW files \in SUBSET Files \ {{}}, Delete(c, files)
      PROVE  CallsOK' /\ Begins(c) /\ life' = life
  <2>1. Begin(c, "delete", files, 0) /\ life' = life
    BY <1>3 DEF Delete, memory
  <2> QED BY <2>1, BeginEffects DEF Kinds, Writes
<1>4. ASSUME NEW kind \in {"compact", "optimize", "read"}, Call(c, kind)
      PROVE  CallsOK' /\ Begins(c) /\ life' = life
  <2>1. Begin(c, kind, {}, 0) /\ life' = life
    BY <1>4 DEF Call, memory
  <2> QED BY <2>1, BeginEffects DEF Kinds, Writes
<1>5. CASE IdleCompaction(c)
  <2>1. Begin(c, "compact", {}, 0) /\ life' = life
    BY <1>5 DEF IdleCompaction, memory
  <2> QED BY <2>1, BeginEffects DEF Kinds, Writes
<1> QED BY <1>1, <1>2, <1>3, <1>4, <1>5 DEF CallMade

LEMMA PromiseSteps ==
  ASSUME CallsOK, [Next]_vars
  PROVE  /\ CallsOK'
         /\ \/ \E c \in Calls : Begins(c) /\ life' = life
            \/ \E c \in Calls : TakesTurn(c) /\ life' = life
            \/ \E c \in Calls : GoesOn(c) /\ life' = life
            \/ \E c \in Calls : /\ Leaves(c)
                                /\ life' = life \/ (life = "new" /\ life' = "open")
            \/ UNCHANGED <<promises, life>>
            \/ Close /\ UNCHANGED promises
            \/ life = "closing" /\ life' = "closed" /\ UNCHANGED promises
            \/ AllGone /\ life' = "new"
<1>1. ASSUME NEW c \in Calls, CallMade(c) \/ IdleCompaction(c)
      PROVE  CallsOK' /\ Begins(c) /\ life' = life
  BY <1>1, CallSteps
<1>2. ASSUME NEW c \in Calls, Turn(c)
      PROVE  CallsOK' /\ TakesTurn(c) /\ life' = life
  BY <1>2, TurnEffects DEF Turn, memory
<1>3. ASSUME NEW c \in Calls, BodyStep(c)
      PROVE  /\ CallsOK' /\ (GoesOn(c) \/ Leaves(c))
             /\ life' = life \/ (Leaves(c) /\ life = "new" /\ life' = "open")
  BY <1>3, BodySteps
<1>4. CASE SchedulesCompaction \/ TimerFires \/ GivesUpCompaction \/ UNCHANGED vars
  BY <1>4 DEF SchedulesCompaction, TimerFires, GivesUpCompaction, vars, promises, memory, CallsOK
<1>5. CASE Close
  BY <1>5 DEF Close, promises, CallsOK
<1>6. ASSUME NEW expired \in BOOLEAN, Releases(expired)
      PROVE  CallsOK' /\ life = "closing" /\ life' = "closed" /\ UNCHANGED promises
  BY <1>6 DEF Releases, promises, CallsOK
<1>7. CASE Restart
  <2>1. AllGone /\ life' = "new" /\ call' = [c \in Calls |-> call'[c]]
    BY <1>7 DEF Restart, AllGone
  <2>2. CallOK(Settled)
    BY DEF Settled, CallOK, Kinds, Steps, NoCounters
  <2>3. CallsOK'
    BY <2>1, <2>2 DEF AllGone, CallsOK
  <2> QED BY <2>1, <2>3
<1> QED BY <1>1, <1>2, <1>3, <1>4, <1>5, <1>6, <1>7 DEF Next

-----------------------------------------------------------------------------
\* Before(c) is the least set that is chained and holds the call c waits for.
LEMMA BeforeIsLeast ==
  ASSUME NEW c, NEW S \in SUBSET Calls, Chained(S), call[c].after \in S \cup {NoCall}
  PROVE  Before(c) \subseteq S
  BY DEF Before

LEMMA BeforeIsChained ==
  ASSUME CallsOK, NEW c \in Calls
  PROVE  Chained(Before(c)) /\ call[c].after \in Before(c) \cup {NoCall}
<1>1. call[c].after \in Before(c) \cup {NoCall}
  BY DEF Before, CallsOK, CallOK
<1>2. ASSUME NEW d \in Before(c), call[d].after # NoCall
      PROVE  call[d].after \in Before(c)
  <2>1. d \in Calls /\ call[d].after \in Calls
    BY <1>2 DEF Before, CallsOK, CallOK
  <2>2. ASSUME NEW S \in SUBSET Calls, Chained(S), call[c].after \in S \cup {NoCall}
        PROVE  call[d].after \in S
    <3>1. d \in S
      BY <2>2 DEF Before
    <3> QED BY <3>1, <2>2, <1>2 DEF Chained
  <2> QED BY <2>1, <2>2 DEF Before
<1>3. Chained(Before(c))
  BY <1>2 DEF Chained
<1> QED BY <1>1, <1>3

LEMMA NothingBefore ==
  ASSUME NEW c, call[c].after = NoCall
  PROVE  Before(c) = {}
<1>1. Chained({}) /\ {} \in SUBSET Calls
  BY DEF Chained
<1> QED BY <1>1, BeforeIsLeast

\* A call waits for the call before it and for those that call waits for.
LEMMA BeforeOneMore ==
  ASSUME CallsOK, NEW c \in Calls, NEW d \in Calls, call[c].after = d
  PROVE  Before(c) = Before(d) \cup {d}
<1> d # NoCall
  OBVIOUS
<1>1. Before(c) \subseteq Before(d) \cup {d}
  <2>1. Chained(Before(d)) /\ call[d].after \in Before(d) \cup {NoCall}
    BY BeforeIsChained
  <2>2. Chained(Before(d) \cup {d})
    BY <2>1 DEF Chained
  <2>3. Before(d) \cup {d} \in SUBSET Calls
    BY DEF Before
  <2> QED BY <2>2, <2>3, BeforeIsLeast
<1>2. d \in Before(c) /\ Chained(Before(c))
  BY BeforeIsChained
<1>3. Before(c) \in SUBSET Calls /\ call[d].after \in Before(c) \cup {NoCall}
  BY <1>2 DEF Before, Chained
<1>4. Before(d) \subseteq Before(c)
  BY <1>2, <1>3, BeforeIsLeast
<1> QED BY <1>1, <1>2, <1>4

\* Nothing changes where no promise does.
LEMMA BeforeStays ==
  ASSUME \A c \in Calls : call'[c].after = call[c].after
  PROVE  \A c \in Calls : Before(c)' = Before(c)
<1>1. \A S \in SUBSET Calls : Chained(S)' <=> Chained(S)
  BY DEF Chained
<1> QED BY <1>1 DEF Before

\* A call that settles is no longer waited for.
LEMMA BeforeSettles ==
  ASSUME CallsOK, NEW c \in Calls, Leaves(c), call[c].after = NoCall
  PROVE  \A d \in Calls : Before(d)' = IF d = c THEN {} ELSE Before(d) \ {c}
<1>1. call'[c].after = NoCall
  BY DEF Leaves, Settled
<1>2. \A d \in Calls \ {c} : call'[d].after = IF call[d].after = c THEN NoCall ELSE call[d].after
  BY DEF Leaves
<1>3. Before(c)' = {}
  <2>1. Chained({})' /\ {} \in SUBSET Calls
    BY DEF Chained
  <2> QED BY <1>1, <2>1 DEF Before
<1>4. ASSUME NEW d \in Calls \ {c}
      PROVE  Before(d)' = Before(d) \ {c}
  <2>1. Before(d)' \subseteq Before(d) \ {c}
    <3> DEFINE S == Before(d) \ {c}
    <3>1. Chained(Before(d)) /\ call[d].after \in Before(d) \cup {NoCall}
      BY BeforeIsChained
    <3>2. \A e \in S : e \in Calls \ {c} /\ call[e].after \in Before(d) \cup {NoCall}
      BY <3>1 DEF Chained, Before
    <3>3. \A e \in S : call'[e].after \in S \cup {NoCall}
      BY <3>2, <1>2
    <3>4. call'[d].after \in S \cup {NoCall}
      BY <3>1, <1>2
    <3>5. S \in SUBSET Calls
      BY DEF Before
    <3> HIDE DEF S
    <3>6. Before(d)' \subseteq S
      BY <3>3, <3>4, <3>5 DEF Before, Chained
    <3> QED BY <3>6 DEF S
  <2>2. ASSUME NEW e \in Before(d), e # c
        PROVE  e \in Before(d)'
    <3>1. ASSUME NEW S \in SUBSET Calls, \A x \in S : call'[x].after \in S \cup {NoCall},
                 call'[d].after \in S \cup {NoCall}
          PROVE  e \in S
      <4>1. \A x \in S \ {c} : call[x].after \in S \cup {c, NoCall}
        BY <3>1, <1>2
      <4>2. Chained(S \cup {c})
        BY <4>1 DEF Chained
      <4>3. call[d].after \in S \cup {c} \cup {NoCall}
        BY <3>1, <1>2
      <4>4. Before(d) \subseteq S \cup {c}
        BY <4>2, <4>3, BeforeIsLeast
      <4> QED BY <4>4, <2>2
    <3>2. e \in Calls
      BY DEF Before
    <3> QED BY <3>1, <3>2 DEF Before, Chained
  <2> QED BY <2>1, <2>2
<1> QED BY <1>3, <1>4

\* What other calls wait for does not change when a call comes that nobody
\* waits for.
LEMMA BeforeBegins ==
  ASSUME CallsOK, NEW c \in Calls, Begins(c), NEW d \in Calls \ {c},
         c \notin Before(d), \A x \in Calls : call[x].after # c
  PROVE  Before(d)' = Before(d)
<1>1. \A x \in Calls \ {c} : call'[x].after = call[x].after
  BY DEF Begins
<1>2. Before(d)' \subseteq Before(d)
  <2>1. Chained(Before(d)) /\ call[d].after \in Before(d) \cup {NoCall}
    BY BeforeIsChained
  <2> DEFINE S == Before(d)
  <2>2. S \in SUBSET Calls /\ c \notin S
    BY DEF Before
  <2>3. \A x \in S : call'[x].after \in S \cup {NoCall}
    BY <1>1, <2>1, <2>2 DEF Chained
  <2>4. call'[d].after \in S \cup {NoCall}
    BY <1>1, <2>1
  <2> HIDE DEF S
  <2>5. Before(d)' \subseteq S
    BY <2>2, <2>3, <2>4 DEF Before, Chained
  <2> QED BY <2>5 DEF S
<1>3. ASSUME NEW e \in Before(d)
      PROVE  e \in Before(d)'
  <2>1. ASSUME NEW S \in SUBSET Calls, \A x \in S : call'[x].after \in S \cup {NoCall},
               call'[d].after \in S \cup {NoCall}
        PROVE  e \in S
    <3>1. Chained(S \ {c})
      BY <1>1, <2>1 DEF Chained
    <3>2. call[d].after \in (S \ {c}) \cup {NoCall}
      BY <1>1, <2>1
    <3>3. Before(d) \subseteq S \ {c}
      BY <3>1, <3>2, BeforeIsLeast
    <3> QED BY <3>3
  <2>2. e \in Calls
    BY DEF Before
  <2> QED BY <2>1, <2>2 DEF Before, Chained
<1> QED BY <1>2, <1>3

-----------------------------------------------------------------------------
\* The last write is behind all others; every call waits for writes only; of two
\* writes one waits for the other; a call whose turn has come waits for nobody.
PromiseInv ==
  /\ CallsOK
  /\ tail = NoCall => WritesPending = {}
  /\ tail # NoCall => WritesPending = Before(tail) \cup {tail}
  /\ \A c \in Calls : Before(c) \subseteq WritesPending \ {c}
  /\ \A c, d \in WritesPending : c = d \/ c \in Before(d) \/ d \in Before(c)
  /\ \A c \in Calls : call[c].step # "called" => call[c].after = NoCall

LEMMA NobodyWaitsForSettled ==
  ASSUME PromiseInv, NEW c \in Calls, call[c].step = "settled"
  PROVE  /\ \A d \in Calls : c \notin Before(d) /\ call[d].after # c
         /\ c \notin WritesPending /\ tail # c
<1>1. c \notin WritesPending
  BY DEF WritesPending, Pending
<1>2. \A d \in Calls : c \notin Before(d)
  BY <1>1 DEF PromiseInv
<1>3. \A d \in Calls : call[d].after # c
  BY <1>2, BeforeIsChained DEF PromiseInv
<1>4. tail # c
  BY <1>1 DEF PromiseInv
<1> QED BY <1>1, <1>2, <1>3, <1>4

LEMMA BeforeOneMoreAll ==
  CallsOK => \A c, d \in Calls : call[c].after = d => Before(c) = Before(d) \cup {d}
  BY BeforeOneMore

LEMMA BeforeOneMoreNext ==
  CallsOK' => \A c, d \in Calls : call'[c].after = d => Before(c)' = Before(d)' \cup {d}
<1>1. (CallsOK => \A c, d \in Calls : call[c].after = d => Before(c) = Before(d) \cup {d})'
  BY BeforeOneMoreAll, PTL
<1> QED BY <1>1

\* What a call that comes waits for, and what it changes for others.
LEMMA BeginsChain ==
  ASSUME PromiseInv, CallsOK', NEW c \in Calls, Begins(c)
  PROVE  /\ \A d \in Calls : Before(d)' = IF d # c THEN Before(d)
                                          ELSE IF call'[c].kind = "initialize" THEN {}
                                          ELSE WritesPending
         /\ Pending' = Pending \cup {c}
         /\ WritesPending' = IF call'[c].kind \in Writes THEN WritesPending \cup {c}
                             ELSE WritesPending
<1>1. call[c].step = "settled" /\ CallsOK
  BY DEF Begins, PromiseInv
<1>2. \A d \in Calls \ {c} : Before(d)' = Before(d)
  BY <1>1, NobodyWaitsForSettled, BeforeBegins
<1>3. CASE call'[c].after = NoCall
  <2>1. Before(c)' = {}
    <3>1. Chained({})' /\ {} \in SUBSET Calls
      BY DEF Chained
    <3> QED BY <1>3, <3>1 DEF Before
  <2>2. call'[c].kind = "initialize" \/ (tail = NoCall /\ WritesPending = {})
    BY <1>3 DEF Begins, PromiseInv
  <2> QED BY <1>2, <2>1, <2>2, <1>1 DEF Begins, WritesPending, Pending
<1>4. CASE call'[c].after # NoCall
  <2>1. call'[c].after = tail /\ tail \in Calls \ {c} /\ call'[c].kind # "initialize"
    BY <1>4, <1>1, NobodyWaitsForSettled DEF Begins, CallsOK
  <2>2. PICK d \in Calls \ {c} : d = tail
    BY <2>1
  <2>3. Before(c)' = Before(d)' \cup {d}
    BY BeforeOneMoreNext, <2>1, <2>2
  <2>4. Before(d)' = Before(d)
    BY <1>2
  <2>5. Before(c)' = WritesPending
    <3>1. WritesPending = Before(tail) \cup {tail}
      BY <2>1 DEF PromiseInv
    <3> QED BY <2>2, <2>3, <2>4, <3>1
  <2> QED BY <1>2, <2>1, <2>5, <1>1 DEF Begins, WritesPending, Pending
<1> QED BY <1>3, <1>4

Started == {c \in Pending : call[c].step # "called"}

LEMMA BeginsKeeps ==
  ASSUME PromiseInv, CallsOK', NEW c \in Calls, Begins(c)
  PROVE  PromiseInv' /\ Started' = Started
<1>1. /\ \A d \in Calls : Before(d)' = IF d # c THEN Before(d)
                                       ELSE IF call'[c].kind = "initialize" THEN {}
                                       ELSE WritesPending
      /\ WritesPending' = IF call'[c].kind \in Writes THEN WritesPending \cup {c}
                          ELSE WritesPending
      /\ Pending' = Pending \cup {c}
  BY BeginsChain
<1>2. c \notin WritesPending /\ WritesPending \subseteq Calls /\ tail # c /\ c \notin Pending
  BY NobodyWaitsForSettled DEF Begins, WritesPending, Pending
<1>3. CASE call'[c].kind \in Writes
  <2>1. call'[c].kind # "initialize" /\ tail' = c /\ c # NoCall
    BY <1>3 DEF Writes, Begins
  <2>2. WritesPending' = Before(c)' \cup {c}
    BY <1>1, <1>3, <2>1
  <2>3. WritesPending' = (Before(tail) \cup {tail})'
    <3>1. \A d \in Calls : d = tail' => WritesPending' = Before(d)' \cup {d}
      BY <2>1, <2>2
    <3> QED BY <2>1, <2>2 DEF Before
  <2>4. \A d \in Calls : Before(d)' \subseteq WritesPending' \ {d}
    BY <1>1, <1>2, <1>3, <2>1 DEF PromiseInv
  <2>5. \A d, e \in WritesPending' : d = e \/ d \in Before(e)' \/ e \in Before(d)'
    BY <1>1, <1>2, <1>3, <2>1 DEF PromiseInv
  <2>6. \A d \in Calls : call'[d].step # "called" => call'[d].after = NoCall
    BY DEF PromiseInv, Begins
  <2>7. PromiseInv'
    BY <2>1, <2>3, <2>4, <2>5, <2>6 DEF PromiseInv
  <2> QED BY <1>1, <1>2, <2>7 DEF Started, Begins, Pending
<1>4. CASE call'[c].kind \notin Writes
  <2>1. tail' = tail /\ WritesPending' = WritesPending
    BY <1>1, <1>4 DEF Begins
  <2>2. tail # NoCall => WritesPending' = (Before(tail) \cup {tail})'
    <3> SUFFICES ASSUME tail # NoCall PROVE WritesPending' = (Before(tail) \cup {tail})'
      OBVIOUS
    <3>1. tail \in Calls \ {c}
      BY <1>2 DEF PromiseInv, CallsOK
    <3>2. PICK d \in Calls \ {c} : d = tail /\ d = tail'
      BY <2>1, <3>1
    <3>3. Before(d)' = Before(d) /\ WritesPending = Before(d) \cup {d}
      BY <1>1, <3>2 DEF PromiseInv
    <3> QED BY <2>1, <3>2, <3>3 DEF Before
  <2>3. \A d \in Calls : Before(d)' \subseteq WritesPending' \ {d}
    BY <1>1, <1>2, <2>1 DEF PromiseInv
  <2>4. \A d, e \in WritesPending' : d = e \/ d \in Before(e)' \/ e \in Before(d)'
    BY <1>1, <1>2, <2>1 DEF PromiseInv
  <2>5. \A d \in Calls : call'[d].step # "called" => call'[d].after = NoCall
    BY DEF PromiseInv, Begins
  <2>6. PromiseInv'
    BY <2>1, <2>2, <2>3, <2>4, <2>5 DEF PromiseInv
  <2> QED BY <1>1, <1>2, <2>6 DEF Started, Begins, Pending
<1> QED BY <1>3, <1>4

\* A turn that is taken, and a write that goes on, change nobody's promise.
LEMMA MovesKeep ==
  ASSUME PromiseInv, CallsOK', NEW c \in Calls, TakesTurn(c) \/ GoesOn(c)
  PROVE  /\ PromiseInv' /\ Pending' = Pending /\ WritesPending' = WritesPending
         /\ Started' = Started \cup {c} /\ c \in Pending
         /\ \A d \in Calls : Before(d)' = Before(d)
<1>1. \A d \in Calls : call'[d].after = call[d].after /\ call'[d].kind = call[d].kind
  BY DEF TakesTurn, GoesOn
<1>2. \A d \in Calls : Before(d)' = Before(d)
  BY <1>1, BeforeStays
<1>3. Pending' = Pending /\ WritesPending' = WritesPending /\ tail' = tail /\ c \in Pending
      /\ Started' = Started \cup {c}
  BY <1>1 DEF TakesTurn, GoesOn, Pending, WritesPending, Started
<1>4. \A d \in Calls : call'[d].step # "called" => call'[d].after = NoCall
  BY <1>1 DEF PromiseInv, TakesTurn, GoesOn
<1>5. tail # NoCall => WritesPending' = (Before(tail) \cup {tail})'
  <2> SUFFICES ASSUME tail # NoCall PROVE WritesPending' = (Before(tail) \cup {tail})'
    OBVIOUS
  <2>1. PICK d \in Calls : d = tail /\ d = tail'
    BY <1>3 DEF PromiseInv, CallsOK
  <2>2. Before(d)' = Before(d) /\ WritesPending = Before(d) \cup {d}
    BY <1>2, <2>1 DEF PromiseInv
  <2> QED BY <1>3, <2>1, <2>2 DEF Before
<1>6. PromiseInv'
  BY <1>2, <1>3, <1>4, <1>5 DEF PromiseInv, WritesPending, Pending
<1> QED BY <1>2, <1>3, <1>6

\* Who leaves was first: nobody it waited for, and nobody waits for it any more.
LEMMA LeavesKeeps ==
  ASSUME PromiseInv, CallsOK', NEW c \in Calls, Leaves(c)
  PROVE  /\ PromiseInv' /\ c \in Started
         /\ Pending' = Pending \ {c} /\ WritesPending' = WritesPending \ {c}
         /\ Started' = Started \ {c}
         /\ \A d \in Calls : Before(d)' = IF d = c THEN {} ELSE Before(d) \ {c}
<1>1. call[c].after = NoCall /\ CallsOK
  BY DEF PromiseInv, Leaves
<1>2. \A d \in Calls : Before(d)' = IF d = c THEN {} ELSE Before(d) \ {c}
  BY <1>1, BeforeSettles
<1>3. c \in Started /\ Pending' = Pending \ {c} /\ WritesPending' = WritesPending \ {c}
      /\ Started' = Started \ {c}
  BY DEF Leaves, Pending, WritesPending, Started, Settled
<1>4. \A d \in Calls : call'[d].step # "called" => call'[d].after = NoCall
  BY DEF PromiseInv, Leaves, Settled
<1>5. tail' = NoCall => WritesPending' = {}
  <2>1. CASE tail = c
    <3>1. Before(c) = {}
      BY <1>1, NothingBefore
    <3>2. WritesPending = {c}
      BY <2>1, <3>1 DEF PromiseInv
    <3> QED BY <1>3, <3>2
  <2>2. CASE tail # c
    BY <2>2, <1>3 DEF Leaves, PromiseInv
  <2> QED BY <2>1, <2>2
<1>6. tail' # NoCall => WritesPending' = (Before(tail) \cup {tail})'
  <2> SUFFICES ASSUME tail' # NoCall PROVE WritesPending' = (Before(tail) \cup {tail})'
    OBVIOUS
  <2>1. tail' = tail /\ tail # c
    BY DEF Leaves
  <2>2. PICK d \in Calls : d = tail /\ d = tail'
    BY <2>1, <1>1 DEF CallsOK
  <2>3. Before(d)' = Before(d) \ {c} /\ WritesPending = Before(d) \cup {d} /\ d # c
    BY <1>2, <2>1, <2>2 DEF PromiseInv
  <2> QED BY <1>3, <2>2, <2>3 DEF Before
<1>7. \A d \in Calls : Before(d)' \subseteq WritesPending' \ {d}
  BY <1>2, <1>3 DEF PromiseInv
<1>8. \A d, e \in WritesPending' : d = e \/ d \in Before(e)' \/ e \in Before(d)'
  <2>1. WritesPending \subseteq Calls
    BY DEF WritesPending, Pending
  <2> QED BY <1>2, <1>3, <2>1 DEF PromiseInv
<1>9. PromiseInv'
  BY <1>4, <1>5, <1>6, <1>7, <1>8 DEF PromiseInv
<1> QED BY <1>2, <1>3, <1>9

LEMMA GoneKeeps ==
  ASSUME CallsOK', AllGone
  PROVE  PromiseInv' /\ Pending' = {} /\ WritesPending' = {} /\ Started' = {}
         /\ \A d \in Calls : Before(d)' = {}
<1>1. \A c \in Calls : call'[c].step = "settled" /\ call'[c].after = NoCall
  BY DEF AllGone, Settled
<1>2. Pending' = {} /\ WritesPending' = {} /\ Started' = {}
  BY <1>1 DEF Pending, WritesPending, Started
<1>3. \A d \in Calls : Before(d)' = {}
  <2>1. Chained({})' /\ {} \in SUBSET Calls
    BY DEF Chained
  <2> QED BY <1>1, <2>1 DEF Before
<1>4. PromiseInv'
  BY <1>1, <1>2, <1>3 DEF PromiseInv, AllGone
<1> QED BY <1>2, <1>3, <1>4

LEMMA RestKeeps ==
  ASSUME PromiseInv, UNCHANGED promises
  PROVE  PromiseInv' /\ Pending' = Pending /\ WritesPending' = WritesPending
         /\ Started' = Started /\ \A d \in Calls : Before(d)' = Before(d)
<1>1. call' = call /\ tail' = tail
  BY DEF promises
<1>2. \A d \in Calls : Before(d)' = Before(d)
  BY <1>1, BeforeStays
<1> QED BY <1>1, <1>2
    DEF PromiseInv, CallsOK, Pending, WritesPending, Started, Before, Chained

LEMMA PromiseInitially == Init => PromiseInv /\ Promised!StoreInit
<1> SUFFICES ASSUME Init PROVE PromiseInv /\ Promised!StoreInit
  OBVIOUS
<1>1. \A c \in Calls : call[c] = Settled /\ call[c].step = "settled" /\ call[c].after = NoCall
  BY DEF Init, Settled
<1>2. CallOK(Settled)
  BY DEF Settled, CallOK, Kinds, Steps, NoCounters
<1>3. CallsOK /\ tail = NoCall
  BY <1>1, <1>2 DEF Init, CallsOK
<1>4. Pending = {} /\ WritesPending = {}
  BY <1>1 DEF Pending, WritesPending
<1>5. \A c \in Calls : Before(c) = {}
  BY <1>1, NothingBefore
<1>6. PromiseInv
  BY <1>1, <1>3, <1>4, <1>5 DEF PromiseInv
<1>7. Promised!StoreInit
  BY <1>4, <1>5 DEF Init, Promised!StoreInit
<1> QED BY <1>6, <1>7

\* The state of ManagedStore, for a step that is known by what it does.
Promises == [c \in Calls |-> Before(c)]

LEMMA PromiseStep ==
  ASSUME PromiseInv, [Next]_vars
  PROVE  PromiseInv' /\ [Promised!StoreNext]_(Promised!storeVars)
<1> USE DEF Started, WritesPending
<1>0. CallsOK' /\ CallsOK
  BY PromiseSteps DEF PromiseInv
<1>1. ASSUME NEW c \in Calls, Begins(c), life' = life
      PROVE  PromiseInv' /\ Promised!StoreNext
  <2>1. PromiseInv' /\ Started' = Started
    BY <1>0, <1>1, BeginsKeeps
  <2>2. /\ \A d \in Calls : Before(d)' = IF d # c THEN Before(d)
                                         ELSE IF call'[c].kind = "initialize" THEN {}
                                         ELSE WritesPending
        /\ Pending' = Pending \cup {c}
        /\ WritesPending' = IF call'[c].kind \in Writes THEN WritesPending \cup {c}
                            ELSE WritesPending
    BY <1>0, <1>1, BeginsChain
  <2> HIDE DEF Started, WritesPending
  <2>3. c \notin Pending /\ life \in {"new", "open"}
    BY <1>1 DEF Begins, Pending
  <2>4. PICK type \in Promised!CallTypes :
          /\ type = "write" <=> call'[c].kind \in Writes
          /\ type = "initialize" <=> call'[c].kind = "initialize"
    BY DEF Promised!CallTypes, Writes
  <2>5. Promises' = [Promises EXCEPT ![c] = IF type = "initialize" THEN {} ELSE WritesPending]
    BY <2>2, <2>4 DEF Promises
  <2>6. Promised!Admit(c, type)
    BY <1>1, <2>1, <2>2, <2>3, <2>4, <2>5
       DEF Promised!Admit, Promised!Accepting, Promises, WritesPending, Started
  <2> QED BY <2>1, <2>6 DEF Promised!StoreNext
<1>2. ASSUME NEW c \in Calls, TakesTurn(c), life' = life
      PROVE  PromiseInv' /\ Promised!StoreNext
  <2>1. /\ PromiseInv' /\ Pending' = Pending /\ WritesPending' = WritesPending
        /\ Started' = Started \cup {c} /\ c \in Pending
        /\ \A d \in Calls : Before(d)' = Before(d)
    BY <1>0, <1>2, MovesKeep
  <2>2. c \notin Started /\ Before(c) = {}
    BY <1>2, NothingBefore DEF TakesTurn
  <2>3. Promised!Start(c)
    BY <1>2, <2>1, <2>2 DEF Promised!Start
  <2> QED BY <2>1, <2>3 DEF Promised!StoreNext
<1>3. ASSUME NEW c \in Calls, GoesOn(c), life' = life
      PROVE  PromiseInv' /\ UNCHANGED Promised!storeVars
  <2>1. /\ PromiseInv' /\ Pending' = Pending /\ WritesPending' = WritesPending
        /\ Started' = Started \cup {c} /\ c \in Pending
        /\ \A d \in Calls : Before(d)' = Before(d)
    BY <1>0, <1>3, MovesKeep
  <2>2. c \in Started
    BY <1>3, <2>1 DEF GoesOn
  <2>3. Started' = Started
    BY <2>1, <2>2
  <2> QED BY <1>3, <2>1, <2>3 DEF Promised!storeVars
<1>4. ASSUME NEW c \in Calls, Leaves(c), life' = life \/ (life = "new" /\ life' = "open")
      PROVE  PromiseInv' /\ Promised!StoreNext
  <2>1. /\ PromiseInv' /\ c \in Started
        /\ Pending' = Pending \ {c} /\ WritesPending' = WritesPending \ {c}
        /\ Started' = Started \ {c}
        /\ \A d \in Calls : Before(d)' = IF d = c THEN {} ELSE Before(d) \ {c}
    BY <1>0, <1>4, LeavesKeeps
  <2>2. Promised!Forget(c)
    <3>1. Promises' = [d \in Calls |-> IF d = c THEN {} ELSE Promises[d] \ {c}]
      BY <2>1 DEF Promises
    <3> QED BY <2>1, <3>1 DEF Promised!Forget, Promises
  <2>3. CASE life' = life
    BY <2>1, <2>2, <2>3 DEF Promised!Settle, Promised!StoreNext
  <2>4. CASE life = "new" /\ life' = "open"
    BY <2>1, <2>2, <2>4 DEF Promised!Opens, Promised!StoreNext
  <2> QED BY <1>4, <2>1, <2>3, <2>4
<1>5. ASSUME UNCHANGED promises
      PROVE  PromiseInv' /\ Pending' = Pending /\ UNCHANGED <<WritesPending, Started, Promises>>
  BY <1>5, RestKeeps DEF Promises
<1>6. CASE UNCHANGED <<promises, life>>
  BY <1>5, <1>6 DEF Promised!storeVars, Promises
<1>7. CASE Close /\ UNCHANGED promises
  <2>1. Promised!StartClose
    BY <1>5, <1>7 DEF Promised!StartClose, Promised!Accepting, Close, Promises
  <2> QED BY <1>5, <1>7, <2>1 DEF Promised!StoreNext
<1>8. CASE life = "closing" /\ life' = "closed" /\ UNCHANGED promises
  <2>1. CASE Pending = {}
    <3>1. Promised!CloseQuietly
      BY <1>5, <1>8, <2>1 DEF Promised!CloseQuietly, Promises
    <3> QED BY <1>5, <1>8, <3>1 DEF Promised!StoreNext
  <2>2. CASE Pending # {}
    <3>1. Promised!CloseByForce
      BY <1>5, <1>8, <2>2 DEF Promised!CloseByForce, Promises
    <3> QED BY <1>5, <1>8, <3>1 DEF Promised!StoreNext
  <2> QED BY <2>1, <2>2
<1>9. CASE AllGone /\ life' = "new"
  <2>1. PromiseInv' /\ Pending' = {} /\ WritesPending' = {} /\ Started' = {}
        /\ \A d \in Calls : Before(d)' = {}
    BY <1>0, <1>9, GoneKeeps
  <2>2. Promised!Restarts
    <3>1. Promises' = [c \in Calls |-> {}]
      BY <2>1 DEF Promises
    <3> QED BY <1>9, <2>1, <3>1 DEF Promised!Restarts, Promises
  <2> QED BY <2>1, <2>2 DEF Promised!StoreNext
<1> HIDE DEF Started, WritesPending
<1> QED BY <1>0, <1>1, <1>2, <1>3, <1>4, <1>6, <1>7, <1>8, <1>9, PromiseSteps

\* initialize(), writes, reads and close() of the store, with failures, forced
\* ends and new processes, are those of ManagedStore: writes run one by one in
\* the order of their calls, and reads wait for the writes called before them.
THEOREM StoreKeepsPromises == Spec => KeepsPromises
<1>1. Init => PromiseInv /\ Promised!StoreInit
  BY PromiseInitially
<1>2. PromiseInv /\ [Next]_vars => PromiseInv' /\ [Promised!StoreNext]_(Promised!storeVars)
  BY PromiseStep
<1> QED BY <1>1, <1>2, PTL DEF Spec, KeepsPromises, Promised!StoreSpec

-----------------------------------------------------------------------------
\* What the calls know of the rows: an upsert replaces one file, leaves room for
\* what it still has to add, and has written rows when nothing is left to add.
CallsFit ==
  \A c \in Calls :
    /\ call[c].kind = "upsert" => \E f \in Files : call[c].files = {f}
    /\ call[c].kind = "upsert" /\ call[c].step # "adding" => call[c].add \in 1 .. MaxRows
    /\ call[c].kind # "upsert" => call[c].add = 0
    /\ call[c].step = "adding" =>
         /\ call[c].kind \in Writes
         /\ call[c].kind = "upsert" /\ call[c].add = 0 => call[c].files \subseteq Indexed
         /\ call[c].kind = "upsert" => \A f \in call[c].files : rows[f] + call[c].add <= MaxRows
         /\ call[c].kind # "upsert" => created
         /\ call[c].kind \in {"compact", "optimize"} => call[c].gain.total = 0

CountersOK(s) == s = [stale |-> s.stale, total |-> s.total] /\ s.total \in Int

StateOK ==
  /\ rows \in [Files -> 0 .. MaxRows]
  /\ life \in {"new", "open", "closing", "closed"}
  /\ opened \in {"none", "db", "table"}
  /\ timer \in {"none", "armed", "waiting"}
  /\ created \in BOOLEAN /\ drifted \in BOOLEAN /\ behind \in BOOLEAN
  /\ cuts \in Nat
  /\ CountersOK(stats)
  /\ sidecar = Missing \/ \E s : sidecar = <<s>> /\ CountersOK(s)
  /\ opened = "table" => created
  /\ ~created => Indexed = {} /\ sidecar = Missing /\ stats = NoCounters

\* A store before initialize() has succeeded; it may be closed already.
NeverOpened ==
  /\ life # "open"
  /\ opened = "none"
  /\ stats = NoCounters
  /\ Writing = {}
  /\ ~behind

OpeningOK ==
  /\ life = "new" => NeverOpened
  /\ \A c \in Pending : call[c].kind = "initialize" =>
       NeverOpened /\ \A d \in Pending : call[d].kind = "initialize" => d = c

\* The files a write will be counted to have left when it ends.
CountedAfter(c) ==
  IF call[c].kind = "upsert" THEN Indexed \cup call[c].files ELSE Indexed

TotalsFit ==
  /\ \A c \in Writing : Cardinality(CountedAfter(c)) = stats.total + call[c].gain.total
  /\ Writing = {} => stats.total = Cardinality(Indexed)

\* Unless a write was cut short, either nothing was counted in this process and
\* metadata.json is right, or the counters are, and metadata.json says the same.
Accounts ==
  ~drifted =>
    \/ NeverOpened /\ (sidecar = Missing \/ sidecar[1].total = Cardinality(Indexed))
    \/ life # "new" /\ TotalsFit /\ (behind \/ sidecar \in {Missing, <<stats>>})

\* Without metadata.json a write was cut short, or the first one is under way;
\* without rows a second one was, or is under way.
CutsFit ==
  sidecar = Missing /\ created =>
    /\ cuts >= 1 \/ \E c \in Writing : call[c].kind = "upsert"
    /\ Indexed = {} =>
         cuts >= 2 \/ (cuts >= 1 /\ \E c \in Writing : call[c].kind \in {"upsert", "delete"})

StoreInv == PromiseInv /\ StateOK /\ CallsFit /\ OpeningOK /\ Accounts /\ CutsFit

-----------------------------------------------------------------------------
\* Writes run alone.
LEMMA OneAtWork ==
  ASSUME PromiseInv, NEW c \in Calls, NEW d \in Calls,
         call[c].kind \in Writes, call[c].step \in {"running", "adding"},
         call[d].kind \in Writes, call[d].step \in {"running", "adding"}
  PROVE  c = d
<1>1. Before(c) = {} /\ Before(d) = {}
  <2>1. call[c].after = NoCall /\ call[d].after = NoCall
    BY DEF PromiseInv
  <2> QED BY <2>1, NothingBefore
<1>2. c \in WritesPending /\ d \in WritesPending
  BY DEF WritesPending, Pending
<1> QED BY <1>1, <1>2 DEF PromiseInv

LEMMA OneWritingAlone ==
  ASSUME PromiseInv, CallsFit, NEW c \in Calls, call[c].kind \in Writes,
         call[c].step \in {"running", "adding"}
  PROVE  Writing = IF call[c].step = "adding" THEN {c} ELSE {}
<1>1. \A d \in Writing : d \in Calls /\ call[d].kind \in Writes /\ call[d].step = "adding"
  BY DEF Writing, CallsFit
<1>2. \A d \in Writing : d = c
  BY <1>1, OneAtWork
<1> QED BY <1>2 DEF Writing

\* A step that leaves rows, counters and writes under way as they are.
StoreStays == UNCHANGED <<rows, created, sidecar, life, opened, stats, drifted, behind, cuts>>

WritingStays ==
  /\ Writing' = Writing
  /\ \A c \in Writing : call'[c].kind = call[c].kind /\ call'[c].files = call[c].files
                        /\ call'[c].gain = call[c].gain

LEMMA StayKeeps ==
  ASSUME StoreInv, StoreStays, WritingStays
  PROVE  Accounts' /\ CutsFit' /\ (NeverOpened' <=> NeverOpened)
<1>1. Indexed' = Indexed
  BY DEF Indexed, StoreStays
<1>2. NeverOpened' <=> NeverOpened
  BY DEF NeverOpened, StoreStays, WritingStays, NoCounters
<1>3. \A c \in Writing : CountedAfter(c)' = CountedAfter(c)
  BY <1>1 DEF CountedAfter, WritingStays
<1>4. TotalsFit => TotalsFit'
  BY <1>1, <1>3 DEF TotalsFit, StoreStays, WritingStays
<1>5. Accounts'
  BY <1>1, <1>2, <1>4 DEF Accounts, StoreStays, StoreInv, Missing
<1>6. CutsFit'
  <2>1. CutsFit /\ created' = created /\ sidecar' = sidecar /\ cuts' = cuts
    BY DEF StoreInv, StoreStays
  <2>2. \A c \in Writing : c \in Writing' /\ call'[c].kind = call[c].kind
    BY DEF WritingStays
  <2> QED BY <1>1, <2>1, <2>2 DEF CutsFit, Missing
<1> QED BY <1>2, <1>5, <1>6

LEMMA StateStays ==
  ASSUME StoreInv, StoreStays, timer' \in {"none", "armed", "waiting"}
  PROVE  StateOK'
<1>1. Indexed' = Indexed
  BY DEF Indexed, StoreStays
<1> QED BY <1>1 DEF StoreInv, StateOK, StoreStays, CountersOK, Missing, NoCounters

\* What a call that comes, waits or leaves without a write has done: the other
\* calls are as they were.
LEMMA BegunKeeps ==
  ASSUME StoreInv, CallsOK', NEW c \in Calls, Begins(c), StoreStays,
         timer' \in {"none", "armed", "waiting"},
         call'[c].kind = "upsert" => /\ \E f \in Files : call'[c].files = {f}
                                     /\ call'[c].add \in 1 .. MaxRows,
         call'[c].kind # "upsert" => call'[c].add = 0,
         call'[c].kind = "initialize" =>
           life = "new" /\ \A d \in Pending : call[d].kind # "initialize"
  PROVE  StoreInv'
<1>1. PromiseInv'
  BY BeginsKeeps DEF StoreInv
<1>2. call[c].step = "settled" /\ call'[c].step = "called"
      /\ \A d \in Calls \ {c} : call'[d] = call[d]
  BY DEF Begins
<1>3. WritingStays
  BY <1>2 DEF WritingStays, Writing
<1>4. Accounts' /\ CutsFit' /\ (NeverOpened' <=> NeverOpened)
  BY <1>3, StayKeeps
<1>5. StateOK'
  BY StateStays
<1>6. CallsFit'
  <2>1. Indexed' = Indexed
    BY DEF Indexed, StoreStays
  <2> QED BY <1>2, <2>1 DEF StoreInv, CallsFit, StoreStays
<1>7. OpeningOK'
  <2>1. Pending' = Pending \cup {c}
    BY <1>2 DEF Pending
  <2>2. CASE call'[c].kind = "initialize"
    BY <1>2, <1>4, <2>1, <2>2 DEF StoreInv, OpeningOK, StoreStays, Pending
  <2>3. CASE call'[c].kind # "initialize"
    BY <1>2, <1>4, <2>1, <2>3 DEF StoreInv, OpeningOK, StoreStays, Pending
  <2> QED BY <2>2, <2>3
<1> QED BY <1>1, <1>4, <1>5, <1>6, <1>7 DEF StoreInv

LEMMA CallMadeKeeps ==
  ASSUME StoreInv, NEW c \in Calls, CallMade(c) \/ IdleCompaction(c)
  PROVE  StoreInv'
<1> DEFINE T == {"none", "armed", "waiting"}
<1>0. CallsOK /\ timer \in T
  BY DEF StoreInv, PromiseInv, StateOK
<1>1. CASE Initialize(c)
  <2>1. Begin(c, "initialize", {}, 0) /\ StoreStays /\ timer' = timer
    BY <1>1 DEF Initialize, memory, disk, history, StoreStays
  <2>2. CallsOK' /\ Begins(c) /\ call'[c].kind = "initialize" /\ call'[c].add = 0
    BY <1>0, <2>1, BeginEffects DEF Kinds
  <2>3. life = "new" /\ \A d \in Pending : call[d].kind # "initialize"
    BY <1>1 DEF Initialize
  <2> QED BY <1>0, <2>1, <2>2, <2>3, BegunKeeps
<1>2. ASSUME NEW f \in Files, NEW n \in 1 .. MaxRows, Upsert(c, f, n)
      PROVE  StoreInv'
  <2>1. Begin(c, "upsert", {f}, n) /\ StoreStays /\ timer' = timer
    BY <1>2 DEF Upsert, memory, disk, history, StoreStays
  <2>2. "upsert" \in Kinds /\ {f} \in SUBSET Files /\ n \in Nat
    BY StoreBoundsAssumption DEF Kinds, Writes
  <2>3. CallsOK' /\ Begins(c) /\ call'[c].kind = "upsert" /\ call'[c].add = n
        /\ call'[c].files = {f}
    BY <1>0, <2>1, <2>2, BeginEffects
  <2> QED BY <1>0, <2>1, <2>3, BegunKeeps
<1>3. ASSUME NEW files \in SUBSET Files \ {{}}, Delete(c, files)
      PROVE  StoreInv'
  <2>1. Begin(c, "delete", files, 0) /\ StoreStays /\ timer' = timer
    BY <1>3 DEF Delete, memory, disk, history, StoreStays
  <2>2. CallsOK' /\ Begins(c) /\ call'[c].kind = "delete" /\ call'[c].add = 0
    BY <1>0, <2>1, BeginEffects DEF Kinds, Writes
  <2> QED BY <1>0, <2>1, <2>2, BegunKeeps
<1>4. ASSUME NEW kind \in {"compact", "optimize", "read"}, Call(c, kind)
      PROVE  StoreInv'
  <2>1. Begin(c, kind, {}, 0) /\ StoreStays /\ timer' = timer
    BY <1>4 DEF Call, memory, disk, history, StoreStays
  <2>2. CallsOK' /\ Begins(c) /\ call'[c].kind = kind /\ call'[c].add = 0
    BY <1>0, <2>1, BeginEffects DEF Kinds, Writes
  <2> QED BY <1>0, <2>1, <2>2, BegunKeeps
<1>5. CASE IdleCompaction(c)
  <2>1. Begin(c, "compact", {}, 0) /\ StoreStays /\ timer' = "none"
    BY <1>5 DEF IdleCompaction, memory, disk, history, StoreStays
  <2>2. CallsOK' /\ Begins(c) /\ call'[c].kind = "compact" /\ call'[c].add = 0
    BY <1>0, <2>1, BeginEffects DEF Kinds, Writes
  <2> QED BY <1>0, <2>1, <2>2, BegunKeeps
<1> QED BY <1>1, <1>2, <1>3, <1>4, <1>5 DEF CallMade

LEMMA TurnKeeps ==
  ASSUME StoreInv, NEW c \in Calls, Turn(c)
  PROVE  StoreInv'
<1>1. CallsOK' /\ TakesTurn(c) /\ call'[c].files = call[c].files /\ call'[c].add = call[c].add
  BY TurnEffects DEF StoreInv, PromiseInv
<1>2. call[c].step = "called" /\ call'[c].step = "running" /\ call'[c].kind = call[c].kind
      /\ \A d \in Calls \ {c} : call'[d] = call[d]
  BY <1>1 DEF TakesTurn
<1>3. StoreStays /\ timer' = timer
  BY DEF Turn, memory, disk, history, StoreStays
<1>4. PromiseInv' /\ Pending' = Pending
  BY <1>1, MovesKeep DEF StoreInv
<1>5. WritingStays
  BY <1>2 DEF WritingStays, Writing
<1>6. Accounts' /\ CutsFit' /\ (NeverOpened' <=> NeverOpened)
  BY <1>3, <1>5, StayKeeps
<1>7. StateOK'
  BY <1>3, StateStays DEF StoreInv, StateOK
<1>8. CallsFit'
  <2>1. Indexed' = Indexed
    BY <1>3 DEF Indexed, StoreStays
  <2> QED BY <1>1, <1>2, <1>3, <2>1 DEF StoreInv, CallsFit, StoreStays
<1>9. OpeningOK'
  BY <1>2, <1>3, <1>4, <1>6 DEF StoreInv, OpeningOK, StoreStays, Pending
<1> QED BY <1>4, <1>6, <1>7, <1>8, <1>9 DEF StoreInv

\* A call leaves; what it does besides is the matter of its action.
LEMMA LeavingFits ==
  ASSUME StoreInv, NEW c \in Calls, call[c].step \in {"running", "adding"}, Settling(c)
  PROVE  /\ PromiseInv'
         /\ Writing' = Writing \ {c} /\ Pending' = Pending \ {c}
         /\ \A d \in Calls \ {c} : /\ call'[d].step = call[d].step
                                   /\ call'[d].kind = call[d].kind
                                   /\ call'[d].files = call[d].files
                                   /\ call'[d].add = call[d].add
                                   /\ call'[d].gain = call[d].gain
         /\ rows' = rows /\ created' = created => CallsFit'
<1>1. /\ CallsOK' /\ Leaves(c)
      /\ \A d \in Calls \ {c} : /\ call'[d].files = call[d].files
                                /\ call'[d].add = call[d].add
                                /\ call'[d].gain = call[d].gain
  BY SettlingEffects DEF StoreInv, PromiseInv
<1>2. PromiseInv' /\ Pending' = Pending \ {c}
  BY <1>1, LeavesKeeps DEF StoreInv
<1>3. call'[c] = Settled
      /\ \A d \in Calls \ {c} : call'[d].step = call[d].step /\ call'[d].kind = call[d].kind
  BY <1>1 DEF Leaves
<1>4. Writing' = Writing \ {c}
  BY <1>3 DEF Writing, Settled
<1>5. ASSUME rows' = rows, created' = created
      PROVE  CallsFit'
  <2>1. Indexed' = Indexed
    BY <1>5 DEF Indexed
  <2>2. CallsFit
    BY DEF StoreInv
  <2>3. call'[c].kind = "none" /\ call'[c].add = 0 /\ call'[c].step = "settled"
    BY <1>3 DEF Settled
  <2> QED BY <1>1, <1>3, <1>5, <2>1, <2>2, <2>3 DEF CallsFit
<1> QED BY <1>1, <1>2, <1>3, <1>4, <1>5

\* initialize() that fails, a read, and a write that finds nothing to do.
LEMMA QuietLeaves ==
  ASSUME StoreInv, NEW c \in Calls, InitializeFails(c) \/ Reads(c) \/ Returns(c)
  PROVE  StoreInv'
<1>1. Settling(c) /\ call[c].step = "running" /\ StoreStays /\ timer' = timer
  BY DEF InitializeFails, Reads, Returns, Running, memory, disk, history, StoreStays
<1>2. /\ PromiseInv' /\ CallsFit'
      /\ Writing' = Writing \ {c} /\ Pending' = Pending \ {c}
      /\ \A d \in Calls \ {c} : /\ call'[d].step = call[d].step
                                /\ call'[d].kind = call[d].kind
                                /\ call'[d].files = call[d].files
                                /\ call'[d].gain = call[d].gain
  BY <1>1, LeavingFits DEF StoreStays
<1>3. WritingStays
  <2>1. c \notin Writing
    BY <1>1 DEF Writing
  <2> QED BY <1>2, <2>1 DEF WritingStays, Writing
<1>4. Accounts' /\ CutsFit' /\ (NeverOpened' <=> NeverOpened)
  BY <1>1, <1>3, StayKeeps
<1>5. StateOK'
  BY <1>1, StateStays DEF StoreInv, StateOK
<1>6. OpeningOK'
  BY <1>1, <1>2, <1>4 DEF StoreInv, OpeningOK, StoreStays, Pending
<1> QED BY <1>2, <1>4, <1>5, <1>6 DEF StoreInv

\* The timer of the idle compaction, and steps outside the store.
LEMMA TimersKeep ==
  ASSUME StoreInv, SchedulesCompaction \/ TimerFires \/ GivesUpCompaction \/ UNCHANGED vars
  PROVE  StoreInv'
<1>1. StoreStays /\ UNCHANGED promises /\ timer' \in {"none", "armed", "waiting"}
  BY DEF SchedulesCompaction, TimerFires, GivesUpCompaction, vars, disk, memory, history,
         StoreStays, StoreInv, StateOK
<1>2. call' = call /\ Pending' = Pending /\ Writing' = Writing
  BY <1>1 DEF promises, Pending, Writing
<1>3. PromiseInv'
  BY <1>1, RestKeeps DEF StoreInv
<1>4. WritingStays
  BY <1>2 DEF WritingStays
<1>5. Accounts' /\ CutsFit' /\ (NeverOpened' <=> NeverOpened)
  BY <1>1, <1>4, StayKeeps
<1>6. StateOK'
  BY <1>1, StateStays
<1>7. Indexed' = Indexed
  BY <1>1 DEF Indexed, StoreStays
<1>8. CallsFit'
  BY <1>1, <1>2, <1>7 DEF StoreInv, CallsFit, StoreStays
<1>9. OpeningOK'
  BY <1>1, <1>2, <1>5 DEF StoreInv, OpeningOK, StoreStays
<1> QED BY <1>3, <1>5, <1>6, <1>8, <1>9 DEF StoreInv

\* A write that has something to do found the store open, and nobody else at work.
LEMMA WorksAlone ==
  ASSUME StoreInv, NEW c \in Calls, call[c].step = "running", call[c].kind \in Writes,
         ~NothingToDo(call[c])
  PROVE  /\ Writing = {} /\ ~NeverOpened /\ life # "new"
         /\ \A d \in Pending : call[d].kind # "initialize"
         /\ call[c].kind # "upsert" => created
<1>1. Writing = {}
  BY OneWritingAlone DEF StoreInv
<1>2. ~NeverOpened
  BY DEF NeverOpened, NothingToDo, Connected, NoCounters, Writes
<1>3. life # "new" /\ \A d \in Pending : call[d].kind # "initialize"
  BY <1>2 DEF StoreInv, OpeningOK
<1>4. call[c].kind # "upsert" => created
  <2>1. CASE call[c].kind = "delete"
    BY <2>1 DEF NothingToDo, StoreInv, StateOK
  <2>2. CASE call[c].kind \in {"compact", "optimize"}
    BY <2>2 DEF NothingToDo, StoreInv, StateOK, NoCounters
  <2> QED BY <2>1, <2>2 DEF Writes
<1> QED BY <1>1, <1>2, <1>3, <1>4

\* A write that has begun: what the invariant then asks of it.
LEMMA BegunWriteKeeps ==
  ASSUME StoreInv, NEW c \in Calls, call[c].step = "running", call[c].kind \in Writes,
         ~NothingToDo(call[c]),
         CallsOK', GoesOn(c), call'[c].files = call[c].files, call'[c].add = call[c].add,
         UNCHANGED <<created, sidecar, life, opened, stats, timer, drifted, behind, cuts>>,
         rows' \in [Files -> 0 .. MaxRows], Indexed' \subseteq Indexed,
         call[c].kind = "upsert" => \A f \in call[c].files : rows'[f] = 0,
         call[c].kind \in {"compact", "optimize"} => call'[c].gain.total = 0 /\ rows' = rows,
         ~drifted => (stats.total = Cardinality(Indexed) =>
           Cardinality(CountedAfter(c)') = stats.total + call'[c].gain.total)
  PROVE  StoreInv'
<1>1. /\ call'[c].step = "adding" /\ call'[c].kind = call[c].kind
      /\ \A d \in Calls \ {c} : call'[d] = call[d]
  BY DEF GoesOn
<1>2. PromiseInv' /\ Pending' = Pending
  BY MovesKeep DEF StoreInv
<1>3. /\ Writing = {} /\ ~NeverOpened /\ life # "new"
      /\ \A d \in Pending : call[d].kind # "initialize"
      /\ call[c].kind # "upsert" => created
  BY WorksAlone
<1>4. Writing' = {c}
  BY <1>1, <1>3 DEF Writing
<1>5. StateOK'
  <2>1. StateOK
    BY DEF StoreInv
  <2> QED BY <2>1 DEF StateOK, CountersOK, Missing, NoCounters
<1>6. CallsFit'
  <2>1. CallsFit /\ \A d \in Calls \ {c} : call[d].step # "adding"
    BY <1>3 DEF StoreInv, Writing
  <2>2. ASSUME call[c].kind = "upsert"
        PROVE  /\ call'[c].add \in 1 .. MaxRows
               /\ \A f \in call[c].files : rows'[f] + call'[c].add <= MaxRows
    BY <2>1, <2>2, StoreBoundsAssumption DEF CallsFit
  <2>3. call[c].kind # "upsert" => call'[c].add = 0
    BY <2>1 DEF CallsFit
  <2>4. ASSUME NEW d \in Calls
        PROVE  /\ call'[d].kind = "upsert" => \E f \in Files : call'[d].files = {f}
               /\ call'[d].kind = "upsert" /\ call'[d].step # "adding" => call'[d].add \in 1 .. MaxRows
               /\ call'[d].kind # "upsert" => call'[d].add = 0
    BY <1>1, <2>1 DEF CallsFit
  <2>5. \A d \in Calls : call'[d].step = "adding" => d = c
    BY <1>1, <2>1
  <2> QED BY <1>1, <1>3, <2>2, <2>3, <2>4, <2>5 DEF CallsFit
<1>7. OpeningOK'
  BY <1>1, <1>2, <1>3 DEF StoreInv, OpeningOK, Pending
<1>8. Accounts'
  <2> SUFFICES ASSUME ~drifted' PROVE Accounts'
    BY DEF Accounts
  <2>1. TotalsFit /\ (behind \/ sidecar \in {Missing, <<stats>>})
    BY <1>3 DEF StoreInv, Accounts
  <2>2. stats.total = Cardinality(Indexed)
    BY <1>3, <2>1 DEF TotalsFit
  <2>3. TotalsFit'
    <3>1. (Cardinality(CountedAfter(c)) = stats.total + call[c].gain.total)'
      BY <2>2
    <3> QED BY <1>4, <3>1 DEF TotalsFit
  <2> QED BY <1>3, <2>1, <2>3 DEF Accounts, Missing
<1>9. CutsFit'
  <2> SUFFICES ASSUME sidecar' = Missing, created' PROVE CutsFit'
    BY DEF CutsFit
  <2>1. cuts >= 1
    BY <1>3 DEF StoreInv, CutsFit, Missing
  <2>2. CASE call[c].kind \in {"upsert", "delete"}
    BY <1>1, <1>4, <2>1, <2>2 DEF CutsFit
  <2>3. CASE call[c].kind \in {"compact", "optimize"}
    <3>1. Indexed' = Indexed
      BY <2>3 DEF Indexed
    <3>2. Indexed' = {} => cuts >= 2
      BY <1>3, <3>1 DEF StoreInv, CutsFit, Missing
    <3> QED BY <2>1, <3>2 DEF CutsFit
  <2> QED BY <2>2, <2>3 DEF Writes
<1> QED BY <1>2, <1>5, <1>6, <1>7, <1>8, <1>9 DEF StoreInv

LEMMA ReplacesKeeps ==
  ASSUME StoreInv, NEW c \in Calls, Replaces(c)
  PROVE  StoreInv'
<1>1. call[c].step = "running" /\ call[c].kind = "upsert" /\ call[c].kind \in Writes
      /\ ~NothingToDo(call[c])
  BY DEF Replaces, Running, Writes
<1>2. /\ CallsOK' /\ GoesOn(c)
      /\ call'[c].files = call[c].files /\ call'[c].add = call[c].add
      /\ call'[c].gain.total = Cardinality(call[c].files \ (call[c].files \cap Indexed))
  BY ReplacesEffects DEF StoreInv, PromiseInv
<1>3. /\ UNCHANGED <<created, sidecar, life, opened, stats, timer, drifted, behind, cuts>>
      /\ rows' = [f \in Files |-> IF f \in call[c].files THEN 0 ELSE rows[f]]
  BY DEF Replaces, memory, history
<1>4. rows \in [Files -> 0 .. MaxRows]
  BY DEF StoreInv, StateOK
<1>5. rows' \in [Files -> 0 .. MaxRows]
  BY <1>3, <1>4, StoreBoundsAssumption
<1>6. PICK f \in Files : call[c].files = {f}
  BY <1>1 DEF StoreInv, CallsFit
<1>7. Indexed' = Indexed \ {f} /\ Indexed \subseteq Files
  BY <1>3, <1>4, <1>6 DEF Indexed
<1>8. CountedAfter(c)' = Indexed \cup {f}
  BY <1>1, <1>2, <1>6, <1>7 DEF CountedAfter, GoesOn
<1>9. Cardinality(Indexed \cup {f}) =
        Cardinality(Indexed) + Cardinality({f} \ ({f} \cap Indexed))
  <2>1. IsFiniteSet(Indexed) /\ Cardinality(Indexed) \in Nat
    BY <1>7, FilesAreCounted
  <2>2. CASE f \in Indexed
    <3>1. Indexed \cup {f} = Indexed /\ {f} \ ({f} \cap Indexed) = {}
      BY <2>2
    <3>2. Cardinality({}) = 0
      BY FS_EmptySet
    <3> QED BY <2>1, <3>1, <3>2
  <2>3. CASE f \notin Indexed
    <3>1. {f} \ ({f} \cap Indexed) = {f}
      BY <2>3
    <3>2. Cardinality({f}) = 1
      BY FS_Singleton
    <3>3. Cardinality(Indexed \cup {f}) = Cardinality(Indexed) + 1
      BY <2>1, <2>3, FS_AddElement
    <3> QED BY <3>1, <3>2, <3>3
  <2> QED BY <2>2, <2>3
<1>10. stats.total = Cardinality(Indexed) =>
         Cardinality(CountedAfter(c)') = stats.total + call'[c].gain.total
  BY <1>2, <1>6, <1>8, <1>9
<1>11. \A g \in call[c].files : rows'[g] = 0
  BY <1>3, <1>6
<1> QED BY <1>1, <1>2, <1>3, <1>5, <1>7, <1>10, <1>11, BegunWriteKeeps

LEMMA RemovesKeeps ==
  ASSUME StoreInv, NEW c \in Calls, Removes(c)
  PROVE  StoreInv'
<1>1. call[c].step = "running" /\ call[c].kind = "delete" /\ call[c].kind \in Writes
      /\ ~NothingToDo(call[c])
  BY DEF Removes, Running, Writes
<1>2. /\ CallsOK' /\ GoesOn(c)
      /\ call'[c].files = call[c].files /\ call'[c].add = call[c].add
      /\ call'[c].gain.total = -Cardinality(call[c].files \cap Indexed)
  BY RemovesEffects DEF StoreInv, PromiseInv
<1>3. /\ UNCHANGED <<created, sidecar, life, opened, stats, timer, drifted, behind, cuts>>
      /\ rows' = [f \in Files |-> IF f \in call[c].files THEN 0 ELSE rows[f]]
  BY DEF Removes, memory, history
<1>4. rows \in [Files -> 0 .. MaxRows]
  BY DEF StoreInv, StateOK
<1>5. rows' \in [Files -> 0 .. MaxRows]
  BY <1>3, <1>4, StoreBoundsAssumption
<1>6. Indexed' = Indexed \ call[c].files /\ Indexed \subseteq Files
  BY <1>3, <1>4 DEF Indexed
<1>7. CountedAfter(c)' = Indexed \ call[c].files
  BY <1>1, <1>2, <1>6 DEF CountedAfter, GoesOn
<1>8. Cardinality(Indexed \ call[c].files) =
        Cardinality(Indexed) - Cardinality(call[c].files \cap Indexed)
  <2>1. IsFiniteSet(Indexed)
    BY <1>6, FilesAreCounted
  <2>2. Cardinality(Indexed \ call[c].files) =
          Cardinality(Indexed) - Cardinality(Indexed \cap call[c].files)
    BY <2>1, FS_Difference
  <2>3. Indexed \cap call[c].files = call[c].files \cap Indexed
    OBVIOUS
  <2> QED BY <2>2, <2>3
<1>9. stats.total = Cardinality(Indexed) =>
        Cardinality(CountedAfter(c)') = stats.total + call'[c].gain.total
  <2>1. Cardinality(Indexed) \in Nat /\ Cardinality(call[c].files \cap Indexed) \in Nat
    BY <1>6, FilesAreCounted
  <2> QED BY <1>2, <1>7, <1>8, <2>1
<1> QED BY <1>1, <1>2, <1>3, <1>5, <1>6, <1>9, BegunWriteKeeps

LEMMA CompactsKeeps ==
  ASSUME StoreInv, NEW c \in Calls, Compacts(c)
  PROVE  StoreInv'
<1>1. call[c].step = "running" /\ call[c].kind \in {"compact", "optimize"}
      /\ call[c].kind \in Writes /\ ~NothingToDo(call[c])
  BY DEF Compacts, Running, Writes
<1>2. /\ CallsOK' /\ GoesOn(c)
      /\ call'[c].files = call[c].files /\ call'[c].add = call[c].add
      /\ call'[c].gain.total = 0
  BY CompactsEffects DEF StoreInv, PromiseInv
<1>3. /\ UNCHANGED <<created, sidecar, life, opened, stats, timer, drifted, behind, cuts>>
      /\ rows' = rows
  BY DEF Compacts, memory, disk, history
<1>4. rows' \in [Files -> 0 .. MaxRows] /\ stats.total \in Int
  BY <1>3 DEF StoreInv, StateOK, CountersOK
<1>5. Indexed' = Indexed
  BY <1>3 DEF Indexed
<1>6. CountedAfter(c)' = Indexed
  BY <1>1, <1>2, <1>5 DEF CountedAfter, GoesOn
<1>7. stats.total = Cardinality(Indexed) =>
        Cardinality(CountedAfter(c)') = stats.total + call'[c].gain.total
  BY <1>2, <1>4, <1>6
<1> QED BY <1>1, <1>2, <1>3, <1>4, <1>5, <1>7, BegunWriteKeeps

LEMMA AddsKeeps ==
  ASSUME StoreInv, NEW c \in Calls, Adds(c)
  PROVE  StoreInv'
<1>1. PICK n \in Nat \ {0} :
        /\ CallsOK' /\ GoesOn(c)
        /\ call'[c].files = call[c].files /\ call'[c].add = call[c].add - n
        /\ call'[c].gain = call[c].gain
        /\ rows' = [f \in Files |-> IF f \in call[c].files THEN rows[f] + n ELSE rows[f]]
  BY AddsEffects DEF StoreInv, PromiseInv
<1>2. /\ call[c].step = "adding" /\ call[c].add > 0
      /\ created' = TRUE /\ opened' = "table" /\ opened # "none"
      /\ UNCHANGED <<sidecar, life, stats, timer, drifted, behind, cuts>>
  BY DEF Adds, Connected, history
<1>3. /\ call'[c].step = "adding" /\ call'[c].kind = call[c].kind
      /\ \A d \in Calls \ {c} : call'[d] = call[d]
  BY <1>1 DEF GoesOn
<1>4. PromiseInv' /\ Pending' = Pending
  BY <1>1, MovesKeep DEF StoreInv
<1>5. /\ call[c].kind = "upsert"
      /\ \A f \in call[c].files : rows[f] + call[c].add <= MaxRows
      /\ rows \in [Files -> 0 .. MaxRows]
      /\ call[c].add \in Nat /\ call'[c].add \in Nat
  BY <1>1, <1>2 DEF StoreInv, StateOK, CallsFit, PromiseInv, CallsOK, CallOK
<1>6. PICK f \in Files : call[c].files = {f}
  BY <1>5 DEF StoreInv, CallsFit
<1>7. Writing = {c}
  <2>1. call[c].kind \in Writes
    BY <1>5 DEF Writes
  <2> QED BY <1>2, <2>1, OneWritingAlone DEF StoreInv
<1>8. Writing' = {c}
  BY <1>3, <1>7 DEF Writing
<1>9. rows' \in [Files -> 0 .. MaxRows] /\ rows'[f] > 0 /\ rows'[f] + call'[c].add <= MaxRows
  <2>1. rows[f] \in 0 .. MaxRows /\ rows[f] + call[c].add <= MaxRows
    BY <1>5, <1>6
  <2>2. rows[f] + n \in 1 .. MaxRows
    BY <1>1, <1>5, <2>1, StoreBoundsAssumption
  <2>3. rows'[f] = rows[f] + n
    BY <1>1, <1>6
  <2>4. \A g \in Files : rows'[g] \in 0 .. MaxRows
    BY <1>1, <1>5, <1>6, <2>2
  <2>5. rows'[f] + call'[c].add <= MaxRows
    BY <1>1, <1>5, <2>1, <2>3
  <2> QED BY <1>1, <2>2, <2>3, <2>4, <2>5
<1>10. Indexed' = Indexed \cup {f}
  BY <1>1, <1>5, <1>6, <1>9 DEF Indexed
<1>11. StateOK'
  <2>1. StateOK
    BY DEF StoreInv
  <2> QED BY <1>2, <1>9, <2>1 DEF StateOK, CountersOK, Missing
<1>12. CallsFit'
  <2>1. CallsFit /\ \A d \in Calls \ {c} : call[d].step # "adding"
    BY <1>7 DEF StoreInv, Writing
  <2>2. ASSUME NEW d \in Calls
        PROVE  /\ call'[d].kind = "upsert" => \E g \in Files : call'[d].files = {g}
               /\ call'[d].kind = "upsert" /\ call'[d].step # "adding" => call'[d].add \in 1 .. MaxRows
               /\ call'[d].kind # "upsert" => call'[d].add = 0
    BY <1>1, <1>3, <1>5, <2>1 DEF CallsFit
  <2>3. \A d \in Calls : call'[d].step = "adding" => d = c
    BY <1>3, <2>1
  <2>4. /\ call'[c].kind = "upsert" /\ call'[c].kind \in Writes
        /\ call'[c].files \subseteq Indexed'
        /\ \A g \in call'[c].files : rows'[g] + call'[c].add <= MaxRows
    BY <1>1, <1>3, <1>5, <1>6, <1>9, <1>10 DEF Writes
  <2> QED BY <2>2, <2>3, <2>4 DEF CallsFit
<1>13. ~NeverOpened
  BY <1>2 DEF NeverOpened
<1>14. life # "new" /\ \A d \in Pending : call[d].kind # "initialize"
  BY <1>13 DEF StoreInv, OpeningOK
<1>15. OpeningOK'
  BY <1>2, <1>3, <1>4, <1>14 DEF OpeningOK, Pending
<1>16. Accounts'
  <2> SUFFICES ASSUME ~drifted' PROVE Accounts'
    BY DEF Accounts
  <2>1. TotalsFit /\ (behind \/ sidecar \in {Missing, <<stats>>})
    BY <1>2, <1>13 DEF StoreInv, Accounts
  <2>2. CountedAfter(c)' = CountedAfter(c)
    BY <1>1, <1>3, <1>5, <1>6, <1>10 DEF CountedAfter
  <2>3. TotalsFit'
    <3>1. (Cardinality(CountedAfter(c)) = stats.total + call[c].gain.total)'
      BY <1>1, <1>2, <1>7, <2>1, <2>2 DEF TotalsFit
    <3> QED BY <1>8, <3>1 DEF TotalsFit
  <2> QED BY <1>2, <1>14, <2>1, <2>3 DEF Accounts, Missing
<1>17. CutsFit'
  BY <1>3, <1>5, <1>8, <1>10 DEF CutsFit
<1> QED BY <1>4, <1>11, <1>12, <1>15, <1>16, <1>17 DEF StoreInv

\* initialize() succeeds: the counters are those of metadata.json, or counted.
LEMMA CommitsKeeps ==
  ASSUME StoreInv, NEW c \in Calls, Commits(c)
  PROVE  StoreInv'
<1>1. /\ call[c].step = "running" /\ call[c].kind = "initialize" /\ Settling(c)
      /\ UNCHANGED <<rows, created, sidecar, timer, behind, cuts>>
      /\ drifted' = (drifted /\ sidecar # Missing)
  BY DEF Commits, Running, disk
<1>2. /\ PromiseInv' /\ CallsFit'
      /\ Writing' = Writing \ {c} /\ Pending' = Pending \ {c}
      /\ \A d \in Calls \ {c} : call'[d].kind = call[d].kind
  BY <1>1, LeavingFits
<1>3. /\ NeverOpened /\ StateOK
      /\ \A d \in Pending : call[d].kind = "initialize" => d = c
  BY <1>1 DEF StoreInv, OpeningOK, Pending
<1>4. Writing = {} /\ Writing' = {} /\ ~behind' /\ stats = NoCounters
  BY <1>1, <1>2, <1>3 DEF NeverOpened
<1>5. \A d \in Pending' : call'[d].kind # "initialize"
  BY <1>2, <1>3 DEF Pending
<1>6. Indexed' = Indexed /\ Cardinality(Indexed) \in Nat
  <2>1. Indexed \subseteq Files
    BY DEF Indexed
  <2> QED BY <1>1, <2>1, FilesAreCounted DEF Indexed
<1>7. CutsFit'
  BY <1>1, <1>4, <1>6 DEF StoreInv, CutsFit, Missing
<1>8. CASE life # "new"
  <2>1. UNCHANGED <<life, opened, stats>>
    BY <1>8 DEF Commits, memory
  <2>2. StateOK'
    BY <1>1, <1>3, <1>6, <2>1 DEF StateOK, CountersOK, Missing, NoCounters
  <2>3. NeverOpened'
    BY <1>1, <1>3, <1>4, <2>1 DEF NeverOpened, NoCounters
  <2>4. OpeningOK'
    BY <1>5, <2>3 DEF OpeningOK
  <2>5. Accounts'
    <3> SUFFICES ASSUME ~drifted' PROVE Accounts'
      BY DEF Accounts
    <3>1. CASE sidecar = Missing
      BY <1>1, <2>3, <3>1 DEF Accounts, Missing
    <3>2. CASE sidecar # Missing
      <4>1. ~drifted
        BY <1>1, <3>2
      <4>2. sidecar[1].total = Cardinality(Indexed)
        <5>1. Accounts
          BY DEF StoreInv
        <5>2. ASSUME TotalsFit, sidecar = <<stats>> PROVE sidecar[1].total = Cardinality(Indexed)
          BY <1>4, <5>2 DEF TotalsFit
        <5> QED BY <1>3, <3>2, <4>1, <5>1, <5>2 DEF Accounts, NeverOpened
      <4> QED BY <1>1, <1>6, <2>3, <4>2 DEF Accounts
    <3> QED BY <3>1, <3>2
  <2> QED BY <1>2, <1>7, <2>2, <2>4, <2>5 DEF StoreInv
<1>9. CASE life = "new"
  <2>1. /\ life' = "open" /\ opened' = IF created THEN "table" ELSE "db"
        /\ stats' = IF created THEN Recovered(sidecar) ELSE stats
    BY <1>9 DEF Commits
  <2>2. sidecar # Missing =>
          sidecar = <<sidecar[1]>> /\ CountersOK(sidecar[1])
    BY <1>3 DEF StateOK
  <2>3. CountersOK(Recovered(sidecar))
    <3>1. CASE sidecar = Missing
      BY <1>6, <3>1 DEF Recovered, CountersOK
    <3>2. CASE sidecar # Missing
      <4> DEFINE total == IF sidecar[1].total < 0 THEN Cardinality(Indexed) ELSE sidecar[1].total
      <4>1. Recovered(sidecar) = [stale |-> sidecar[1].stale, total |-> total]
        BY <3>2 DEF Recovered
      <4>2. total \in Int
        BY <1>6, <2>2, <3>2 DEF CountersOK
      <4> HIDE DEF total
      <4> QED BY <4>1, <4>2 DEF CountersOK
    <3> QED BY <3>1, <3>2
  <2>4. CountersOK(stats')
    BY <1>3, <2>1, <2>3 DEF StateOK
  <2>5. StateOK'
    <3>1. ~created => stats' = NoCounters
      BY <1>4, <2>1
    <3> QED BY <1>1, <1>3, <1>6, <2>1, <2>4, <3>1 DEF StateOK, Missing, CountersOK, NoCounters
  <2>6. OpeningOK'
    BY <1>5, <2>1 DEF OpeningOK
  <2>7. Accounts'
    <3> SUFFICES ASSUME ~drifted' PROVE Accounts'
      BY DEF Accounts
    <3>1. stats'.total = Cardinality(Indexed) /\ sidecar \in {Missing, <<stats'>>}
      <4>1. CASE ~created
        <5>1. Indexed = {} /\ sidecar = Missing /\ stats' = NoCounters
          BY <1>3, <1>4, <2>1, <4>1 DEF StateOK
        <5> QED BY <5>1, FS_EmptySet DEF NoCounters
      <4>2. CASE created /\ sidecar = Missing
        <5>1. stats' = [stale |-> 0, total |-> Cardinality(Indexed)]
          BY <2>1, <4>2 DEF Recovered
        <5> QED BY <4>2, <5>1
      <4>3. CASE created /\ sidecar # Missing
        <5>1. ~drifted
          BY <1>1, <4>3
        <5>2. sidecar[1].total = Cardinality(Indexed)
          <6>1. Accounts
            BY DEF StoreInv
          <6> QED BY <1>9, <4>3, <5>1, <6>1 DEF Accounts
        <5>3. Recovered(sidecar) = [stale |-> sidecar[1].stale, total |-> sidecar[1].total]
          BY <1>6, <4>3, <5>2 DEF Recovered
        <5>4. stats' = sidecar[1]
          BY <2>1, <2>2, <4>3, <5>3 DEF CountersOK
        <5> QED BY <2>2, <4>3, <5>2, <5>4
      <4> QED BY <4>1, <4>2, <4>3
    <3>2. TotalsFit'
      BY <1>4, <1>6, <3>1 DEF TotalsFit
    <3> QED BY <1>1, <2>1, <3>1, <3>2 DEF Accounts, Missing
  <2> QED BY <1>2, <1>7, <2>5, <2>6, <2>7 DEF StoreInv
<1> QED BY <1>8, <1>9

\* A write is done: what it gained is counted, and nothing is owed any more.
LEMMA CountsFits ==
  ASSUME StoreInv, NEW c \in Calls, Counts(c), Settling(c),
         UNCHANGED <<rows, created, life, opened, timer, drifted>>
  PROVE  /\ PromiseInv' /\ CallsFit' /\ OpeningOK'
         /\ Writing = {c} /\ Writing' = {} /\ ~NeverOpened
         /\ created /\ life # "new" /\ CountersOK(stats')
         /\ ~drifted => TotalsFit'
         /\ Indexed' = Indexed
<1>1. call[c].step = "adding" /\ call[c].add = 0
      /\ stats' = [stale |-> stats.stale + call[c].gain.stale,
                   total |-> stats.total + call[c].gain.total]
  BY DEF Counts
<1>2. /\ PromiseInv' /\ CallsFit'
      /\ Writing' = Writing \ {c} /\ Pending' = Pending \ {c}
      /\ \A d \in Calls \ {c} : call'[d].kind = call[d].kind
  BY <1>1, LeavingFits
<1>3. call[c].kind \in Writes
  BY <1>1 DEF StoreInv, CallsFit
<1>4. Writing = {c} /\ Writing' = {}
  <2>1. Writing = {c}
    BY <1>1, <1>3, OneWritingAlone DEF StoreInv
  <2> QED BY <1>2, <2>1
<1>5. ~NeverOpened
  BY <1>4 DEF NeverOpened
<1>6. life # "new" /\ \A d \in Pending : call[d].kind # "initialize"
  BY <1>5 DEF StoreInv, OpeningOK
<1>7. Indexed' = Indexed
  BY DEF Indexed
<1>8. created /\ (call[c].kind = "upsert" => call[c].files \subseteq Indexed)
  <2>1. CASE call[c].kind = "upsert"
    <3>1. call[c].files \subseteq Indexed /\ \E f \in Files : call[c].files = {f}
      BY <1>1, <2>1 DEF StoreInv, CallsFit
    <3>2. Indexed # {} => created
      BY DEF StoreInv, StateOK
    <3> QED BY <3>1, <3>2
  <2>2. CASE call[c].kind # "upsert"
    BY <1>1, <2>2 DEF StoreInv, CallsFit
  <2> QED BY <2>1, <2>2
<1>9. CountedAfter(c) = Indexed
  BY <1>8 DEF CountedAfter
<1>10. ~drifted => TotalsFit'
  <2> SUFFICES ASSUME ~drifted PROVE TotalsFit'
    OBVIOUS
  <2>1. TotalsFit
    BY <1>5 DEF StoreInv, Accounts
  <2>2. stats'.total = Cardinality(Indexed)
    BY <1>1, <1>4, <1>9, <2>1 DEF TotalsFit
  <2> QED BY <1>4, <1>7, <2>2 DEF TotalsFit
<1>11. CountersOK(stats')
  <2>1. stats.total \in Int /\ call[c].gain.total \in Int
    BY DEF StoreInv, StateOK, CountersOK, PromiseInv, CallsOK, CallOK
  <2> DEFINE stale == stats.stale + call[c].gain.stale
             total == stats.total + call[c].gain.total
  <2>2. stats' = [stale |-> stale, total |-> total]
    BY <1>1
  <2>3. total \in Int
    BY <2>1
  <2> HIDE DEF stale, total
  <2> QED BY <2>2, <2>3 DEF CountersOK
<1>12. OpeningOK'
  BY <1>2, <1>6 DEF OpeningOK, Pending
<1> QED BY <1>2, <1>4, <1>5, <1>6, <1>7, <1>8, <1>10, <1>11, <1>12

LEMMA RecordsKeeps ==
  ASSUME StoreInv, NEW c \in Calls, Records(c)
  PROVE  StoreInv'
<1>1. /\ Counts(c) /\ Settling(c) /\ sidecar' = <<stats'>> /\ behind' = FALSE
      /\ UNCHANGED <<rows, created, life, opened, timer, drifted, cuts>>
  BY DEF Records
<1>2. /\ PromiseInv' /\ CallsFit' /\ OpeningOK'
      /\ created /\ life # "new" /\ CountersOK(stats')
      /\ ~drifted => TotalsFit'
      /\ Indexed' = Indexed
  BY <1>1, CountsFits
<1>3. StateOK'
  BY <1>1, <1>2 DEF StoreInv, StateOK
<1>4. Accounts'
  BY <1>1, <1>2 DEF Accounts
<1>5. CutsFit'
  BY <1>1 DEF CutsFit, Missing
<1> QED BY <1>2, <1>3, <1>4, <1>5 DEF StoreInv

LEMMA FailsToRecordKeeps ==
  ASSUME StoreInv, NEW c \in Calls, FailsToRecord(c)
  PROVE  StoreInv'
<1>1. /\ Counts(c) /\ Settling(c) /\ behind' = TRUE
      /\ cuts' = IF sidecar = Missing /\ call[c].kind \in {"upsert", "delete"} THEN cuts + 1 ELSE cuts
      /\ UNCHANGED <<rows, created, sidecar, life, opened, timer, drifted>>
  BY DEF FailsToRecord, disk
<1>2. /\ PromiseInv' /\ CallsFit' /\ OpeningOK'
      /\ Writing = {c} /\ Writing' = {}
      /\ created /\ life # "new" /\ CountersOK(stats')
      /\ ~drifted => TotalsFit'
      /\ Indexed' = Indexed
  BY <1>1, CountsFits
<1>3. StateOK'
  BY <1>1, <1>2 DEF StoreInv, StateOK, Missing
<1>4. Accounts'
  BY <1>1, <1>2 DEF Accounts
<1>5. CutsFit'
  <2> SUFFICES ASSUME sidecar = Missing, created PROVE CutsFit'
    BY <1>1 DEF CutsFit, Missing
  <2>1. cuts \in Nat
    BY DEF StoreInv, StateOK
  <2>2. CutsFit
    BY DEF StoreInv
  <2>3. CASE call[c].kind \in {"upsert", "delete"}
    <3>1. cuts' = cuts + 1
      BY <1>1, <2>3
    <3>2. Indexed = {} => cuts >= 1
      BY <2>1, <2>2 DEF CutsFit
    <3> QED BY <1>1, <1>2, <2>1, <3>1, <3>2 DEF CutsFit
  <2>4. CASE call[c].kind \notin {"upsert", "delete"}
    <3>1. cuts' = cuts
      BY <1>1, <2>4
    <3> QED BY <1>2, <2>2, <2>4, <3>1 DEF CutsFit
  <2> QED BY <2>3, <2>4
<1> QED BY <1>2, <1>3, <1>4, <1>5 DEF StoreInv

\* A call that fails before its end, or loses its tables.
LEMMA CutKeeps ==
  ASSUME StoreInv, NEW c \in Calls, Fails(c) \/ LosesTables(c)
  PROVE  StoreInv'
<1>1. /\ call[c].step \in {"running", "adding"} /\ Settling(c) /\ CutShort({c})
      /\ UNCHANGED <<rows, created, sidecar, life, opened, stats, timer, behind>>
  BY DEF Fails, LosesTables, disk, memory
<1>2. /\ PromiseInv' /\ CallsFit'
      /\ Writing' = Writing \ {c} /\ Pending' = Pending \ {c}
      /\ \A d \in Calls \ {c} : /\ call'[d].step = call[d].step
                                /\ call'[d].kind = call[d].kind
                                /\ call'[d].files = call[d].files
                                /\ call'[d].gain = call[d].gain
  BY <1>1, LeavingFits
<1>3. Indexed' = Indexed
  BY <1>1 DEF Indexed
<1>4. Cut({c}) = IF call[c].step = "adding" /\ call[c].kind \in {"upsert", "delete"}
                 THEN {c} ELSE {}
  BY DEF Cut
<1>5. cuts \in Nat /\ CutsFit /\ Accounts /\ drifted \in BOOLEAN
  BY DEF StoreInv, StateOK
<1>6. StateOK'
  BY <1>1, <1>3, <1>5 DEF StoreInv, StateOK, CutShort, Missing, NoCounters, CountersOK
<1>7. NeverOpened => NeverOpened'
  BY <1>1, <1>2 DEF NeverOpened, NoCounters
<1>8. OpeningOK'
  BY <1>1, <1>2, <1>7 DEF StoreInv, OpeningOK, Pending
<1>9. CASE call[c].step = "adding" /\ call[c].kind \in {"upsert", "delete"}
  <2>1. drifted' = TRUE
    BY <1>1, <1>4, <1>9 DEF CutShort
  <2>2. Accounts'
    BY <2>1 DEF Accounts
  <2>3. sidecar = Missing => cuts' = cuts + 1
    BY <1>1, <1>4, <1>9 DEF CutShort
  <2>4. CutsFit'
    <3> SUFFICES ASSUME sidecar = Missing, created PROVE CutsFit'
      BY <1>1 DEF CutsFit, Missing
    <3>1. Indexed = {} => cuts >= 1
      BY <1>5 DEF CutsFit
    <3> QED BY <1>3, <1>5, <2>3, <3>1 DEF CutsFit
  <2> QED BY <1>2, <1>6, <1>8, <2>2, <2>4 DEF StoreInv
<1>10. CASE ~(call[c].step = "adding" /\ call[c].kind \in {"upsert", "delete"})
  <2>1. drifted' = drifted /\ cuts' = cuts
    BY <1>1, <1>4, <1>5, <1>10 DEF CutShort
  <2>2. \A d \in Writing : call[d].kind \in {"upsert", "delete"} => d \in Writing' /\ d # c
    BY <1>2, <1>10 DEF Writing
  <2>3. CutsFit'
    <3> SUFFICES ASSUME sidecar = Missing, created PROVE CutsFit'
      BY <1>1 DEF CutsFit, Missing
    <3>1. \A d \in Writing : call[d].kind \in {"upsert", "delete"} =>
            d \in Writing' /\ call'[d].kind = call[d].kind
      BY <1>2, <2>2 DEF Writing
    <3> QED BY <1>3, <1>5, <2>1, <3>1 DEF CutsFit
  <2>4. Accounts'
    <3> SUFFICES ASSUME ~drifted PROVE Accounts'
      BY <2>1 DEF Accounts
    <3>1. CASE NeverOpened /\ (sidecar = Missing \/ sidecar[1].total = Cardinality(Indexed))
      BY <1>1, <1>3, <1>7, <3>1 DEF Accounts, Missing
    <3>2. CASE life # "new" /\ TotalsFit /\ (behind \/ sidecar \in {Missing, <<stats>>})
      <4>1. TotalsFit'
        <5>1. CASE call[c].step = "adding"
          <6>1. call[c].kind \in {"compact", "optimize"} /\ call[c].gain.total = 0
                /\ call[c].kind \in Writes
            BY <1>10, <5>1 DEF StoreInv, CallsFit, Writes
          <6>2. Writing = {c} /\ Writing' = {}
            <7>1. Writing = {c}
              BY <5>1, <6>1, OneWritingAlone DEF StoreInv
            <7> QED BY <1>2, <7>1
          <6>3. CountedAfter(c) = Indexed
            BY <6>1 DEF CountedAfter
          <6>4. Cardinality(Indexed) = stats.total + 0 /\ stats.total \in Int
            BY <3>2, <6>1, <6>2, <6>3 DEF TotalsFit, StoreInv, StateOK, CountersOK
          <6> QED BY <1>1, <1>3, <6>2, <6>4 DEF TotalsFit
        <5>2. CASE call[c].step # "adding"
          <6>1. Writing' = Writing /\ c \notin Writing
            BY <1>2, <5>2 DEF Writing
          <6>2. \A d \in Writing : CountedAfter(d)' = CountedAfter(d)
                                   /\ call'[d].gain = call[d].gain
            BY <1>2, <1>3, <6>1 DEF CountedAfter, Writing
          <6> QED BY <1>1, <1>3, <3>2, <6>1, <6>2 DEF TotalsFit
        <5> QED BY <5>1, <5>2
      <4> QED BY <1>1, <3>2, <4>1 DEF Accounts, Missing
    <3> QED BY <1>5, <3>1, <3>2 DEF Accounts
  <2> QED BY <1>2, <1>6, <1>8, <2>3, <2>4 DEF StoreInv
<1> QED BY <1>9, <1>10

\* close(), by its two steps.
LEMMA CloseKeeps ==
  ASSUME StoreInv, Close \/ \E expired \in BOOLEAN : Releases(expired)
  PROVE  StoreInv'
<1>1. /\ UNCHANGED promises
      /\ UNCHANGED <<rows, created, sidecar, stats, drifted, behind, cuts>>
      /\ life' \in {"closing", "closed"} /\ opened' \in {opened, "none"}
      /\ timer' \in {timer, "none"}
  BY DEF Close, Releases, disk, history
<1>2. call' = call /\ Pending' = Pending /\ Writing' = Writing
  BY <1>1 DEF promises, Pending, Writing
<1>3. PromiseInv'
  BY <1>1, RestKeeps DEF StoreInv
<1>4. Indexed' = Indexed
  BY <1>1 DEF Indexed
<1>5. StateOK'
  BY <1>1, <1>4 DEF StoreInv, StateOK, Missing, NoCounters, CountersOK
<1>6. CallsFit'
  BY <1>1, <1>2, <1>4 DEF StoreInv, CallsFit
<1>7. NeverOpened => NeverOpened'
  BY <1>1, <1>2 DEF NeverOpened, NoCounters
<1>8. OpeningOK'
  BY <1>1, <1>2, <1>7 DEF StoreInv, OpeningOK
<1>9. TotalsFit => TotalsFit'
  <2>1. \A c \in Writing : CountedAfter(c)' = CountedAfter(c)
    BY <1>2, <1>4 DEF CountedAfter
  <2> QED BY <1>1, <1>2, <1>4, <2>1 DEF TotalsFit
<1>10. Accounts'
  BY <1>1, <1>4, <1>7, <1>9 DEF StoreInv, Accounts, Missing
<1>11. CutsFit'
  BY <1>1, <1>2, <1>4 DEF StoreInv, CutsFit, Missing
<1> QED BY <1>3, <1>5, <1>6, <1>8, <1>10, <1>11 DEF StoreInv

\* A new process: what the old one had counted but not recorded has drifted.
LEMMA RestartKeeps ==
  ASSUME StoreInv, Restart
  PROVE  StoreInv'
<1>1. /\ UNCHANGED <<rows, created, sidecar>>
      /\ drifted' = (drifted \/ Cut(Calls) # {} \/ behind) /\ behind' = FALSE
      /\ cuts' = IF Cut(Calls) # {} /\ sidecar = Missing THEN cuts + 1 ELSE cuts
      /\ life' = "new" /\ opened' = "none" /\ stats' = NoCounters /\ timer' = "none"
      /\ call' = [c \in Calls |-> Settled] /\ tail' = NoCall
  BY DEF Restart, disk
<1>2. \A c \in Calls : call'[c] = Settled /\ call'[c].step = "settled"
                       /\ call'[c].kind = "none" /\ call'[c].add = 0
  BY <1>1 DEF Settled
<1>3. PromiseInv' /\ Pending' = {}
  <2>1. CallOK(Settled)
    BY DEF Settled, CallOK, Kinds, Steps, NoCounters
  <2>2. CallsOK' /\ AllGone
    BY <1>1, <2>1 DEF CallsOK, AllGone
  <2> QED BY <2>2, GoneKeeps
<1>4. Indexed' = Indexed
  BY <1>1 DEF Indexed
<1>5. Writing' = {}
  BY <1>2 DEF Writing
<1>6. CallsFit'
  BY <1>2 DEF CallsFit
<1>7. /\ cuts \in Nat /\ StateOK /\ Accounts /\ CutsFit /\ drifted \in BOOLEAN
      /\ behind \in BOOLEAN
  BY DEF StoreInv, StateOK
<1>8. StateOK'
  <2>1. CountersOK(NoCounters)
    BY DEF CountersOK, NoCounters
  <2>2. cuts' \in Nat /\ drifted' \in BOOLEAN
    BY <1>1, <1>7
  <2> QED BY <1>1, <1>4, <1>7, <2>1, <2>2 DEF StateOK, Missing, NoCounters
<1>9. NeverOpened'
  BY <1>1, <1>5 DEF NeverOpened, NoCounters
<1>10. OpeningOK'
  BY <1>3, <1>9 DEF OpeningOK
<1>11. Accounts'
  <2> SUFFICES ASSUME ~drifted' PROVE Accounts'
    BY DEF Accounts
  <2>1. ~drifted /\ Cut(Calls) = {} /\ ~behind
    BY <1>1, <1>7
  <2>2. sidecar = Missing \/ sidecar[1].total = Cardinality(Indexed)
    <3>1. CASE NeverOpened
      <4>1. ASSUME TotalsFit, sidecar = <<stats>> PROVE sidecar[1].total = Cardinality(Indexed)
        BY <3>1, <4>1 DEF TotalsFit, NeverOpened
      <4> QED BY <1>7, <2>1, <4>1 DEF Accounts
    <3>2. CASE ~NeverOpened
      <4>1. TotalsFit /\ sidecar \in {Missing, <<stats>>}
        BY <1>7, <2>1, <3>2 DEF Accounts
      <4>2. stats.total = Cardinality(Indexed)
        <5>1. CASE Writing = {}
          BY <4>1, <5>1 DEF TotalsFit
        <5>2. CASE Writing # {}
          <6>1. PICK c \in Writing : TRUE
            BY <5>2
          <6>2. call[c].step = "adding" /\ c \in Calls /\ call[c].kind \notin {"upsert", "delete"}
            BY <2>1, <6>1 DEF Cut, Writing
          <6>3. call[c].kind \in {"compact", "optimize"} /\ call[c].gain.total = 0
            BY <6>2 DEF StoreInv, CallsFit, Writes
          <6>4. Cardinality(Indexed) = stats.total + 0
            BY <4>1, <6>1, <6>3 DEF TotalsFit, CountedAfter
          <6> QED BY <1>7, <6>4 DEF StateOK, CountersOK
        <5> QED BY <5>1, <5>2
      <4> QED BY <4>1, <4>2
    <3> QED BY <3>1, <3>2
  <2> QED BY <1>1, <1>4, <1>9, <2>2 DEF Accounts, Missing
<1>12. CutsFit'
  <2> SUFFICES ASSUME sidecar = Missing, created PROVE CutsFit'
    BY <1>1 DEF CutsFit, Missing
  <2>1. CASE Cut(Calls) # {}
    <3>1. cuts' = cuts + 1
      BY <1>1, <2>1
    <3>2. Indexed = {} => cuts >= 1
      BY <1>7 DEF CutsFit
    <3> QED BY <1>4, <1>7, <3>1, <3>2 DEF CutsFit
  <2>2. CASE Cut(Calls) = {}
    <3>1. \A c \in Writing : call[c].kind \notin {"upsert", "delete"}
      BY <2>2 DEF Cut, Writing
    <3>2. cuts' = cuts
      BY <1>1, <2>2
    <3> QED BY <1>4, <1>7, <3>1, <3>2 DEF CutsFit
  <2> QED BY <2>1, <2>2
<1> QED BY <1>3, <1>6, <1>8, <1>10, <1>11, <1>12 DEF StoreInv

LEMMA StoreInitially == Init => StoreInv
<1> SUFFICES ASSUME Init PROVE StoreInv
  OBVIOUS
<1>1. PromiseInv
  BY PromiseInitially
<1>2. \A c \in Calls : call[c].step = "settled" /\ call[c].kind = "none" /\ call[c].add = 0
  BY DEF Init, Settled
<1>3. Pending = {} /\ Writing = {} /\ Indexed = {}
  BY <1>2 DEF Pending, Writing, Indexed, Init
<1>4. StateOK
  <2>1. CountersOK(NoCounters)
    BY DEF CountersOK, NoCounters
  <2>2. rows \in [Files -> 0 .. MaxRows]
    BY StoreBoundsAssumption DEF Init
  <2>3. /\ life = "new" /\ opened = "none" /\ timer = "none" /\ created = FALSE
        /\ drifted = FALSE /\ behind = FALSE /\ cuts = 0 /\ stats = NoCounters
        /\ sidecar = Missing
    BY DEF Init
  <2> QED BY <1>3, <2>1, <2>2, <2>3 DEF StateOK
<1>5. CallsFit
  BY <1>2 DEF CallsFit
<1>6. NeverOpened
  BY <1>3 DEF Init, NeverOpened
<1> QED BY <1>1, <1>3, <1>4, <1>5, <1>6 DEF StoreInv, OpeningOK, Accounts, CutsFit, Init

LEMMA StoreStep == StoreInv /\ [Next]_vars => StoreInv'
<1> SUFFICES ASSUME StoreInv, [Next]_vars PROVE StoreInv'
  OBVIOUS
<1>1. ASSUME NEW c \in Calls, BodyStep(c) PROVE StoreInv'
  BY <1>1, QuietLeaves, CommitsKeeps, ReplacesKeeps, AddsKeeps, RemovesKeeps, CompactsKeeps,
     RecordsKeeps, FailsToRecordKeeps, CutKeeps DEF BodyStep
<1> QED BY <1>1, CallMadeKeeps, TurnKeeps, TimersKeep, CloseKeeps, RestartKeeps DEF Next

\* Whatever calls, failures, restarts and forced ends there are: in a store that
\* is open and has no write under way, the counter of files is the number of
\* files with rows, unless a write was cut short or its record was lost with the
\* process; and metadata.json says what memory says.
THEOREM CountersAlwaysMatch == Spec => []CountersMatchRows
<1>1. StoreInv => CountersMatchRows
  <2> SUFFICES ASSUME StoreInv, life = "open", Writing = {}, ~drifted
               PROVE  /\ stats.total = Cardinality(Indexed)
                      /\ behind \/ sidecar \in {Missing, <<stats>>}
    BY DEF CountersMatchRows
  <2>1. TotalsFit /\ (behind \/ sidecar \in {Missing, <<stats>>})
    BY DEF StoreInv, Accounts, NeverOpened
  <2> QED BY <2>1 DEF TotalsFit
<1> QED BY <1>1, StoreInitially, StoreStep, PTL DEF Spec

\* One write that is cut short leaves a store that can be opened again.
THEOREM OneCutIsHarmless == Spec => []OneCutStaysReadable
<1>1. StoreInv => OneCutStaysReadable
  <2> SUFFICES ASSUME StoreInv, Pending = {}, ~Readable PROVE cuts >= 2
    BY DEF OneCutStaysReadable
  <2>1. Writing = {}
    BY DEF Pending, Writing
  <2>2. sidecar = Missing /\ created /\ Indexed = {}
    BY DEF Readable
  <2> QED BY <2>1, <2>2 DEF StoreInv, CutsFit
<1> QED BY <1>1, StoreInitially, StoreStep, PTL DEF Spec

\* The state of the store is well typed; no file has more rows than were given
\* for it, and a call waits for a pending one or for nobody.
THEOREM VectorTyped == Spec => []VectorTypeOK
<1>1. StoreInv => VectorTypeOK
  <2> SUFFICES ASSUME StoreInv PROVE VectorTypeOK
    OBVIOUS
  <2>1. \A c \in Pending : call[c].after \in (Pending \ {c}) \cup {NoCall}
    <3> SUFFICES ASSUME NEW c \in Pending, call[c].after # NoCall
                 PROVE  call[c].after \in Pending \ {c}
      OBVIOUS
    <3>1. c \in Calls /\ call[c].after \in Before(c)
      BY BeforeIsChained DEF Pending, StoreInv, PromiseInv
    <3> QED BY <3>1 DEF StoreInv, PromiseInv, WritesPending
  <2> QED BY <2>1 DEF StoreInv, StateOK, PromiseInv, CallsOK, VectorTypeOK
<1> QED BY <1>1, StoreInitially, StoreStep, PTL DEF Spec
=============================================================================
