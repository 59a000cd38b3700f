---------------------- MODULE StructuredRetrieval_proofs ----------------------
(***************************************************************************)
(* Proofs about StructuredRetrieval, for every set of files, generations,  *)
(* names and spans and whatever contents declare, contain and import: what *)
(* a call answers was true while it was under way, though no transaction   *)
(* spans its queries.  What the catalog's own methods do to its tables is  *)
(* proved in StructuredCatalog_proofs.                                     *)
(***************************************************************************)
EXTENDS StructuredRetrieval, StructuredCatalog_proofs

\* The steps at which a call knows the generation it serves from.
AfterResolving == {"read", "generation", "recheck", "declarations", "confirm"}
AfterSymbol == {"file", "file generation", "slice", "imports"}

\* The two kinds of calls keep to their steps.
StepsMatch ==
  /\ call.op = "outline" \/ call.name \in Names
  /\ call.step \in {"resolve"} \cup AfterResolving => call.op = "outline"
  /\ call.step \in {"pending", "symbol", "tombstone"} \cup AfterSymbol => call.op # "outline"

\* What is active now has been seen, and so has what was resolved, which is
\* still active unless the file was switched.
Current == ~Answered => active[call.file] \in seen
Seen(g) == g \in Generations /\ g \in seen
Holds(g) == switches = 0 => active[call.file] = g

OutlineInv ==
  /\ call.step \in AfterResolving => Seen(call.gen) /\ Holds(call.gen)
  /\ call.step \in {"declarations", "confirm"} => call.content = call.gen
  /\ call.step = "confirm" =>
       \/ call.symbols = {call.file} \X Declares[call.gen]
       \/ switches = 2
       \/ switches = 1 /\ active[call.file] # call.gen

SymbolInv ==
  /\ call.step \in AfterSymbol =>
       Seen(call.gen) /\ Holds(call.gen) /\ call.name \in Declares[call.gen]
  /\ call.step \in AfterSymbol \ {"file"} =>
       Seen(call.fileGen) /\ (switches = 0 => call.fileGen = call.gen)
  /\ call.step = "imports" =>
       call.content = call.fileGen /\ Body[call.gen][call.name] \in SpansIn[call.content]

CallInv == StepsMatch /\ Current /\ OutlineInv /\ SymbolInv /\ AnswersExact

RetrievalInv == CatalogInv /\ RetrievalTypeOK /\ CallInv

-----------------------------------------------------------------------------
\* The parts of RetrievalTypeOK that are about the readers only.
Answers == {"none", "ok", "not_served", "missing", "incomplete", "stale", "retired"}

Calls ==
  [op : Operations, file : Files, name : MaybeName, step : Steps, gen : MaybeGeneration,
   fileGen : MaybeGeneration, content : MaybeGeneration,
   symbols : SUBSET (Files \X Names), imports : SUBSET Spans, retried : BOOLEAN,
   answer : Answers]

ReadersTyped ==
  /\ disk \in [Files -> MaybeGeneration]
  /\ schema \in BOOLEAN
  /\ state \in {"idle", "building", "failed"}
  /\ call \in Calls
  /\ seen \subseteq MaybeGeneration
  /\ switches \in 0 .. 2

LEMMA TypesSplit == RetrievalTypeOK <=> CatalogTypeOK /\ ReadersTyped
BY DEF RetrievalTypeOK, ReadersTyped, Calls, Answers

\* A call that begins or begins again.
LEMMA NewCallType ==
  ASSUME NEW op \in Operations, NEW f \in Files, NEW n \in MaybeName
  PROVE  /\ NewCall(op, f, n) \in Calls
         /\ NewCall(op, f, n).op = op /\ NewCall(op, f, n).file = f
         /\ NewCall(op, f, n).name = n /\ NewCall(op, f, n).step = "state"
BY DEF NewCall, Calls, Answers, Steps, MaybeGeneration

\* A call that goes on changes its step only.
LEMMA ContinueType ==
  ASSUME NEW c \in Calls, NEW s \in Steps
  PROVE  /\ [c EXCEPT !.step = s] \in Calls
         /\ [c EXCEPT !.step = s].step = s
         /\ \A x \in {"op", "file", "name", "gen", "fileGen", "content", "symbols", "imports",
                      "retried", "answer"} : [c EXCEPT !.step = s][x] = c[x]
BY DEF Calls

LEMMA ServeType ==
  ASSUME NEW c \in Calls, Serve(c)
  PROVE  /\ call' \in Calls
         /\ call'.step = "answered" /\ call'.answer = "ok" /\ call'.op = c.op
         /\ call'.file = c.file /\ call'.name = c.name /\ call'.gen = c.gen
         /\ call'.fileGen = c.fileGen /\ call'.content = c.content
         /\ call'.symbols = c.symbols /\ call'.imports = c.imports
         /\ UNCHANGED switches
BY DEF Calls, Serve, Steps, Answers
\* A call that is refused is over, and one that is tried again starts anew.
LEMMA RefusalKeeps ==
  ASSUME ReadersTyped, CallInv, NEW a \in Answers, a # "ok", Refuse(a),
         UNCHANGED <<catalogVars, disk, schema, state, seen>>
  PROVE  ReadersTyped' /\ CallInv'
<1> DEFINE c == NewCall(call.op, call.file, call.name)
<1>1. call.op \in Operations /\ call.file \in Files /\ call.name \in MaybeName
  BY DEF ReadersTyped, Calls
<1>2. c \in Calls /\ c.op = call.op /\ c.name = call.name
  BY <1>1, NewCallType
<1>3. call' = [c EXCEPT !.step = "answered", !.answer = a] /\ switches' = switches
  BY DEF Refuse
<1> HIDE DEF c
<1>4. /\ call' \in Calls /\ call'.op = call.op /\ call'.name = call.name
      /\ call'.step = "answered" /\ call'.answer # "ok"
  BY <1>2, <1>3 DEF Calls, Steps
<1>5. ReadersTyped'
  BY <1>3, <1>4 DEF ReadersTyped
<1>6. StepsMatch' /\ Current' /\ OutlineInv' /\ SymbolInv'
  BY <1>4 DEF CallInv, StepsMatch, Current, Answered, OutlineInv, SymbolInv, AfterResolving,
              AfterSymbol
<1>7. AnswersExact'
  BY <1>4 DEF AnswersExact, OutlineExact, SourceExact, ContextExact, Served
<1> QED  BY <1>5, <1>6, <1>7 DEF CallInv

LEMMA RetryKeeps ==
  ASSUME ReadersTyped, CallInv, call.step \in AfterResolving, Retry,
         UNCHANGED <<catalogVars, disk, schema, state, seen>>
  PROVE  ReadersTyped' /\ CallInv'
<1> DEFINE c == NewCall(call.op, call.file, call.name)
<1>1. call.op \in Operations /\ call.file \in Files /\ call.name \in MaybeName
  BY DEF ReadersTyped, Calls
<1>2. c \in Calls /\ c.op = call.op /\ c.name = call.name /\ c.file = call.file
  BY <1>1, NewCallType
<1>3. call' = [c EXCEPT !.step = "resolve", !.retried = TRUE] /\ switches' = 0
  BY DEF Retry
<1> HIDE DEF c
<1>4. /\ call' \in Calls /\ call'.op = call.op /\ call'.name = call.name
      /\ call'.file = call.file /\ call'.step = "resolve"
  BY <1>2, <1>3 DEF Calls, Steps
<1>5. ReadersTyped'
  BY <1>3, <1>4 DEF ReadersTyped
<1>6. StepsMatch' /\ Current' /\ OutlineInv' /\ SymbolInv'
  BY <1>4 DEF CallInv, StepsMatch, Current, Answered, OutlineInv, SymbolInv, AfterResolving,
              AfterSymbol, catalogVars
<1>7. AnswersExact'
  BY <1>4 DEF AnswersExact, OutlineExact, SourceExact, ContextExact, Served, Answered
<1> QED  BY <1>5, <1>6, <1>7 DEF CallInv

LEMMA RetryOrRefusalKeeps ==
  ASSUME ReadersTyped, CallInv, call.step \in AfterResolving,
         NEW a \in Answers, a # "ok", RetryOr(a),
         UNCHANGED <<catalogVars, disk, schema, state, seen>>
  PROVE  ReadersTyped' /\ CallInv'
BY RetryKeeps, RefusalKeeps DEF RetryOr

-----------------------------------------------------------------------------
\* checkGlobalState(), and the steps of getFileOutline().
LEMMA ChecksStateKeeps ==
  ASSUME ReadersTyped, CallInv, ChecksState,
         UNCHANGED <<catalogVars, disk, schema, state, seen>>
  PROVE  ReadersTyped' /\ CallInv'
<1>1. CASE ~(schema /\ state = "idle")
  <2>1. Refuse("not_served")
    BY <1>1 DEF ChecksState
  <2> QED  BY <2>1, RefusalKeeps DEF Answers
<1>2. CASE schema /\ state = "idle"
  <2>1. PICK s \in {"resolve", "pending"} :
          Continue(call, s) /\ s = IF call.op = "outline" THEN "resolve" ELSE "pending"
    BY <1>2 DEF ChecksState
  <2>2. call \in Calls /\ s \in Steps
    BY DEF ReadersTyped, Steps
  <2>3. call' = [call EXCEPT !.step = s] /\ switches' = switches
    BY <2>1 DEF Continue
  <2>4. /\ call' \in Calls /\ call'.step = s /\ call'.op = call.op /\ call'.file = call.file
        /\ call'.name = call.name
    BY <2>2, <2>3 DEF Calls
  <2>5. ReadersTyped'
    BY <2>3, <2>4 DEF ReadersTyped
  <2>6. StepsMatch' /\ Current' /\ OutlineInv' /\ SymbolInv'
    BY <2>1, <2>4 DEF CallInv, StepsMatch, Current, Answered, OutlineInv, SymbolInv,
                      AfterResolving, AfterSymbol, catalogVars, ChecksState
  <2>7. AnswersExact'
    BY <2>4 DEF AnswersExact, OutlineExact, SourceExact, ContextExact, Served, Answered
  <2> QED  BY <2>5, <2>6, <2>7 DEF CallInv
<1> QED  BY <1>1, <1>2

LEMMA ResolvesKeeps ==
  ASSUME CatalogTypeOK, ReadersTyped, CallInv, Resolves,
         UNCHANGED <<catalogVars, disk, schema, state, seen>>
  PROVE  ReadersTyped' /\ CallInv'
<1>1. CASE active[call.file] = None
  <2>1. Refuse("incomplete") \/ Refuse("missing")
    BY <1>1 DEF Resolves
  <2> QED  BY <2>1, RefusalKeeps DEF Answers
<1>2. CASE active[call.file] # None
  <2>1. call \in Calls /\ call.step = "resolve" /\ active[call.file] \in Generations
    BY <1>2 DEF ReadersTyped, Resolves, CatalogTypeOK, Calls, MaybeGeneration
  <2>2. call' = [[call EXCEPT !.gen = active[call.file]] EXCEPT !.step = "read"]
        /\ switches' = switches
    BY <1>2 DEF Resolves, Continue
  <2>3. /\ call' \in Calls /\ call'.step = "read" /\ call'.op = call.op
        /\ call'.file = call.file /\ call'.name = call.name /\ call'.gen = active[call.file]
    BY <2>1, <2>2 DEF Calls, Steps, MaybeGeneration
  <2>4. ReadersTyped'
    BY <2>2, <2>3 DEF ReadersTyped
  <2>5. StepsMatch' /\ Current' /\ OutlineInv' /\ SymbolInv'
    BY <2>1, <2>2, <2>3
       DEF CallInv, StepsMatch, Current, Answered, OutlineInv, SymbolInv,
           AfterResolving, AfterSymbol, catalogVars, Seen, Holds
  <2>6. AnswersExact'
    BY <2>3 DEF AnswersExact, OutlineExact, SourceExact, ContextExact, Served, Answered
  <2> QED  BY <2>4, <2>5, <2>6 DEF CallInv
<1> QED  BY <1>1, <1>2

LEMMA ReadsKeeps ==
  ASSUME ReadersTyped, CallInv, Reads,
         UNCHANGED <<catalogVars, disk, schema, state, seen>>
  PROVE  ReadersTyped' /\ CallInv'
<1>1. CASE disk[call.file] = None
  BY <1>1, RefusalKeeps DEF Reads, Answers
<1>2. CASE disk[call.file] # None
  <2>1. call \in Calls /\ call.step = "read" /\ disk[call.file] \in MaybeGeneration
    BY <1>2 DEF ReadersTyped, Reads, Calls
  <2>2. call' = [[call EXCEPT !.content = disk[call.file]] EXCEPT !.step = "generation"]
        /\ switches' = switches
    BY <1>2 DEF Reads, Continue
  <2>3. /\ call' \in Calls /\ call'.step = "generation" /\ call'.op = call.op
        /\ call'.file = call.file /\ call'.name = call.name /\ call'.gen = call.gen
    BY <2>1, <2>2 DEF Calls, Steps
  <2>4. ReadersTyped'
    BY <2>2, <2>3 DEF ReadersTyped
  <2>5. StepsMatch' /\ Current' /\ OutlineInv' /\ SymbolInv'
    BY <2>1, <2>2, <2>3
       DEF CallInv, StepsMatch, Current, Answered, OutlineInv, SymbolInv,
           AfterResolving, AfterSymbol, catalogVars, Seen, Holds
  <2>6. AnswersExact'
    BY <2>3 DEF AnswersExact, OutlineExact, SourceExact, ContextExact, Served, Answered
  <2> QED  BY <2>4, <2>5, <2>6 DEF CallInv
<1> QED  BY <1>1, <1>2
LEMMA ReadsGenerationKeeps ==
  ASSUME ReadersTyped, CallInv, ReadsGeneration,
         UNCHANGED <<catalogVars, disk, schema, state, seen>>
  PROVE  ReadersTyped' /\ CallInv'
<1>0. call.step \in AfterResolving
  BY DEF ReadsGeneration, AfterResolving
<1>1. CASE <<call.file, call.gen>> \notin payload
  <2>1. RetryOr("incomplete")
    BY <1>1 DEF ReadsGeneration
  <2> QED  BY <1>0, <2>1, RetryOrRefusalKeeps DEF Answers
<1>2. CASE <<call.file, call.gen>> \in payload
  <2>1. PICK s \in {"declarations", "recheck"} :
          Continue(call, s) /\ (s = "declarations" => call.content = call.gen)
    BY <1>2 DEF ReadsGeneration
  <2>2. call \in Calls /\ call.step = "generation"
    BY DEF ReadersTyped, ReadsGeneration
  <2>3. call' = [call EXCEPT !.step = s] /\ switches' = switches
    BY <2>1 DEF Continue
  <2>4. /\ call' \in Calls /\ call'.step = s /\ call'.op = call.op /\ call'.file = call.file
        /\ call'.name = call.name /\ call'.gen = call.gen /\ call'.content = call.content
    BY <2>2, <2>3 DEF Calls, Steps
  <2>5. ReadersTyped'
    BY <2>3, <2>4 DEF ReadersTyped
  <2>6. StepsMatch' /\ Current' /\ SymbolInv'
    BY <2>1, <2>2, <2>4
       DEF CallInv, StepsMatch, Current, Answered, SymbolInv, AfterResolving, AfterSymbol,
           catalogVars
  <2>7. Seen(call.gen) /\ Holds(call.gen)
    BY <2>2 DEF CallInv, OutlineInv, AfterResolving
  <2>8. OutlineInv'
    BY <2>1, <2>3, <2>4, <2>7 DEF OutlineInv, AfterResolving, catalogVars, Seen, Holds
  <2>9. AnswersExact'
    BY <2>4 DEF AnswersExact, OutlineExact, SourceExact, ContextExact, Served, Answered
  <2> QED  BY <2>5, <2>6, <2>8, <2>9 DEF CallInv
<1> QED  BY <1>1, <1>2

LEMMA RechecksKeeps ==
  ASSUME ReadersTyped, CallInv, Rechecks,
         UNCHANGED <<catalogVars, disk, schema, state, seen>>
  PROVE  ReadersTyped' /\ CallInv'
<1>1. call.step \in AfterResolving /\ (RetryOr("stale") \/ Refuse("stale"))
  BY DEF Rechecks, AfterResolving
<1> QED  BY <1>1, RetryOrRefusalKeeps, RefusalKeeps DEF Answers

\* The declarations are those of the generation that was resolved, or it is not
\* the active one.
LEMMA ReadsDeclarationsKeeps ==
  ASSUME CatalogTypeOK, PayloadExact, ReadersTyped, CallInv, ReadsDeclarations,
         UNCHANGED <<catalogVars, disk, schema, state, seen>>
  PROVE  ReadersTyped' /\ CallInv'
<1> DEFINE rows == SymbolRows(call.file, active[call.file])
<1>1. /\ call \in Calls /\ call.step = "declarations" /\ call.file \in Files
      /\ switches \in 0 .. 2 /\ active[call.file] \in MaybeGeneration
  BY DEF ReadersTyped, ReadsDeclarations, Calls, CatalogTypeOK
<1>2. rows \in SUBSET (Files \X Names)
  BY <1>1, RowsDeclared
<1>3. Seen(call.gen) /\ Holds(call.gen) /\ call.content = call.gen
  BY <1>1 DEF CallInv, OutlineInv, AfterResolving
<1>4. active[call.file] = call.gen => rows = {call.file} \X Declares[call.gen]
  BY <1>1, <1>3, RowsAreDeclarations DEF Seen
<1>5. call' = [[call EXCEPT !.symbols = rows] EXCEPT !.step = "confirm"] /\ switches' = switches
  BY DEF ReadsDeclarations, Continue
<1> HIDE DEF rows
<1>6. /\ call' \in Calls /\ call'.step = "confirm" /\ call'.op = call.op
      /\ call'.file = call.file /\ call'.name = call.name /\ call'.gen = call.gen
      /\ call'.content = call.content /\ call'.symbols = rows
  BY <1>1, <1>2, <1>5 DEF Calls, Steps
<1>7. ReadersTyped'
  BY <1>5, <1>6 DEF ReadersTyped
<1>8. StepsMatch' /\ Current' /\ SymbolInv'
  BY <1>1, <1>5, <1>6
     DEF CallInv, StepsMatch, Current, Answered, SymbolInv, AfterResolving, AfterSymbol,
         catalogVars
<1>9. OutlineInv'
  BY <1>1, <1>3, <1>4, <1>5, <1>6 DEF OutlineInv, AfterResolving, catalogVars, Seen, Holds
<1>10. AnswersExact'
  BY <1>6 DEF AnswersExact, OutlineExact, SourceExact, ContextExact, Served, Answered
<1> QED  BY <1>7, <1>8, <1>9, <1>10 DEF CallInv

LEMMA ConfirmsKeeps ==
  ASSUME ReadersTyped, CallInv, Confirms,
         UNCHANGED <<catalogVars, disk, schema, state, seen>>
  PROVE  ReadersTyped' /\ CallInv'
<1>0. call \in Calls /\ call.step = "confirm" /\ call.step \in AfterResolving
  BY DEF Confirms, ReadersTyped, AfterResolving
<1>1. CASE active[call.file] # call.gen
  <2>1. RetryOr("stale")
    BY <1>1 DEF Confirms
  <2> QED  BY <1>0, <2>1, RetryOrRefusalKeeps DEF Answers
<1>2. CASE active[call.file] = call.gen
  <2>1. Serve(call)
    BY <1>2 DEF Confirms
  <2>2. /\ call' \in Calls /\ call'.step = "answered" /\ call'.op = call.op
        /\ call'.file = call.file /\ call'.name = call.name /\ call'.content = call.content
        /\ call'.symbols = call.symbols /\ switches' = switches
    BY <1>0, <2>1, ServeType
  <2>3. ReadersTyped'
    BY <2>2 DEF ReadersTyped
  <2>4. StepsMatch' /\ Current' /\ OutlineInv' /\ SymbolInv'
    BY <2>2 DEF CallInv, StepsMatch, Current, Answered, OutlineInv, SymbolInv, AfterResolving,
                AfterSymbol
  <2>5. Seen(call.gen) /\ call.content = call.gen
        /\ (call.symbols = {call.file} \X Declares[call.gen] \/ switches = 2)
    BY <1>0, <1>2 DEF CallInv, OutlineInv
  <2>6. call.op = "outline"
    BY <1>0 DEF CallInv, StepsMatch
  <2>7. AnswersExact'
    BY <2>2, <2>5, <2>6
       DEF AnswersExact, OutlineExact, SourceExact, ContextExact, Served, Answered, Seen
  <2> QED  BY <2>3, <2>4, <2>7 DEF CallInv
<1> QED  BY <1>1, <1>2
-----------------------------------------------------------------------------
\* The steps of verifySymbol() and of getImportsForSymbol().

\* A step that only goes on to the next one of a symbol's call, after a check.
LEMMA ContinueKeeps ==
  ASSUME ReadersTyped, CallInv, NEW c \in Calls, NEW s \in {"symbol", "tombstone"} \cup AfterSymbol,
         call.op # "outline", Continue(c, s),
         c.op = call.op, c.file = call.file, c.name = call.name,
         s \in AfterSymbol => Seen(c.gen) /\ Holds(c.gen) /\ c.name \in Declares[c.gen],
         s \in AfterSymbol \ {"file"} =>
           Seen(c.fileGen) /\ (switches = 0 => c.fileGen = c.gen),
         s = "imports" => c.content = c.fileGen /\ Body[c.gen][c.name] \in SpansIn[c.content],
         ~Answered,
         UNCHANGED <<catalogVars, disk, schema, state, seen>>
  PROVE  ReadersTyped' /\ CallInv'
<1>1. call' = [c EXCEPT !.step = s] /\ switches' = switches
  BY DEF Continue
<1>2. /\ call' \in Calls /\ call'.step = s /\ call'.op = call.op /\ call'.file = call.file
      /\ call'.name = call.name /\ call'.gen = c.gen /\ call'.fileGen = c.fileGen
      /\ call'.content = c.content
  BY <1>1 DEF Calls, Steps, AfterSymbol
<1>3. ReadersTyped'
  BY <1>1, <1>2 DEF ReadersTyped
<1>4. StepsMatch' /\ Current' /\ OutlineInv'
  BY <1>2 DEF CallInv, StepsMatch, Current, Answered, OutlineInv, AfterResolving, AfterSymbol,
              catalogVars
<1>5. SymbolInv'
  <2>1. ASSUME s \in AfterSymbol
        PROVE  (Seen(call.gen) /\ Holds(call.gen) /\ call.name \in Declares[call.gen])'
    BY <1>1, <1>2, <2>1 DEF catalogVars, Seen, Holds
  <2>2. ASSUME s \in AfterSymbol \ {"file"}
        PROVE  (Seen(call.fileGen) /\ (switches = 0 => call.fileGen = call.gen))'
    BY <1>1, <1>2, <2>2 DEF Seen
  <2>3. ASSUME s = "imports"
        PROVE  (call.content = call.fileGen
                  /\ Body[call.gen][call.name] \in SpansIn[call.content])'
    BY <1>2, <2>3
  <2> QED  BY <1>2, <2>1, <2>2, <2>3 DEF SymbolInv
<1>6. AnswersExact'
  BY <1>2 DEF AnswersExact, OutlineExact, SourceExact, ContextExact, Served, Answered, AfterSymbol
<1> QED  BY <1>3, <1>4, <1>5, <1>6 DEF CallInv

LEMMA ChecksPendingKeeps ==
  ASSUME ReadersTyped, CallInv, ChecksPending,
         UNCHANGED <<catalogVars, disk, schema, state, seen>>
  PROVE  ReadersTyped' /\ CallInv'
<1>1. CASE Symbol \in SymbolRows(call.file, pending[call.file])
  BY <1>1, RefusalKeeps DEF ChecksPending, Answers
<1>2. CASE Symbol \notin SymbolRows(call.file, pending[call.file])
  <2>1. call \in Calls /\ call.op # "outline" /\ ~Answered
    BY DEF ReadersTyped, CallInv, StepsMatch, ChecksPending, Answered
  <2>2. Continue(call, "symbol")
    BY <1>2 DEF ChecksPending
  <2> QED  BY <2>1, <2>2, ContinueKeeps DEF AfterSymbol
<1> QED  BY <1>1, <1>2

LEMMA ResolvesSymbolKeeps ==
  ASSUME CatalogTypeOK, PayloadExact, ReadersTyped, CallInv, ResolvesSymbol,
         UNCHANGED <<catalogVars, disk, schema, state, seen>>
  PROVE  ReadersTyped' /\ CallInv'
<1>1. call \in Calls /\ call.op # "outline" /\ ~Answered /\ active[call.file] \in seen
  BY DEF ReadersTyped, CallInv, StepsMatch, ResolvesSymbol, Answered, Current
<1>2. CASE Symbol \in ActiveSymbols
  <2> DEFINE c == [call EXCEPT !.gen = active[call.file]]
  <2>1. active[call.file] \in Generations /\ call.name \in Declares[active[call.file]]
    BY <1>2, ActiveIsLive DEF Live, Symbol
  <2>2. /\ c \in Calls /\ c.op = call.op /\ c.file = call.file /\ c.name = call.name
        /\ c.gen = active[call.file]
    BY <1>1, <2>1 DEF Calls, MaybeGeneration
  <2>3. Continue(c, "file")
    BY <1>2 DEF ResolvesSymbol
  <2>4. Seen(c.gen) /\ Holds(c.gen) /\ c.name \in Declares[c.gen]
    BY <1>1, <2>1, <2>2 DEF Seen, Holds
  <2> HIDE DEF c
  <2> QED  BY <1>1, <2>2, <2>3, <2>4, ContinueKeeps DEF AfterSymbol
<1>3. CASE Symbol \notin ActiveSymbols
  <2>1. Continue(call, "tombstone")
    BY <1>3 DEF ResolvesSymbol
  <2> QED  BY <1>1, <2>1, ContinueKeeps DEF AfterSymbol
<1> QED  BY <1>2, <1>3

LEMMA ChecksTombstoneKeeps ==
  ASSUME ReadersTyped, CallInv, ChecksTombstone,
         UNCHANGED <<catalogVars, disk, schema, state, seen>>
  PROVE  ReadersTyped' /\ CallInv'
<1>1. Refuse("retired") \/ Refuse("missing")
  BY DEF ChecksTombstone
<1> QED  BY <1>1, RefusalKeeps DEF Answers

LEMMA ResolvesFileKeeps ==
  ASSUME CatalogTypeOK, ReadersTyped, CallInv, ResolvesFile,
         UNCHANGED <<catalogVars, disk, schema, state, seen>>
  PROVE  ReadersTyped' /\ CallInv'
<1>1. CASE active[call.file] = None
  BY <1>1, RefusalKeeps DEF ResolvesFile, Answers
<1>2. CASE active[call.file] # None
  <2> DEFINE c == [call EXCEPT !.fileGen = active[call.file]]
  <2>1. /\ call \in Calls /\ call.op # "outline" /\ ~Answered
        /\ active[call.file] \in seen /\ active[call.file] \in Generations
        /\ Seen(call.gen) /\ Holds(call.gen) /\ call.name \in Declares[call.gen]
    BY <1>2 DEF ReadersTyped, CallInv, StepsMatch, ResolvesFile, Answered, Current, SymbolInv,
                AfterSymbol, CatalogTypeOK, MaybeGeneration, Calls
  <2>2. /\ c \in Calls /\ c.op = call.op /\ c.file = call.file /\ c.name = call.name
        /\ c.gen = call.gen /\ c.fileGen = active[call.file]
    BY <2>1 DEF Calls, MaybeGeneration
  <2>3. Continue(c, "file generation")
    BY <1>2 DEF ResolvesFile
  <2>4. Seen(c.fileGen) /\ (switches = 0 => c.fileGen = c.gen)
    BY <2>1, <2>2 DEF Seen, Holds
  <2>5. Seen(c.gen) /\ Holds(c.gen) /\ c.name \in Declares[c.gen]
    BY <2>1, <2>2
  <2> HIDE DEF c
  <2> QED  BY <2>1, <2>2, <2>3, <2>4, <2>5, ContinueKeeps DEF AfterSymbol
<1> QED  BY <1>1, <1>2

LEMMA ReadsFileGenerationKeeps ==
  ASSUME ReadersTyped, CallInv, ReadsFileGeneration,
         UNCHANGED <<catalogVars, disk, schema, state, seen>>
  PROVE  ReadersTyped' /\ CallInv'
<1>1. CASE <<call.file, call.fileGen>> \notin payload
  BY <1>1, RefusalKeeps DEF ReadsFileGeneration, Answers
<1>2. CASE <<call.file, call.fileGen>> \in payload
  <2>1. /\ call \in Calls /\ call.op # "outline" /\ ~Answered
        /\ Seen(call.gen) /\ Holds(call.gen) /\ call.name \in Declares[call.gen]
        /\ Seen(call.fileGen) /\ (switches = 0 => call.fileGen = call.gen)
    BY DEF ReadersTyped, CallInv, StepsMatch, ReadsFileGeneration, Answered, SymbolInv,
           AfterSymbol
  <2>2. Continue(call, "slice")
    BY <1>2 DEF ReadsFileGeneration
  <2> QED  BY <2>1, <2>2, ContinueKeeps DEF AfterSymbol
<1> QED  BY <1>1, <1>2
\* A slice that is served lies where the declaration says, in a file that holds
\* the generation that was resolved.
LEMMA VerifiesSliceKeeps ==
  ASSUME ReadersTyped, CallInv, VerifiesSlice,
         UNCHANGED <<catalogVars, disk, schema, state, seen>>
  PROVE  ReadersTyped' /\ CallInv'
<1>1. CASE disk[call.file] # call.fileGen
  <2>1. Refuse("stale")
    BY <1>1 DEF VerifiesSlice
  <2> QED  BY <2>1, RefusalKeeps DEF Answers
<1>2. CASE /\ disk[call.file] = call.fileGen
           /\ Body[call.gen][call.name] \notin SpansIn[call.fileGen]
  <2>1. Refuse("incomplete")
    BY <1>2 DEF VerifiesSlice
  <2> QED  BY <2>1, RefusalKeeps DEF Answers
<1>3. CASE /\ disk[call.file] = call.fileGen
           /\ Body[call.gen][call.name] \in SpansIn[call.fileGen]
  <2> DEFINE c == [call EXCEPT !.content = disk[call.file]]
  <2>1. /\ call \in Calls /\ call.op # "outline" /\ ~Answered
        /\ Seen(call.gen) /\ Holds(call.gen) /\ call.name \in Declares[call.gen]
        /\ Seen(call.fileGen) /\ (switches = 0 => call.fileGen = call.gen)
    BY DEF ReadersTyped, CallInv, StepsMatch, VerifiesSlice, Answered, SymbolInv, AfterSymbol
  <2>2. /\ c \in Calls /\ c.op = call.op /\ c.file = call.file /\ c.name = call.name
        /\ c.gen = call.gen /\ c.fileGen = call.fileGen /\ c.content = call.fileGen
    BY <1>3, <2>1 DEF Calls, Seen, MaybeGeneration
  <2>3. Verified(c)
    BY <1>3 DEF VerifiesSlice
  <2> HIDE DEF c
  <2>4. CASE c.op = "context"
    <3>1. Continue(c, "imports")
      BY <2>3, <2>4 DEF Verified
    <3> QED  BY <1>3, <2>1, <2>2, <3>1, ContinueKeeps DEF AfterSymbol
  <2>5. CASE c.op # "context"
    <3>1. Serve(c)
      BY <2>3, <2>5 DEF Verified
    <3>2. /\ call' \in Calls /\ call'.step = "answered" /\ call'.op = c.op
          /\ call'.name = c.name /\ call'.gen = c.gen /\ call'.content = c.content
          /\ switches' = switches
      BY <2>2, <3>1, ServeType
    <3>3. ReadersTyped'
      BY <3>2 DEF ReadersTyped
    <3>4. StepsMatch' /\ Current' /\ OutlineInv' /\ SymbolInv'
      BY <2>2, <3>2 DEF CallInv, StepsMatch, Current, Answered, OutlineInv, SymbolInv,
                        AfterResolving, AfterSymbol
    <3>5. SourceExact'
      BY <1>3, <2>1, <2>2, <3>2 DEF SourceExact, Served, Seen
    <3>6. OutlineExact' /\ ContextExact'
      BY <2>1, <2>2, <2>5, <3>2 DEF OutlineExact, ContextExact, Served
    <3> QED  BY <3>3, <3>4, <3>5, <3>6 DEF CallInv, AnswersExact
  <2> QED  BY <2>4, <2>5
<1> QED  BY <1>1, <1>2, <1>3

LEMMA VerifiesImportsKeeps ==
  ASSUME CatalogTypeOK, PayloadExact, ReadersTyped, CallInv, VerifiesImports,
         UNCHANGED <<catalogVars, disk, schema, state, seen>>
  PROVE  ReadersTyped' /\ CallInv'
<1>1. CASE ~(ImportRows \subseteq SpansIn[call.content])
  BY <1>1, RefusalKeeps DEF VerifiesImports, Answers
<1>2. CASE ImportRows \subseteq SpansIn[call.content]
  <2> DEFINE c == [call EXCEPT !.imports = ImportRows]
  <2>1. /\ call \in Calls /\ call.op # "outline" /\ ~Answered
        /\ Seen(call.gen) /\ Holds(call.gen) /\ call.name \in Declares[call.gen]
        /\ Seen(call.fileGen) /\ (switches = 0 => call.fileGen = call.gen)
        /\ call.content = call.fileGen
        /\ Body[call.gen][call.name] \in SpansIn[call.content]
    BY DEF ReadersTyped, CallInv, StepsMatch, VerifiesImports, Answered, SymbolInv, AfterSymbol
  <2>2. SpansIn[call.content] \subseteq Spans
    BY <2>1, SpansInAssumption DEF Seen
  <2>3. switches = 0 => ImportRows = Imports[call.content]
    <3>1. ASSUME switches = 0 PROVE active[call.file] = call.gen /\ call.gen = call.content
      BY <2>1, <3>1 DEF Holds
    <3>2. call.file \in Files /\ call.name \in Names
      BY <2>1 DEF Calls, CallInv, StepsMatch
    <3>3. ASSUME switches = 0 PROVE Symbol \in ActiveSymbols
      <4>1. Symbol \in Live
        BY <2>1, <3>1, <3>2, <3>3 DEF Live, Symbol, Seen
      <4> QED  BY <4>1, ActiveIsLive
    <3> QED  BY <3>1, <3>3 DEF ImportRows
  <2>4. /\ c \in Calls /\ c.op = call.op /\ c.file = call.file /\ c.name = call.name
        /\ c.gen = call.gen /\ c.content = call.content /\ c.imports = ImportRows
    BY <1>2, <2>1, <2>2 DEF Calls
  <2>5. Serve(c)
    BY <1>2 DEF VerifiesImports
  <2> HIDE DEF c
  <2>6. /\ call' \in Calls /\ call'.step = "answered" /\ call'.op = call.op
        /\ call'.name = call.name /\ call'.gen = call.gen /\ call'.content = call.content
        /\ call'.imports = ImportRows /\ switches' = switches
    BY <2>4, <2>5, ServeType
  <2>7. ReadersTyped'
    BY <2>6 DEF ReadersTyped
  <2>8. StepsMatch' /\ Current' /\ OutlineInv' /\ SymbolInv'
    BY <2>6 DEF CallInv, StepsMatch, Current, Answered, OutlineInv, SymbolInv,
                AfterResolving, AfterSymbol
  <2>9. SourceExact'
    BY <2>1, <2>6 DEF SourceExact, Served, Seen
  <2>10. ContextExact'
    <3>1. switches > 0 \/ switches = 0
      BY DEF ReadersTyped
    <3> QED  BY <1>2, <2>3, <2>6, <3>1 DEF ContextExact
  <2>11. OutlineExact'
    BY <2>1, <2>6 DEF OutlineExact, Served
  <2> QED  BY <2>7, <2>8, <2>9, <2>10, <2>11 DEF CallInv, AnswersExact
<1> QED  BY <1>1, <1>2

LEMMA CallStepKeeps ==
  ASSUME CatalogTypeOK, PayloadExact, ReadersTyped, CallInv, CallStep
  PROVE  ReadersTyped' /\ CallInv'
<1>1. UNCHANGED <<catalogVars, disk, schema, state, seen>>
  BY DEF CallStep
<1>2. CASE ChecksState
  BY <1>1, <1>2, ChecksStateKeeps
<1>3. CASE OutlineStep
  <2>1. CASE Resolves
    BY <1>1, <2>1, ResolvesKeeps
  <2>2. CASE Reads
    BY <1>1, <2>2, ReadsKeeps
  <2>3. CASE ReadsGeneration
    BY <1>1, <2>3, ReadsGenerationKeeps
  <2>4. CASE Rechecks
    BY <1>1, <2>4, RechecksKeeps
  <2>5. CASE ReadsDeclarations
    BY <1>1, <2>5, ReadsDeclarationsKeeps
  <2>6. CASE Confirms
    BY <1>1, <2>6, ConfirmsKeeps
  <2> QED  BY <1>3, <2>1, <2>2, <2>3, <2>4, <2>5, <2>6 DEF OutlineStep
<1>4. CASE SymbolStep
  <2>1. CASE ChecksPending
    BY <1>1, <2>1, ChecksPendingKeeps
  <2>2. CASE ResolvesSymbol
    BY <1>1, <2>2, ResolvesSymbolKeeps
  <2>3. CASE ChecksTombstone
    BY <1>1, <2>3, ChecksTombstoneKeeps
  <2>4. CASE ResolvesFile
    BY <1>1, <2>4, ResolvesFileKeeps
  <2>5. CASE ReadsFileGeneration
    BY <1>1, <2>5, ReadsFileGenerationKeeps
  <2>6. CASE VerifiesSlice
    BY <1>1, <2>6, VerifiesSliceKeeps
  <2>7. CASE VerifiesImports
    BY <1>1, <2>7, VerifiesImportsKeeps
  <2> QED  BY <1>4, <2>1, <2>2, <2>3, <2>4, <2>5, <2>6, <2>7 DEF SymbolStep
<1> QED  BY <1>2, <1>3, <1>4 DEF CallStep
-----------------------------------------------------------------------------
\* A call begins; the last one is forgotten.
LEMMA CallBeginsKeeps ==
  ASSUME CatalogTypeOK, ReadersTyped, CallInv, CallBegins
  PROVE  ReadersTyped' /\ CallInv'
<1>1. PICK op \in Operations, f \in Files, n \in MaybeName :
        /\ op = "outline" <=> n = None
        /\ call' = NewCall(op, f, n)
        /\ seen' = {active[f]}
        /\ switches' = 0
  BY DEF CallBegins, Ask
<1>2. UNCHANGED <<catalogVars, disk, schema, state>>
  BY DEF CallBegins
<1>3. /\ call' \in Calls /\ call'.op = op /\ call'.file = f /\ call'.name = n
      /\ call'.step = "state"
  BY <1>1, NewCallType
<1>4. active[f] \in MaybeGeneration
  BY DEF CatalogTypeOK
<1>5. ReadersTyped'
  BY <1>1, <1>2, <1>3, <1>4 DEF ReadersTyped
<1>6. op = "outline" \/ n \in Names
  BY <1>1 DEF MaybeName
<1>7. StepsMatch' /\ Current' /\ OutlineInv' /\ SymbolInv'
  BY <1>1, <1>2, <1>3, <1>6 DEF StepsMatch, Current, OutlineInv, SymbolInv, AfterResolving,
                                AfterSymbol, catalogVars
<1>8. AnswersExact'
  BY <1>3 DEF AnswersExact, OutlineExact, SourceExact, ContextExact, Served, Answered
<1> QED  BY <1>5, <1>7, <1>8 DEF CallInv

\* The catalog changes under a call, which counts the switches of its file.
LEMMA CatalogChangesKeeps ==
  ASSUME CatalogTypeOK, CatalogTypeOK', ReadersTyped, CallInv, CatalogChanges
  PROVE  ReadersTyped' /\ CallInv'
<1>1. UNCHANGED <<disk, schema, state, call>> /\ Observes
  BY DEF CatalogChanges
<1>2. call.file \in Files /\ switches \in 0 .. 2
  BY DEF ReadersTyped, Calls
<1>3. active[call.file] \in MaybeGeneration /\ active'[call.file] \in MaybeGeneration
  BY <1>2 DEF CatalogTypeOK
<1>4. CASE Answered
  <2>1. UNCHANGED <<call, seen, switches>>
    BY <1>1, <1>4 DEF Observes
  <2>2. ReadersTyped'
    BY <1>1, <2>1 DEF ReadersTyped
  <2>3. StepsMatch' /\ Current' /\ OutlineInv' /\ SymbolInv'
    BY <1>4, <2>1 DEF CallInv, StepsMatch, Current, Answered, OutlineInv, SymbolInv,
                      AfterResolving, AfterSymbol
  <2>4. AnswersExact'
    BY <2>1 DEF CallInv, AnswersExact, OutlineExact, SourceExact, ContextExact, Served, Answered
  <2> QED  BY <2>2, <2>3, <2>4 DEF CallInv
<1>5. CASE ~Answered
  <2>1. /\ seen' = seen \cup {active'[call.file]}
        /\ switches' = IF active'[call.file] = active[call.file] \/ switches = 2
                       THEN switches ELSE switches + 1
    BY <1>1, <1>5 DEF Observes
  <2>2. switches' \in 0 .. 2 /\ seen \subseteq seen' /\ seen' \subseteq MaybeGeneration
    BY <1>2, <1>3, <2>1 DEF ReadersTyped
  <2>3. ReadersTyped'
    BY <1>1, <2>2 DEF ReadersTyped
  <2>4. switches' = 0 => switches = 0 /\ active'[call.file] = active[call.file]
    BY <1>2, <2>1
  <2>5. StepsMatch' /\ Current'
    BY <1>1, <2>1 DEF CallInv, StepsMatch, Current, Answered
  <2>6. \A g : (Seen(g) => Seen(g)') /\ (Holds(g) => Holds(g)')
    BY <1>1, <2>2, <2>4 DEF Seen, Holds
  <2>7. ASSUME call.step = "confirm"
        PROVE  \/ call.symbols = {call.file} \X Declares[call.gen]
               \/ switches' = 2
               \/ switches' = 1 /\ active'[call.file] # call.gen
    BY <1>2, <2>1, <2>7 DEF CallInv, OutlineInv
  <2>8. OutlineInv'
    BY <1>1, <2>6, <2>7 DEF CallInv, OutlineInv, Seen, Holds
  <2>9. SymbolInv'
    BY <1>1, <2>4, <2>6 DEF CallInv, SymbolInv, Seen, Holds
  <2>10. AnswersExact'
    BY <1>1, <1>5 DEF AnswersExact, OutlineExact, SourceExact, ContextExact, Served, Answered
  <2> QED  BY <2>3, <2>5, <2>8, <2>9, <2>10 DEF CallInv
<1> QED  BY <1>4, <1>5

\* No other step touches the call, what is active, or what was seen.
LEMMA CallUntouched ==
  ASSUME CallInv, UNCHANGED <<active, call, seen, switches>>
  PROVE  CallInv'
<1>1. StepsMatch' /\ Current' /\ OutlineInv' /\ SymbolInv'
  BY DEF CallInv, StepsMatch, Current, Answered, OutlineInv, SymbolInv, Seen, Holds
<1>2. AnswersExact'
  BY DEF CallInv, AnswersExact, OutlineExact, SourceExact, ContextExact, Served, Answered
<1> QED  BY <1>1, <1>2 DEF CallInv

\* reconcileStructuredState() finds nothing to mend: the tables are exact.
LEMMA ReconcileMendsNothing ==
  ASSUME CatalogInv, Reconcile
  PROVE  UNCHANGED catalogVars
<1>1. payload' = payload
  BY DEF CatalogInv, PayloadExact, Reconcile
<1>2. tombstones' = tombstones
  BY DEF CatalogInv, RetiredExact, Reconcile
<1> QED  BY <1>1, <1>2 DEF Reconcile, catalogVars

LEMMA RetrievalInvInit == RetrievalInit => RetrievalInv
<1> SUFFICES ASSUME RetrievalInit PROVE RetrievalInv
  OBVIOUS
<1>1. CatalogInv
  BY CatalogInvInit DEF RetrievalInit
<1>2. PICK f \in Files : call = [NewCall("outline", f, None) EXCEPT !.step = "answered"]
  BY DEF RetrievalInit
<1>3. NewCall("outline", f, None) \in Calls /\ NewCall("outline", f, None).op = "outline"
      /\ NewCall("outline", f, None).answer = "none"
  BY NewCallType DEF Operations, MaybeName, NewCall
<1>4. /\ call \in Calls /\ call.step = "answered" /\ call.op = "outline"
      /\ call.answer = "none"
  BY <1>2, <1>3 DEF Calls, Steps
<1>5. ReadersTyped
  <2>1. /\ disk \in [Files -> MaybeGeneration] /\ schema \in BOOLEAN /\ state = "idle"
        /\ seen = {None} /\ switches = 0
    BY DEF RetrievalInit
  <2>2. seen \subseteq MaybeGeneration /\ switches \in 0 .. 2
    BY <2>1 DEF MaybeGeneration
  <2> QED  BY <1>4, <2>1, <2>2 DEF ReadersTyped
<1>6. CallInv
  BY <1>4 DEF CallInv, StepsMatch, Current, Answered, OutlineInv, SymbolInv, AfterResolving,
              AfterSymbol, AnswersExact, OutlineExact, SourceExact, ContextExact, Served
<1> QED  BY <1>1, <1>5, <1>6, TypesSplit DEF RetrievalInv, CatalogInv

LEMMA RetrievalInvStep == RetrievalInv /\ [RetrievalNext]_retrievalVars => RetrievalInv'
<1> SUFFICES ASSUME RetrievalInv, [RetrievalNext]_retrievalVars PROVE RetrievalInv'
  OBVIOUS
<1>1. CatalogInv /\ CatalogTypeOK /\ PayloadExact /\ ReadersTyped /\ CallInv
  BY TypesSplit DEF RetrievalInv, CatalogInv
<1>2. SUFFICES CatalogInv' /\ ReadersTyped' /\ CallInv'
  <2>1. CatalogInv' => CatalogTypeOK'
    BY DEF CatalogInv
  <2>2. (RetrievalTypeOK <=> CatalogTypeOK /\ ReadersTyped)'
    BY TypesSplit, PTL
  <2> QED  BY <2>1, <2>2 DEF RetrievalInv
<1>3. ASSUME UNCHANGED catalogVars PROVE CatalogInv' /\ UNCHANGED active
  BY <1>1, <1>3, CatalogInvStep DEF catalogVars
<1>4. CASE CallBegins
  BY <1>1, <1>3, <1>4, CallBeginsKeeps DEF CallBegins
<1>5. CASE CallStep
  BY <1>1, <1>3, <1>5, CallStepKeeps DEF CallStep
<1>6. CASE CatalogChanges
  <2>1. CatalogInv'
    BY <1>1, <1>6, CatalogInvStep DEF CatalogChanges
  <2>2. CatalogTypeOK'
    BY <2>1 DEF CatalogInv
  <2> QED  BY <1>1, <1>6, <2>1, <2>2, CatalogChangesKeeps
<1>7. CASE Edits
  <2>1. ReadersTyped'
    BY <1>1, <1>7 DEF Edits, ReadersTyped
  <2> QED  BY <1>1, <1>3, <1>7, <2>1, CallUntouched DEF Edits
<1>8. CASE SetsState
  <2>1. ReadersTyped'
    BY <1>1, <1>8 DEF SetsState, ReadersTyped
  <2> QED  BY <1>1, <1>3, <1>8, <2>1, CallUntouched DEF SetsState
<1>9. CASE Reconcile
  <2>1. ReadersTyped'
    BY <1>1, <1>9 DEF Reconcile, ReadersTyped
  <2> QED  BY <1>1, <1>3, <1>9, <2>1, ReconcileMendsNothing, CallUntouched DEF Reconcile
<1>10. CASE UNCHANGED retrievalVars
  <2>1. ReadersTyped'
    BY <1>1, <1>10 DEF retrievalVars, ReadersTyped
  <2> QED  BY <1>1, <1>3, <1>10, <2>1, CallUntouched DEF retrievalVars
<1> QED  BY <1>4, <1>5, <1>6, <1>7, <1>8, <1>9, <1>10 DEF RetrievalNext

LEMMA RetrievalInvHolds == RetrievalSpec => []RetrievalInv
BY RetrievalInvInit, RetrievalInvStep, PTL DEF RetrievalSpec

-----------------------------------------------------------------------------
\* Whatever is edited, staged, activated or retired between the queries of a
\* call, its answer was true during the call: an outline lists the declarations
\* of the content it names, source is text that a generation active during the
\* call has at that place, and imports are those of the file as it was read
\* (getFileOutline(), verifySymbol() and getImportsForSymbol() of
\* retrieval-service.ts).
THEOREM AnswersStayExact == RetrievalSpec => []AnswersExact
<1>1. RetrievalInv => AnswersExact
  BY DEF RetrievalInv, CallInv
<1> QED  BY <1>1, RetrievalInvHolds, PTL

\* The tables stay exact with readers about, and reconcileStructuredState()
\* among the methods that are called.
THEOREM TablesStayExact == RetrievalSpec => [](PayloadExact /\ RetiredExact)
<1>1. RetrievalInv => PayloadExact /\ RetiredExact
  BY DEF RetrievalInv, CatalogInv
<1> QED  BY <1>1, RetrievalInvHolds, PTL

\* The state of the readers is well typed.
THEOREM RetrievalTyped == RetrievalSpec => []RetrievalTypeOK
<1>1. RetrievalInv => RetrievalTypeOK
  BY DEF RetrievalInv
<1> QED  BY <1>1, RetrievalInvHolds, PTL
=============================================================================
