-------------------------- MODULE StructuredRetrieval --------------------------
(***************************************************************************)
(* The readers of the structured catalog                                   *)
(* (src/structured/retrieval-service.ts): the outline of a file, the       *)
(* source of a symbol and its context.  No transaction spans the queries   *)
(* of one call, nor the catalog and the working tree: a step is one query, *)
(* and between two of them files are edited and every method of the        *)
(* catalog may be called.                                                  *)
(*                                                                         *)
(* A span stands for a piece of text at its place in a file, so that the   *)
(* check of a slice against its hash is the question whether the content   *)
(* has the span.  Exclusion, languages without support and the packing of  *)
(* imports into a budget are left out.                                     *)
(***************************************************************************)
EXTENDS StructuredCatalog

CONSTANTS
  Spans,
  SpansIn,    \* the spans of a content
  Body,       \* where a content has the text of a name it declares
  Imports,    \* the imports that the declarations of a content use
  Reconciles  \* whether anything calls reconcile()

ASSUME SpansInAssumption == SpansIn \in [Generations -> SUBSET Spans]
ASSUME BodyAssumption ==
  \A g \in Generations : Body[g] \in [Declares[g] -> SpansIn[g]]
ASSUME ImportsAssumption ==
  Imports \in [Generations -> SUBSET Spans] /\ \A g \in Generations : Imports[g] \subseteq SpansIn[g]
ASSUME ReconcilesAssumption == Reconciles \in BOOLEAN

VARIABLES
  disk,      \* content of every file, None when there is none
  schema,    \* whether index_stats.structured_schema_version is set
  state,     \* index_stats.structured_rebuild_state
  call,      \* the call under way, or the last one
  seen,      \* history: what was active of its file since the call began
  switches   \* history: how often that changed since the attempt began, up to 2

retrievalVars == <<catalogVars, disk, schema, state, call, seen, switches>>

-----------------------------------------------------------------------------
Operations == {"outline", "source", "context"}

\* getFileOutline() is given a path; a symbol's id contains one.
MaybeName == Names \cup {None}

NewCall(op, f, n) ==
  [op |-> op, file |-> f, name |-> n, step |-> "state", gen |-> None, fileGen |-> None,
   content |-> None, symbols |-> {}, imports |-> {}, retried |-> FALSE, answer |-> "none"]

Answered == call.step = "answered"

Serve(c) == call' = [c EXCEPT !.step = "answered", !.answer = "ok"] /\ UNCHANGED switches

Refuse(a) ==
  /\ call' = [NewCall(call.op, call.file, call.name) EXCEPT !.step = "answered", !.answer = a]
  /\ UNCHANGED switches

Continue(c, step) == call' = [c EXCEPT !.step = step] /\ UNCHANGED switches

\* The second attempt.
Retry ==
  /\ ~call.retried
  /\ call' = [NewCall(call.op, call.file, call.name) EXCEPT !.step = "resolve", !.retried = TRUE]
  /\ switches' = 0

RetryOr(a) == Retry \/ (call.retried /\ Refuse(a))

Ask ==
  /\ Answered
  /\ \E op \in Operations, f \in Files, n \in MaybeName :
       /\ op = "outline" <=> n = None
       /\ call' = NewCall(op, f, n)
       /\ seen' = {active[f]}
       /\ switches' = 0

\* checkGlobalState()
ChecksState ==
  /\ call.step = "state"
  /\ IF schema /\ state = "idle"
     THEN Continue(call, IF call.op = "outline" THEN "resolve" ELSE "pending")
     ELSE Refuse("not_served")

-----------------------------------------------------------------------------
\* getFileOutline()

Resolves ==
  /\ call.step = "resolve"
  /\ IF active[call.file] # None
     THEN Continue([call EXCEPT !.gen = active[call.file]], "read")
     ELSE Refuse(IF pending[call.file] # None THEN "incomplete" ELSE "missing")

Reads ==
  /\ call.step = "read"
  /\ IF disk[call.file] = None
     THEN Refuse("stale")
     ELSE Continue([call EXCEPT !.content = disk[call.file]], "generation")

\* getGeneration() and the comparison of the file's hash
ReadsGeneration ==
  /\ call.step = "generation"
  /\ \/ <<call.file, call.gen>> \notin payload /\ RetryOr("incomplete")
     \/ /\ <<call.file, call.gen>> \in payload
        /\ Continue(call, IF call.content = call.gen THEN "declarations" ELSE "recheck")

\* A hash that differs is tried again if the catalog has moved on.
Rechecks ==
  /\ call.step = "recheck"
  /\ IF active[call.file] \notin {None, call.gen} THEN RetryOr("stale") ELSE Refuse("stale")

\* getFileDeclarations() takes those of the generation that is active now.
ReadsDeclarations ==
  /\ call.step = "declarations"
  /\ Continue([call EXCEPT !.symbols = SymbolRows(call.file, active[call.file])], "confirm")

\* No second look at the generation.
MutantConfirms == call.step = "confirm" /\ Serve(call)

Confirms ==
  /\ call.step = "confirm"
  /\ IF active[call.file] = call.gen THEN Serve(call) ELSE RetryOr("stale")

-----------------------------------------------------------------------------
\* verifySymbol(), for a symbol's source and its context

Symbol == <<call.file, call.name>>

\* getPendingSymbol()
ChecksPending ==
  /\ call.step = "pending"
  /\ IF Symbol \in SymbolRows(call.file, pending[call.file])
     THEN Refuse("incomplete")
     ELSE Continue(call, "symbol")

\* resolveSymbol() looks for an active declaration and then, in a second query,
\* for a tombstone.
ResolvesSymbol ==
  /\ call.step = "symbol"
  /\ IF Symbol \in ActiveSymbols
     THEN Continue([call EXCEPT !.gen = active[call.file]], "file")
     ELSE Continue(call, "tombstone")

ChecksTombstone ==
  /\ call.step = "tombstone"
  /\ Refuse(IF Symbol \in tombstones THEN "retired" ELSE "missing")

ResolvesFile ==
  /\ call.step = "file"
  /\ IF active[call.file] = None
     THEN Refuse("incomplete")
     ELSE Continue([call EXCEPT !.fileGen = active[call.file]], "file generation")

ReadsFileGeneration ==
  /\ call.step = "file generation"
  /\ IF <<call.file, call.fileGen>> \in payload
     THEN Continue(call, "slice")
     ELSE Refuse("incomplete")

Verified(c) == IF c.op = "context" THEN Continue(c, "imports") ELSE Serve(c)

\* The file is read; its hash must be that of the generation and the slice at
\* the place of the declaration must have the hash of the declaration.
VerifiesSlice ==
  /\ call.step = "slice"
  /\ CASE disk[call.file] # call.fileGen -> Refuse("stale")
       [] /\ disk[call.file] = call.fileGen
          /\ Body[call.gen][call.name] \notin SpansIn[call.fileGen] -> Refuse("incomplete")
       [] OTHER -> Verified([call EXCEPT !.content = disk[call.file]])

\* getImportsForSymbol() takes those of the generation that is active now; none
\* are found for a symbol that is not active any more.
ImportRows == IF Symbol \in ActiveSymbols THEN Imports[active[call.file]] ELSE {}

VerifiesImports ==
  /\ call.step = "imports"
  /\ IF ImportRows \subseteq SpansIn[call.content]
     THEN Serve([call EXCEPT !.imports = ImportRows])
     ELSE Refuse("incomplete")

-----------------------------------------------------------------------------
\* What happens meanwhile.

Observes ==
  IF Answered
  THEN UNCHANGED <<seen, switches>>
  ELSE /\ seen' = seen \cup {active'[call.file]}
       /\ switches' = IF active'[call.file] = active[call.file] \/ switches = 2
                      THEN switches ELSE switches + 1

CatalogChanges == CatalogNext /\ Observes /\ UNCHANGED <<disk, schema, state, call>>

Edits ==
  /\ \E f \in Files, c \in MaybeGeneration : c # disk[f] /\ disk' = [disk EXCEPT ![f] = c]
  /\ UNCHANGED <<catalogVars, schema, state, call, seen, switches>>

SetsState ==
  /\ \E s \in {"idle", "building", "failed"} : s # state /\ state' = s
  /\ UNCHANGED <<catalogVars, disk, schema, call, seen, switches>>

\* reconcileStructuredState(), the only one to write the schema's version.
Reconcile ==
  /\ Reconciles
  /\ payload' = payload \cap Referenced
  /\ tombstones' = tombstones \ ActiveSymbols
  /\ schema' = (\E f \in Files : <<f, active[f]>> \in payload)
  /\ state' = CASE \E f \in Files : pending[f] # None -> "building"
                [] (\A f \in Files : pending[f] = None) /\ state = "building" -> "failed"
                [] OTHER -> state
  /\ UNCHANGED <<active, pending, epoch, known, disk, call, seen, switches>>

RetrievalInit ==
  /\ CatalogInit
  /\ disk \in [Files -> MaybeGeneration]
  /\ schema = FALSE
  /\ state = "idle"
  /\ \E f \in Files : call = [NewCall("outline", f, None) EXCEPT !.step = "answered"]
  /\ seen = {None}
  /\ switches = 0

OutlineStep ==
  Resolves \/ Reads \/ ReadsGeneration \/ Rechecks \/ ReadsDeclarations \/ Confirms

SymbolStep ==
  \/ ChecksPending
  \/ ResolvesSymbol
  \/ ChecksTombstone
  \/ ResolvesFile
  \/ ReadsFileGeneration
  \/ VerifiesSlice
  \/ VerifiesImports

CallStep ==
  /\ ChecksState \/ OutlineStep \/ SymbolStep
  /\ UNCHANGED <<catalogVars, disk, schema, state, seen>>

CallBegins == Ask /\ UNCHANGED <<catalogVars, disk, schema, state>>

RetrievalNext ==
  CallBegins \/ CallStep \/ CatalogChanges \/ Edits \/ SetsState \/ Reconcile

RetrievalSpec == RetrievalInit /\ [][RetrievalNext]_retrievalVars

-----------------------------------------------------------------------------
Steps ==
  {"state", "resolve", "read", "generation", "recheck", "declarations", "confirm", "pending",
   "symbol", "tombstone", "file", "file generation", "slice", "imports", "answered"}

RetrievalTypeOK ==
  /\ CatalogTypeOK
  /\ disk \in [Files -> MaybeGeneration]
  /\ schema \in BOOLEAN
  /\ state \in {"idle", "building", "failed"}
  /\ call \in [op : Operations, file : Files, name : MaybeName, step : Steps, gen : MaybeGeneration,
               fileGen : MaybeGeneration, content : MaybeGeneration,
               symbols : SUBSET (Files \X Names), imports : SUBSET Spans, retried : BOOLEAN,
               answer : {"none", "ok", "not_served", "missing", "incomplete", "stale", "retired"}]
  /\ seen \subseteq MaybeGeneration
  /\ switches \in 0 .. 2

Served(op) == Answered /\ call.op = op /\ call.answer = "ok"

\* An outline lists exactly the declarations of the file as it was read, and
\* the file was active with that content during the call; only a file that was
\* activated twice between the queries gets the declarations of another.
OutlineExact ==
  Served("outline") =>
    /\ call.content \in seen
    /\ call.symbols = {call.file} \X Declares[call.content] \/ switches = 2

\* Source is never guessed: it is the text of the symbol in a generation that
\* was active during the call, and a content that was active during the call
\* has it at that place.
SourceExact ==
  Served("source") \/ Served("context") =>
    /\ {call.gen, call.content} \subseteq seen
    /\ call.name \in Declares[call.gen]
    /\ Body[call.gen][call.name] \in SpansIn[call.content]

\* Imports that are answered are in the file as it was read; and they are all
\* the imports, unless the file was activated during the call.
ContextExact ==
  Served("context") =>
    /\ call.imports \subseteq SpansIn[call.content]
    /\ call.imports = Imports[call.content] \/ switches > 0

\* Whatever is served is what the working tree held during the call, or the
\* excuse is an activation in between.
AnswersExact == OutlineExact /\ SourceExact /\ ContextExact

=============================================================================
