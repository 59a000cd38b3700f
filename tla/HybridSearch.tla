------------------------------ MODULE HybridSearch ------------------------------
(***************************************************************************)
(* A hybrid search (src/search): the semantic branch with its checks of    *)
(* the abort signal (semantic.ts, search() of storage/vector-store.ts),    *)
(* the ripgrep branch that takes one of a few slots and is stopped by its  *)
(* timer (grep.ts, createGrepEngine() in server/factory.ts), and the       *)
(* fusion of both lists by reciprocal ranks (orchestrator.ts, rrf.ts).     *)
(*                                                                         *)
(* The rows a vector search ranks and the lines ripgrep reports are any:   *)
(* how well they match is left to the two engines.  A row is a chunk and   *)
(* whether it counts: legacy rows do and those of the active generation of *)
(* their file, those of a former generation do not.                        *)
(***************************************************************************)
EXTENDS Integers, FiniteSets, Sequences, SequencesExt

CONSTANTS
  Searches,     \* requests
  Chunks,       \* chunks the index holds
  Lines,        \* lines that match the pattern
  Within,       \* the chunk each line lies in
  FileRank,     \* order of the files of chunks and lines, as localeCompare() sees it
  PathForms,    \* whether the engine may report absolute paths: ripgrep does
  Slots,        \* grepMaxConcurrency, 4 in the code
  TopK,         \* results of one answer
  K,            \* rrfK, 60 in the code
  MaxHits,      \* bound: rows or lines in one list of each search
  MaxRank       \* bound: the largest of them

ASSUME WithinAssumption == Within \in [Lines -> Chunks]
ASSUME RankAssumption == FileRank \in [Chunks \cup Lines -> Nat \ {0}]
ASSUME FormsAssumption == PathForms \subseteq BOOLEAN
ASSUME NumbersAssumption ==
  /\ Slots \in Nat \ {0} /\ TopK \in Nat \ {0} /\ K \in Nat \ {0}
  /\ MaxRank \in Nat /\ MaxHits \in [Searches -> 0 .. MaxRank]

VARIABLES
  absolute,   \* the engine of this run reports absolute paths
  semantic,   \* the step of the semantic branch of every search
  chunks,     \* what that branch has found, best first
  grep,       \* the step of the other one
  lines,      \* what ripgrep has reported
  queue,      \* searches that wait for a slot
  cancelled,  \* searches whose client has aborted them
  outcome,    \* "none", "answered" or "failed"
  answer      \* the results that were returned

searchVars == <<absolute, semantic, chunks, grep, lines, queue, cancelled, outcome, answer>>

Rows == Chunks \X {"counts", "former"}

\* Lists without repetition.
Lists(S, bound) ==
  {l \in UNION {[1 .. n -> S] : n \in 0 .. bound} :
     \A i, j \in DOMAIN l : l[i] = l[j] => i = j}

\* The part of a list at a set of places, in order.
PartAt(list, places) ==
  [k \in 1 .. Cardinality(places) |->
     list[CHOOSE i \in places : Cardinality({j \in places : j < i}) = k - 1]]

Take(n, list) == SubSeq(list, 1, IF n < Len(list) THEN n ELSE Len(list))

Running == {s \in Searches : grep[s] = "running"}

-----------------------------------------------------------------------------
Ask(s) ==
  /\ semantic[s] = "none"
  /\ semantic' = [semantic EXCEPT ![s] = "embedding"]
  /\ grep' = [grep EXCEPT ![s] = "waiting"]
  /\ queue' = Append(queue, s)
  /\ UNCHANGED <<absolute, chunks, lines, cancelled, outcome, answer>>

Abort(s) ==
  /\ semantic[s] # "none" /\ outcome[s] = "none"
  /\ cancelled' = cancelled \cup {s}
  /\ UNCHANGED <<absolute, semantic, chunks, grep, lines, queue, outcome, answer>>

SemanticReaches(s, step) == semantic' = [semantic EXCEPT ![s] = step]

Embeds(s) ==
  /\ semantic[s] = "embedding"
  /\ SemanticReaches(s, IF s \in cancelled THEN "done" ELSE "reading")
  /\ UNCHANGED <<absolute, chunks, grep, lines, queue, cancelled, outcome, answer>>

\* mergeSearchResults(): of rows of one chunk, the one with the best score.
IsFirst(rows, i) == \A j \in 1 .. i - 1 : rows[j][1] # rows[i][1]

Merged(rows) == Take(TopK, PartAt(rows, {n \in DOMAIN rows : IsFirst(rows, n)}))

\* What the tables hold is ranked; an aborted search forgets it.
ReadsRows(s) ==
  /\ semantic[s] = "reading"
  /\ \E rows \in Lists(Rows, MaxHits[s]) :
        chunks' = [chunks EXCEPT ![s] = IF s \in cancelled THEN <<>> ELSE Merged(rows)]
  /\ SemanticReaches(s, IF s \in cancelled THEN "done" ELSE "resolving")
  /\ UNCHANGED <<absolute, grep, lines, queue, cancelled, outcome, answer>>

\* filterByActiveGeneration().
ResolvesGenerations(s) ==
  /\ semantic[s] = "resolving"
  /\ LET kept == PartAt(chunks[s], {i \in DOMAIN chunks[s] : chunks[s][i][2] # "former"})
     IN  chunks' = [chunks EXCEPT ![s] = [i \in DOMAIN kept |-> kept[i][1]]]
  /\ SemanticReaches(s, "done")
  /\ UNCHANGED <<absolute, grep, lines, queue, cancelled, outcome, answer>>

SemanticFails(s) ==
  /\ semantic[s] \in {"embedding", "reading", "resolving"}
  /\ SemanticReaches(s, "failed")
  /\ chunks' = [chunks EXCEPT ![s] = <<>>]
  /\ UNCHANGED <<absolute, grep, lines, queue, cancelled, outcome, answer>>

-----------------------------------------------------------------------------
\* pLimit(): slots are given in the order of the calls; a search that was
\* aborted while it waited does not start ripgrep.
StartsGrep(s) ==
  /\ queue # <<>> /\ s = Head(queue)
  /\ Cardinality(Running) < Slots
  /\ queue' = Tail(queue)
  /\ grep' = [grep EXCEPT ![s] = IF s \in cancelled THEN "done" ELSE "running"]
  /\ UNCHANGED <<absolute, semantic, chunks, lines, cancelled, outcome, answer>>

Matches(s) ==
  /\ grep[s] = "running"
  /\ \E found \in Lists(Lines, MaxHits[s]) : lines' = [lines EXCEPT ![s] = found]
  /\ grep' = [grep EXCEPT ![s] = "done"]
  /\ UNCHANGED <<absolute, semantic, chunks, queue, cancelled, outcome, answer>>

GrepFails(s) ==
  /\ grep[s] = "running"
  /\ grep' = [grep EXCEPT ![s] = "failed"]
  /\ UNCHANGED <<absolute, semantic, chunks, lines, queue, cancelled, outcome, answer>>

\* Only the client ends a search.
MutantStops(s) ==
  /\ grep[s] = "running"
  /\ s \in cancelled
  /\ grep' = [grep EXCEPT ![s] = "done"]
  /\ UNCHANGED <<absolute, semantic, chunks, lines, queue, cancelled, outcome, answer>>

\* The timer of the search or its client aborts ripgrep: nothing is found, and
\* the slot is free.
Stops(s) ==
  /\ grep[s] = "running"
  /\ grep' = [grep EXCEPT ![s] = "done"]
  /\ UNCHANGED <<absolute, semantic, chunks, lines, queue, cancelled, outcome, answer>>

-----------------------------------------------------------------------------
\* A line within a chunk that was found counts as that chunk, if the paths of
\* both are written alike.
HitOf(l, found) ==
  IF ~absolute /\ Within[l] \in Range(found) THEN Within[l] ELSE l

Place(id) == IF absolute /\ id \in Lines THEN 0 ELSE FileRank[id]

\* 1 / (K + i), over the common denominator of all ranks.
Contribution ==
  [i \in 1 .. MaxRank |->
     LET product[j \in 0 .. MaxRank] ==
           IF j = 0 THEN 1 ELSE product[j - 1] * (IF j = i THEN 1 ELSE K + j)
     IN  product[MaxRank]]

\* One more result goes into the score map, which has one entry per id in the
\* order of the first insertion.  A score that is there is replaced.
MutantScored(map, id, score, source) ==
  IF \E n \in DOMAIN map : map[n].id = id
  THEN [n \in DOMAIN map |->
          IF map[n].id = id THEN [id |-> id, score |-> score, source |-> "hybrid"]
          ELSE map[n]]
  ELSE Append(map, [id |-> id, score |-> score, source |-> source])

Scored(map, id, score, source) ==
  IF \E n \in DOMAIN map : map[n].id = id
  THEN [n \in DOMAIN map |->
          IF map[n].id = id
          THEN [id |-> id, score |-> map[n].score + score, source |-> "hybrid"]
          ELSE map[n]]
  ELSE Append(map, [id |-> id, score |-> score, source |-> source])

ScoreMap(found, hits) ==
  LET map[n \in 0 .. Len(found) + Len(hits)] ==
        IF n = 0 THEN <<>>
        ELSE LET before == map[n - 1]
                 rank   == IF n <= Len(found) THEN n ELSE n - Len(found)
             IN  IF n <= Len(found)
                 THEN Scored(before, found[rank], Contribution[rank], "semantic")
                 ELSE Scored(before, hits[rank], Contribution[rank], "grep")
  IN  map[Len(found) + Len(hits)]

\* By score, then by file, then in the order of insertion.
Ahead(map, i, j) ==
  \/ map[i].score > map[j].score
  \/ map[i].score = map[j].score /\ Place(map[i].id) < Place(map[j].id)
  \/ map[i].score = map[j].score /\ Place(map[i].id) = Place(map[j].id) /\ i < j

InOrder(map) ==
  [rank \in DOMAIN map |->
     map[CHOOSE i \in DOMAIN map :
           Cardinality({j \in DOMAIN map : Ahead(map, j, i)}) = rank - 1]]

FuseResults(found, hits) ==
  Take(TopK, InOrder(ScoreMap(found, hits)))

\* Both branches have settled; one that failed found nothing.
Responds(s) ==
  /\ semantic[s] \in {"done", "failed"} /\ grep[s] \in {"done", "failed"}
  /\ outcome[s] = "none"
  /\ IF semantic[s] = "failed" /\ grep[s] = "failed"
     THEN outcome' = [outcome EXCEPT ![s] = "failed"] /\ UNCHANGED answer
     ELSE /\ outcome' = [outcome EXCEPT ![s] = "answered"]
          /\ answer' = [answer EXCEPT ![s] =
                          FuseResults(chunks[s], [i \in DOMAIN lines[s] |->
                                                    HitOf(lines[s][i], chunks[s])])]
  /\ UNCHANGED <<absolute, semantic, chunks, grep, lines, queue, cancelled>>

SearchInit ==
  /\ absolute \in PathForms
  /\ semantic = [s \in Searches |-> "none"]
  /\ chunks = [s \in Searches |-> <<>>]
  /\ grep = [s \in Searches |-> "none"]
  /\ lines = [s \in Searches |-> <<>>]
  /\ queue = <<>>
  /\ cancelled = {}
  /\ outcome = [s \in Searches |-> "none"]
  /\ answer = [s \in Searches |-> <<>>]

SemanticStep(s) == Embeds(s) \/ ReadsRows(s) \/ ResolvesGenerations(s)

SearchNext ==
  \E s \in Searches :
     \/ Ask(s) \/ Abort(s)
     \/ SemanticStep(s) \/ SemanticFails(s)
     \/ StartsGrep(s) \/ Matches(s) \/ GrepFails(s) \/ Stops(s)
     \/ Responds(s)

SearchSpec == SearchInit /\ [][SearchNext]_searchVars

\* ripgrep may hang, but timers fire.
SearchFairness ==
  \A s \in Searches : WF_searchVars(StartsGrep(s)) /\ WF_searchVars(Stops(s))

FairSearchSpec == SearchSpec /\ SearchFairness

-----------------------------------------------------------------------------
SearchTypeOK ==
  /\ absolute \in BOOLEAN
  /\ semantic \in [Searches -> {"none", "embedding", "reading", "resolving", "done", "failed"}]
  /\ grep \in [Searches -> {"none", "waiting", "running", "done", "failed"}]
  /\ Cardinality(Running) <= Slots
  /\ Range(queue) = {s \in Searches : grep[s] = "waiting"}
  /\ cancelled \subseteq Searches

\* Reciprocal rank fusion as it is defined: an id scores the sum of 1 / (K + rank)
\* over the ranks it has in the two lists.
ScoreIn(id, list) ==
  LET sum[n \in 0 .. Len(list)] ==
        IF n = 0 THEN 0 ELSE sum[n - 1] + (IF list[n] = id THEN Contribution[n] ELSE 0)
  IN  sum[Len(list)]

ReferenceScore(id, found, hits) == ScoreIn(id, found) + ScoreIn(id, hits)

\* An answer is the reciprocal rank fusion of what the branches found: no chunk
\* twice, the true scores, best first, nothing better left out, and "hybrid" is
\* what both have found.
AnswersAreFused ==
  \A s \in Searches : outcome[s] = "answered" =>
     LET found == chunks[s]
         hits  == [i \in DOMAIN lines[s] |-> HitOf(lines[s][i], found)]
         all   == Range(found) \cup Range(hits)
         ids   == {answer[s][i].id : i \in DOMAIN answer[s]}
         score(id) == ReferenceScore(id, found, hits)
     IN  /\ Len(answer[s]) = Cardinality(ids)
         /\ Len(answer[s]) = (IF Cardinality(all) < TopK THEN Cardinality(all) ELSE TopK)
         /\ \A i \in DOMAIN answer[s] :
               /\ answer[s][i].score = score(answer[s][i].id)
               /\ (answer[s][i].source = "hybrid") <=>
                    (answer[s][i].id \in Range(found) \cap Range(hits))
               /\ i > 1 => answer[s][i - 1].score >= answer[s][i].score
               /\ \A id \in all \ ids : score(id) <= answer[s][i].score

\* A search that waits for a slot gets it and gives it back, although ripgrep
\* may hang in every slot.
SlotsComeFree ==
  \A s \in Searches : grep[s] = "waiting" ~> grep[s] \in {"done", "failed"}

\* "fuses semantic and grep results through RRF": a chunk that both branches
\* have found is one result, of source "hybrid".
HitsAreFused ==
  \A s \in Searches : outcome[s] = "answered" =>
     \A i \in DOMAIN answer[s], l \in Range(lines[s]) :
        answer[s][i].id = Within[l] /\ Within[l] \in Range(chunks[s]) =>
          answer[s][i].source = "hybrid"
=============================================================================
