---------------------------- MODULE SegmentQuery ----------------------------
(***************************************************************************)
(* The execution of a query on its snapshot: one task per segment searches *)
(* the index of the segment, and the partial results are merged.  Query    *)
(* returns the best documents, GroupByQuery the best groups, MultiQuery    *)
(* runs several branches one after the other and fuses them.               *)
(*                                                                         *)
(* A document is its ID; a smaller score is better, whatever the metric.   *)
(* Quantized codes misjudge the scores of some documents.  The traversal   *)
(* of a graph index meets any part of its documents (external); full-text  *)
(* searches are those of FtsSearch, filters those of FilterPlan.           *)
(***************************************************************************)
EXTENDS Integers, Sequences, FiniteSets, SequencesExt, FiniteSetsExt, Ordering

CONSTANTS
  DocIDs,            \* documents of the snapshot
  LaterIDs,          \* documents that are written while the query runs
  MaxScore,          \* scores are 1..MaxScore
  Cases,             \* sets of pairs of a snapshot and a request
  Workers,           \* queryWorkers
  TopK,              \* TopK of Query and MultiQuery
  NumCandidates,     \* NumCandidates of a branch of MultiQuery
  TopKPerGroup,
  RatioPercent,      \* BruteForceByKeysRatio
  ScalePercent,      \* ScaleFactor of the refiner
  RankConstant       \* of the RRF reranker

ASSUME QueryConstants ==
  /\ DocIDs \subseteq Nat \ {0} /\ IsFiniteSet(DocIDs) /\ LaterIDs \subseteq Nat /\ \A d \in DocIDs, l \in LaterIDs : d < l
  /\ {MaxScore, Workers, TopK, NumCandidates, TopKPerGroup, ScalePercent} \subseteq Nat \ {0}
  /\ {RatioPercent, RankConstant} \subseteq Nat

\* Segments share no document.
ValidSnapshot(c) ==
  /\ c.documents \in Seq(SUBSET DocIDs)
  /\ \A s, t \in DOMAIN c.documents : s # t => c.documents[s] \cap c.documents[t] = {}
  /\ c.filtered \in BOOLEAN
  /\ c.score \in Seq([DocIDs \cup LaterIDs -> 1..MaxScore]) /\ c.score # <<>>
  /\ DOMAIN c.group = DocIDs \cup LaterIDs

ValidRequest(r) ==
  /\ r.op \in {"query", "filter", "group", "multi"} /\ r.index \in {"flat", "graph"}
  /\ {r.refine, r.linear, r.writing} \subseteq BOOLEAN
  /\ r.radius \in Nat /\ r.groupCount \in Nat \ {0}
  /\ r.reranker \in {"rrf", "weighted", "callback"} /\ r.weights \in Seq(Int)

\* MultiQuery has a second branch.
ASSUME CasesValid ==
  \A i \in DOMAIN Cases : \A case \in Cases[i] :
    /\ ValidSnapshot(case.snapshot) /\ ValidRequest(case.request)
    /\ case.request.op = "multi" => Len(case.snapshot.score) = 2

VARIABLES
  snapshot,    \* the documents, what the filter rejects, their scores; never changes
  request,     \* the query and its parameters; never changes
  storage,     \* segment -> keys of its Flat index, which writers share
  branch,      \* the branch of MultiQuery that runs; 1 otherwise
  stage,       \* segment -> stage of its task of ParallelFor
  candidates,  \* segment -> result of the base search of a refined search
  batches,     \* segment -> its partial result
  lists,       \* RerankBatches of the branches so far
  outcome      \* what the call returns

queryVars == <<snapshot, request, storage, branch, stage, candidates, batches, lists, outcome>>

Segments == DOMAIN snapshot.documents
Running == [status |-> "running", results |-> <<>>]

-----------------------------------------------------------------------------
(* Results and bounded heaps.                                              *)

Result(key, score) == [key |-> key, score |-> score]

\* resultBetter: equal scores are ordered by the document ID.
Better(a, b) == a.score < b.score \/ (a.score = b.score /\ a.key < b.key)

\* A heap with its worst result on top keeps the best k.
Retain(heap, k, result) ==
  IF Cardinality(heap) < k THEN heap \cup {result}
  ELSE LET worst == CHOOSE w \in heap : \A r \in heap \ {w} : Better(r, w)
       IN  IF Better(result, worst) THEN (heap \ {worst}) \cup {result} ELSE heap

\* The heap after each of the results.
HeapAfter(k, results) ==
  LET heap[n \in 0..Len(results)] == IF n = 0 THEN {} ELSE Retain(heap[n - 1], k, results[n])
  IN  heap

BestFirst(S) == Enumerated(S, {p \in S \X S : Better(p[1], p[2])})
Best(k, results) == BestFirst(HeapAfter(k, results)[Len(results)])

MergeSearchResults(k, parts) == Best(k, FlattenSeq(parts))

WithinRadius(score) == request.radius = 0 \/ score <= request.radius

-----------------------------------------------------------------------------
(* Visibility.                                                             *)

Documents == UNION {snapshot.documents[s] : s \in Segments}
Live == Documents \ snapshot.deleted
Accepted == IF snapshot.filtered THEN Live \ snapshot.rejected ELSE Live

\* A nil predicate: no filter, and every document of the snapshot is live.
Unrestricted == ~snapshot.filtered /\ snapshot.deleted = {}

\* evaluatedFilter.useBruteForce.
Few(matched, total) == snapshot.filtered /\ total # {} /\ 100 * Cardinality(matched) <= Cardinality(total) * RatioPercent
BruteForce(s) == Few(Accepted \cap snapshot.documents[s], Live \cap snapshot.documents[s])

\* Mutant: a filter that accepts everything is not bounded.
BoundedNever(s, key) == Unrestricted \/ key \in Accepted

\* boundCollectionFilter: the keys of the snapshot's part of the segment.
Bounded(s, key) ==
  /\ snapshot.documents[s] # {}
  /\ key \in Min(snapshot.documents[s])..Max(snapshot.documents[s])
  /\ Unrestricted \/ key \in Accepted

-----------------------------------------------------------------------------
(* Indexes of a segment.  The last segment may be the one that is written: *)
(* in place of a graph it has a Flat index of the original vectors.  A     *)
(* quantized Flat index is made of codes there as well.                    *)

Writing(s) == request.writing /\ s = Len(snapshot.documents)
WriterFlat(s) == Writing(s) /\ request.index = "graph"
Quantized == snapshot.misjudged # {}
Codes(s) == Quantized /\ ~WriterFlat(s)
Linear(s) == request.linear \/ BruteForce(s)

\* searchVectorSpec and the choice of the index: every row is looked at.
Scanned(s) == request.index = "flat" \/ WriterFlat(s) \/ Linear(s)

\* Refinement is switched off where a graph is missing.
Refined(s) == request.refine /\ ~WriterFlat(s)

Exact(key) == snapshot.score[branch][key]
Misjudged(key) == MaxScore + 1 - Exact(key)
Score(s, key) == IF Codes(s) /\ key \in snapshot.misjudged THEN Misjudged(key) ELSE Exact(key)

\* RefinementCandidateCount.
CandidateCount(k) == Max({1, (k * ScalePercent) \div 100})

\* The accepted rows among the visited, and their scores in the order of the index.
Rows(s, visited) == {key \in visited : Bounded(s, key)}
Scan(s, rows) == LET keys == Ascending(rows) IN [i \in DOMAIN keys |-> Result(keys[i], Score(s, keys[i]))]

Limit == IF request.op = "multi" THEN NumCandidates ELSE TopK

\* The base search of a refined search has no radius and more results.
BaseSearch(s, visited) ==
  IF Refined(s) THEN Best(CandidateCount(Limit), Scan(s, Rows(s, visited)))
  ELSE Best(Limit, Scan(s, {key \in Rows(s, visited) : WithinRadius(Score(s, key))}))

\* Refine: the candidates with their exact scores.
RefineCandidates(s, found) ==
  LET kept == Ascending({i \in DOMAIN found : Bounded(s, found[i].key) /\ WithinRadius(Exact(found[i].key))})
  IN  Best(Limit, [i \in DOMAIN kept |-> Result(found[kept[i]].key, Exact(found[kept[i]].key))])

-----------------------------------------------------------------------------
(* Groups.                                                                 *)

GroupBetter(a, b) == Better(a.results[1], b.results[1])

\* groupAccumulator: a heap per group; finish ranks the groups by their best.
OfGroup(value, grouped) ==
  LET at == Ascending({i \in DOMAIN grouped : grouped[i].value = value}) IN [i \in DOMAIN at |-> grouped[at[i]].result]

Accumulate(k, grouped) ==
  {[value |-> v, results |-> Best(k, OfGroup(v, grouped))] : v \in {grouped[i].value : i \in DOMAIN grouped}}

Finish(groups, count) ==
  LET ranked == Enumerated(groups, {p \in groups \X groups : GroupBetter(p[1], p[2])})
  IN  SubSeq(ranked, 1, Min({count, Len(ranked)}))

\* MergeGroupResults.
MergeGroupResults(count, k, parts) ==
  LET groups == FlattenSeq(parts)
      Tagged(g) == [i \in DOMAIN g.results |-> [value |-> g.value, result |-> g.results[i]]]
  IN  Finish(Accumulate(k, FlattenSeq([i \in DOMAIN groups |-> Tagged(groups[i])])), count)

\* GroupByQuery decides by the whole filter as well.
GroupLinear(s) == Linear(s) \/ Few(Accepted, Live)
GroupScanned(s) == request.index = "flat" \/ WriterFlat(s) \/ GroupLinear(s)

\* validateCollectionGroupQueryConfig: HNSW groups cannot be refined.
GroupSupported(s) == GroupScanned(s) \/ ~Refined(s)

\* Refined groups are those of the original vectors.
GroupScore(s, key) == IF Refined(s) THEN Exact(key) ELSE Score(s, key)
GroupScan(s, visited) ==
  LET keys == Ascending({key \in Rows(s, visited) : WithinRadius(GroupScore(s, key))})
  IN  [i \in DOMAIN keys |-> [value |-> snapshot.group[keys[i]], result |-> Result(keys[i], GroupScore(s, keys[i]))]]

-----------------------------------------------------------------------------
(* Fusion.  Primary keys are ordered opposite to the document IDs.         *)

\* 1 / (RankConstant + rank + 1), with rank from 0, over a common denominator.
Denominator ==
  LET product[n \in 0..NumCandidates] == IF n = 0 THEN 1 ELSE product[n - 1] * (RankConstant + n)
  IN  product[NumCandidates]
RankScore(rank) == Denominator \div (RankConstant + rank)

\* normalizeWeightedScore falls with the score, to 0 for the worst.
NormalizedScore(score) == MaxScore - score

\* A weight may be negative or 0.
WeightedScore(list, score) == request.weights[list] * NormalizedScore(score)

Contribution(list, rank) ==
  IF request.reranker = "rrf" THEN RankScore(rank) ELSE WeightedScore(list, lists[list][rank].score)

CandidateIDs == UNION {{lists[l][i].key : i \in DOMAIN lists[l]} : l \in DOMAIN lists}

\* What a branch adds to the score of a document.
ListScore(list, key) ==
  LET sum[i \in 0..Len(lists[list])] ==
        IF i = 0 THEN 0 ELSE sum[i - 1] + IF lists[list][i].key = key THEN Contribution(list, i) ELSE 0
  IN  sum[Len(lists[list])]

\* Mutant: a later branch replaces the score of an earlier one.
FusedScoreLast(key) ==
  LET total[l \in 0..Len(lists)] == IF l = 0 THEN 0 ELSE IF ListScore(l, key) = 0 THEN total[l - 1] ELSE ListScore(l, key)
  IN  total[Len(lists)]

FusedScore(key) ==
  LET total[l \in 0..Len(lists)] == IF l = 0 THEN 0 ELSE total[l - 1] + ListScore(l, key)
  IN  total[Len(lists)]

\* scoreBasedRerank.
Fused ==
  LET Before(a, b) == FusedScore(a) > FusedScore(b) \/ (FusedScore(a) = FusedScore(b) /\ a > b)
      ordered == Enumerated(CandidateIDs, {p \in CandidateIDs \X CandidateIDs : Before(p[1], p[2])})
  IN  SubSeq(ordered, 1, Min({TopK, Len(ordered)}))

\* validateAndProjectReranked.
ValidReranked(keys) == Len(keys) <= TopK /\ Range(keys) \subseteq CandidateIDs /\ IsInjective(keys)

-----------------------------------------------------------------------------

QueryInit ==
  /\ \E i \in DOMAIN Cases : \E case \in Cases[i] : snapshot = case.snapshot /\ request = case.request
  /\ storage = [s \in Segments |-> snapshot.documents[s] \ snapshot.null]
  /\ branch = 1
  /\ stage = [s \in Segments |-> "waiting"]
  /\ candidates = [s \in Segments |-> <<>>]
  /\ batches = [s \in Segments |-> <<>>]
  /\ lists = <<>>
  /\ outcome = Running

\* A batch of writes extends the Flat index of the segment that is written,
\* unless it is quantized: then its replacement has an index of its own.
AppendRow(key) ==
  /\ request.writing /\ ~Codes(Len(snapshot.documents))
  /\ \A s \in Segments : key \notin storage[s]
  /\ storage' = [storage EXCEPT ![Len(snapshot.documents)] = @ \cup {key}]
  /\ UNCHANGED <<snapshot, request, branch, stage, candidates, batches, lists, outcome>>

\* ParallelFor: a worker takes the next segment unless a task has failed.
Claim(s) ==
  /\ outcome = Running /\ request.op # "filter"
  /\ stage[s] = "waiting" /\ \A t \in Segments : t < s => stage[t] # "waiting"
  /\ Cardinality({t \in Segments : stage[t] \in {"claimed", "refining"}}) < Workers
  /\ \A t \in Segments : stage[t] # "failed"
  /\ stage' = [stage EXCEPT ![s] = "claimed"]
  /\ UNCHANGED <<snapshot, request, storage, branch, candidates, batches, lists, outcome>>

\* The task fails, or finds its context ended by the failure of another.
FailTask(s) ==
  /\ stage[s] \in {"claimed", "refining"}
  /\ stage' = [stage EXCEPT ![s] = "failed"]
  /\ UNCHANGED <<snapshot, request, storage, branch, candidates, batches, lists, outcome>>

\* searchVectorSnapshotResolved, up to the refiner.  The index is locked.
SearchVector(s, visited) ==
  /\ stage[s] = "claimed"
  /\ request.op = "query" \/ (request.op = "multi" /\ branch = 1)
  /\ Scanned(s) => visited = storage[s]
  /\ IF Refined(s)
     THEN /\ candidates' = [candidates EXCEPT ![s] = BaseSearch(s, visited)]
          /\ stage' = [stage EXCEPT ![s] = "refining"]
          /\ UNCHANGED batches
     ELSE /\ batches' = [batches EXCEPT ![s] = BaseSearch(s, visited)]
          /\ stage' = [stage EXCEPT ![s] = "done"]
          /\ UNCHANGED candidates
  /\ UNCHANGED <<snapshot, request, storage, branch, lists, outcome>>

Refine(s) ==
  /\ stage[s] = "refining"
  /\ batches' = [batches EXCEPT ![s] = RefineCandidates(s, candidates[s])]
  /\ stage' = [stage EXCEPT ![s] = "done"]
  /\ UNCHANGED <<snapshot, request, storage, branch, candidates, lists, outcome>>

\* searchFTSSegments: a runtime's index holds exactly its own documents.
SearchText(s) ==
  /\ stage[s] = "claimed" /\ request.op = "multi" /\ branch = 2
  /\ LET keys == Ascending({key \in snapshot.documents[s] : Unrestricted \/ key \in Accepted})
     IN  batches' = [batches EXCEPT ![s] = Best(Limit, [i \in DOMAIN keys |-> Result(keys[i], Exact(keys[i]))])]
  /\ stage' = [stage EXCEPT ![s] = "done"]
  /\ UNCHANGED <<snapshot, request, storage, branch, candidates, lists, outcome>>

\* searchGroupSegment.
SearchGroups(s, visited) ==
  /\ stage[s] = "claimed" /\ request.op = "group" /\ GroupSupported(s)
  /\ GroupScanned(s) => visited = storage[s]
  /\ batches' = [batches EXCEPT ![s] = Finish(Accumulate(TopKPerGroup, GroupScan(s, visited)), request.groupCount)]
  /\ stage' = [stage EXCEPT ![s] = "done"]
  /\ UNCHANGED <<snapshot, request, storage, branch, candidates, lists, outcome>>

AllDone == \A s \in Segments : stage[s] = "done"

\* materializeResults: a result must be a document of the snapshot.
Materialized(results, keys) ==
  [status |-> IF keys \subseteq Live THEN "ok" ELSE "disappeared", results |-> results]

KeysOf(results) == {results[i].key : i \in DOMAIN results}

FinishQuery ==
  /\ outcome = Running /\ AllDone /\ request.op = "query"
  /\ LET merged == MergeSearchResults(TopK, batches) IN outcome' = Materialized(merged, KeysOf(merged))
  /\ UNCHANGED <<snapshot, request, storage, branch, stage, candidates, batches, lists>>

FinishGroups ==
  /\ outcome = Running /\ AllDone /\ request.op = "group"
  /\ LET groups == MergeGroupResults(request.groupCount, TopKPerGroup, batches)
     IN  outcome' = Materialized(groups, UNION {KeysOf(groups[i].results) : i \in DOMAIN groups})
  /\ UNCHANGED <<snapshot, request, storage, branch, stage, candidates, batches, lists>>

\* The next branch of MultiQuery, or the end of the searches.
FinishBranch ==
  /\ outcome = Running /\ AllDone /\ request.op = "multi" /\ Len(lists) < 2
  /\ lists' = Append(lists, MergeSearchResults(NumCandidates, batches))
  /\ outcome' = IF KeysOf(lists'[branch]) \subseteq Live THEN outcome ELSE [Running EXCEPT !.status = "disappeared"]
  /\ branch' = 2
  /\ stage' = [s \in Segments |-> IF branch = 1 THEN "waiting" ELSE "done"]
  /\ UNCHANGED <<snapshot, request, storage, candidates, batches>>

\* WeightedReranker returns an error unless there is a weight for each branch.
WeightsMatch == request.reranker = "weighted" => Len(request.weights) = Len(lists)

\* A callback may return anything.
CallbackOutputs == UNION {[1..n -> DocIDs] : n \in 0..TopK + 1}
RerankerOutputs ==
  IF request.reranker = "callback" THEN CallbackOutputs ELSE IF WeightsMatch THEN {Fused} ELSE {}

Rerank(keys) ==
  /\ outcome = Running /\ Len(lists) = 2 /\ keys \in RerankerOutputs
  /\ outcome' = [status |-> IF ValidReranked(keys) THEN "ok" ELSE "rejected",
                 results |-> IF ValidReranked(keys) THEN keys ELSE <<>>]
  /\ UNCHANGED <<snapshot, request, storage, branch, stage, candidates, batches, lists>>

\* The context ended, the weights do not match, or the callback returned an
\* error or panicked.
RerankFails ==
  /\ outcome = Running /\ Len(lists) = 2
  /\ outcome' = [Running EXCEPT !.status = "error"]
  /\ UNCHANGED <<snapshot, request, storage, branch, stage, candidates, batches, lists>>

\* filterOnlyResults.
FilterOnly ==
  /\ outcome = Running /\ request.op = "filter"
  /\ LET keys == Ascending({d \in Live : Unrestricted \/ d \in Accepted})
     IN  outcome' = Materialized([i \in 1..Min({TopK, Len(keys)}) |-> Result(keys[i], 0)], Range(keys))
  /\ UNCHANGED <<snapshot, request, storage, branch, stage, candidates, batches, lists>>

\* The error of a task ends the call once every task has.
FailQuery ==
  /\ outcome = Running /\ \E s \in Segments : stage[s] = "failed"
  /\ \A s \in Segments : stage[s] \notin {"claimed", "refining"}
  /\ outcome' = [Running EXCEPT !.status = "error"]
  /\ UNCHANGED <<snapshot, request, storage, branch, stage, candidates, batches, lists>>

QueryNext ==
  \/ \E key \in LaterIDs : AppendRow(key)
  \/ \E s \in Segments :
    \/ Claim(s) \/ FailTask(s) \/ Refine(s) \/ SearchText(s)
    \/ \E visited \in SUBSET storage[s] : SearchVector(s, visited) \/ SearchGroups(s, visited)
  \/ FinishQuery \/ FinishGroups \/ FinishBranch \/ RerankFails \/ FilterOnly \/ FailQuery
  \/ \E keys \in RerankerOutputs : Rerank(keys)

QuerySpec == QueryInit /\ [][QueryNext]_queryVars

-----------------------------------------------------------------------------

\* The exact score in the vector search.
Truth(key) == snapshot.score[1][key]

\* The scores that a segment reports are exact.
Trusted(s) == ~Codes(s) \/ Refined(s)

\* What a result list must be: accepted documents with a vector, best first,
\* each once, within the radius.
SoundResults(results) ==
  /\ \A i, j \in DOMAIN results : i < j => Better(results[i], results[j]) /\ results[i].key # results[j].key
  /\ \A i \in DOMAIN results :
       /\ results[i].key \in Accepted \ snapshot.null
       /\ WithinRadius(results[i].score)
       /\ \A s \in Segments : Trusted(s) /\ results[i].key \in snapshot.documents[s] =>
            results[i].score = Truth(results[i].key)

\* A segment is searched exactly, and no fewer candidates than results are refined.
SearchedExactly(s, k) == Scanned(s) /\ ~Codes(s) /\ (Refined(s) => CandidateCount(k) >= k)

\* No document of a segment that is scanned with exact scores is passed over
\* for a worse one.
CompleteResults(results, k) ==
  \A s \in Segments : SearchedExactly(s, k) =>
    \A key \in (snapshot.documents[s] \cap Accepted) \ snapshot.null : WithinRadius(Truth(key)) =>
      \/ key \in KeysOf(results)
      \/ Len(results) = k /\ Better(results[k], Result(key, Truth(key)))

Eligible == {key \in Accepted \ snapshot.null : WithinRadius(Truth(key))}
Members(value) == {Result(key, Truth(key)) : key \in {e \in Eligible : snapshot.group[e] = value}}
Leads(m, value) == m \in Members(value) /\ \A o \in Members(value) \ {m} : Better(m, o)

\* The groups by their best members.
Groups == {snapshot.group[e] : e \in Eligible}
GroupRanking ==
  Enumerated(Groups, {p \in Groups \X Groups : \E m \in Members(p[1]) : \A o \in Members(p[2]) : Better(m, o)})
GroupsExact == outcome.status = "ok" /\ request.op = "group" /\ \A s \in Segments : GroupScanned(s) /\ Trusted(s)

\* Query and each vector branch of MultiQuery: whatever is written meanwhile,
\* in whatever order the segments answer, and whichever of them are scanned,
\* traversed, read from codes or refined, an answer holds only accepted
\* documents of the snapshot, and misses none that an exactly scanned segment
\* has to offer; and every document found is still in the snapshot when it is
\* materialized.  A query without a target returns the first documents.
\* GroupByQuery over exactly scanned segments returns the GroupCount best
\* groups in their global order, each led by its globally best document and
\* filled with documents of its own, best first, although every segment has
\* already dropped the groups that were not among its own best.
AnswersExact ==
  /\ outcome.status # "disappeared"
  /\ outcome.status = "ok" /\ request.op = "query" => SoundResults(outcome.results) /\ CompleteResults(outcome.results, TopK)
  /\ Len(lists) = 1 => SoundResults(lists[1]) /\ CompleteResults(lists[1], NumCandidates)
  /\ outcome.status = "ok" /\ request.op = "filter" =>
       LET keys == Ascending(Accepted)
       IN  [i \in DOMAIN outcome.results |-> outcome.results[i].key] = SubSeq(keys, 1, Min({TopK, Len(keys)}))
  /\ GroupsExact =>
       /\ [i \in DOMAIN outcome.results |-> outcome.results[i].value]
            = SubSeq(GroupRanking, 1, Min({request.groupCount, Len(GroupRanking)}))
       /\ \A i \in DOMAIN outcome.results :
            LET g == outcome.results[i]
            IN  /\ Range(g.results) \subseteq Members(g.value) /\ Leads(g.results[1], g.value)
                /\ \A j \in 2..Len(g.results) : Better(g.results[j - 1], g.results[j])

-----------------------------------------------------------------------------

Listed(list, key) == key \in KeysOf(lists[list])

\* A normalized score of 0 is worth no more than not being listed.
Counts(list, rank) == request.reranker = "rrf" \/ NormalizedScore(lists[list][rank].score) > 0

\* A branch ranks one document, or scores it, no worse than another.
AsGood(list, a, b) ==
  \A j \in DOMAIN lists[list] : lists[list][j].key = b /\ Counts(list, j) =>
    \E i \in DOMAIN lists[list] :
      /\ lists[list][i].key = a
      /\ IF request.reranker = "rrf" THEN i <= j ELSE lists[list][i].score <= lists[list][j].score

\* A negative weight asks for the opposite, a weight of 0 for nothing.
AtLeast(list, a, b) ==
  IF request.reranker = "rrf" THEN AsGood(list, a, b)
  ELSE (request.weights[list] > 0 => AsGood(list, a, b)) /\ (request.weights[list] < 0 => AsGood(list, b, a))

\* One document does at least as well as another in every branch, and better
\* in one of them or by its primary key.
Dominates(a, b) ==
  /\ \A l \in DOMAIN lists : AtLeast(l, a, b)
  /\ (\E l \in DOMAIN lists : ~AtLeast(l, b, a)) \/ a > b

\* MultiQuery: the output of a built-in reranker is never refused, is full
\* when there are enough candidates, and never prefers a document to one that
\* dominates it, where a branch of negative weight counts against what it
\* ranks high; what a callback returns is passed on only if it names
\* candidates of the branches, each once.
FusionOrdered ==
  request.op = "multi" /\ Len(lists) = 2 /\ outcome # Running =>
    /\ request.reranker # "callback" /\ outcome.status # "error" =>
         /\ outcome.status = "ok" /\ Len(outcome.results) = Min({TopK, Cardinality(CandidateIDs)})
         /\ \A a, b \in CandidateIDs : Dominates(a, b) =>
              \A j \in DOMAIN outcome.results : outcome.results[j] = b => \E i \in 1..j : i < j /\ outcome.results[i] = a
    /\ outcome.status = "ok" =>
         /\ \A i, j \in DOMAIN outcome.results : i # j => outcome.results[i] # outcome.results[j]
         /\ \A i \in DOMAIN outcome.results : \E l \in DOMAIN lists : Listed(l, outcome.results[i])
         /\ \A i \in DOMAIN outcome.results : outcome.results[i] \in Accepted
=============================================================================
