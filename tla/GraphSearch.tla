---------------------------- MODULE GraphSearch ----------------------------
(***************************************************************************)
(* Searches of finished graphs: HNSW (dense, with groups), Vamana and      *)
(* DiskANN.  A search holds the read lock of its index, so the graph does  *)
(* not change; it is a loop that expands one node, or a beam of nodes, per *)
(* step.  Without filter and radius a block heap replaces the two heaps of *)
(* HNSW and Vamana.                                                        *)
(*                                                                         *)
(* Nodes are positions; a smaller score is better, whatever the metric.    *)
(* DiskANN orders its traversal by the scores of the codes.  The marks of  *)
(* an HNSW search come from a pool and are those of earlier searches.      *)
(***************************************************************************)
EXTENDS Integers, Sequences, FiniteSets, SequencesExt, FiniteSetsExt, Ordering

CONSTANTS
  Traversals,           \* sets of searches
  BruteForceThreshold,  \* an index of this size is scanned
  MaxBlockHeap,         \* maxBlockHeapSearchCapacity
  Generations           \* values of a generation, 256 in the code

ASSUME GraphSearchConstants == BruteForceThreshold \in Nat /\ MaxBlockHeap \in Nat /\ Generations \in Nat \ {0, 1}

\* Keys are unique, only HNSW graphs have upper layers and groups, and a pooled
\* mark is of a generation that was in use.
ValidTraversal(t) ==
  /\ t.kind \in {"hnsw", "vamana", "diskann"}
  /\ t.score \in Seq(Int) /\ t.entryPoint \in DOMAIN t.score
  /\ t.layers \in Seq([DOMAIN t.score -> Seq(DOMAIN t.score)]) /\ t.layers # <<>>
  /\ t.kind # "hnsw" => Len(t.layers) = 1 /\ t.groupCount = 0
  /\ {DOMAIN t.key, DOMAIN t.code, DOMAIN t.group} = {DOMAIN t.score}
  /\ \A p, q \in DOMAIN t.score : {t.key[p], t.code[p]} \subseteq Int /\ (t.key[p] = t.key[q] => p = q)
  /\ t.filtered \in BOOLEAN /\ (t.filtered \/ t.rejected = {}) /\ t.radius \in Int
  /\ {t.ef, t.topK, t.beam} \subseteq Nat \ {0} /\ t.groupCount \in Nat
  /\ t.pool \in [marks : Seq(Nat), generation : Nat]
  /\ \A p \in DOMAIN t.pool.marks : t.pool.marks[p] <= t.pool.generation

ASSUME TraversalsValid == \A i \in DOMAIN Traversals : \A t \in Traversals[i] : ValidTraversal(t)

VARIABLES
  traversal,  \* the index and the request; never changes
  seen,       \* hnswVisited: marks and their generation
  expanded,   \* hnswVisited: marks of expanded nodes
  entry,      \* node where the current layer is entered
  layer,      \* the current layer
  frontier,   \* nodes to expand
  retained,   \* results so far, or what the block heap holds
  popped,     \* nodes of the block heap that were popped
  overflow,   \* nodes that tie with the worst of a full block heap
  collected,  \* DiskANN: results; groups: the nodes of the groups
  work        \* "start", "descend", "dual", "block", "beam", "groups" or "done"

graphSearchVars == <<traversal, seen, expanded, entry, layer, frontier, retained, popped, overflow, collected, work>>

Nodes == DOMAIN traversal.score
Adjacent(p, level) == traversal.layers[level + 1][p]

-----------------------------------------------------------------------------
(* Orders.                                                                 *)

\* hnswNodeBetter: ties are broken by the position.
NodeBetter(p, q) ==
  traversal.score[p] < traversal.score[q] \/ (traversal.score[p] = traversal.score[q] /\ p < q)

\* hnswResultNodeBetter, compareBlockHeapCandidates: ties are broken by the key.
ResultNodeBetter(p, q) ==
  \/ traversal.score[p] < traversal.score[q]
  \/ traversal.score[p] = traversal.score[q] /\ traversal.key[p] < traversal.key[q]

\* The queue of DiskANN.
QueueBetter(p, q) ==
  traversal.code[p] < traversal.code[q] \/ (traversal.code[p] = traversal.code[q] /\ p < q)

NearestNode(S) == CHOOSE p \in S : \A q \in S \ {p} : NodeBetter(p, q)
BestResult(S) == CHOOSE p \in S : \A q \in S \ {p} : ResultNodeBetter(p, q)
WorstResult(S) == CHOOSE p \in S : \A q \in S \ {p} : ResultNodeBetter(q, p)
WorstQueued(S) == CHOOSE p \in S : \A q \in S \ {p} : QueueBetter(q, p)

\* The best n results.
Closest(S, n) == {p \in S : Cardinality({q \in S : ResultNodeBetter(q, p)}) < n}

AcceptNode(p) == p \notin traversal.rejected /\ (traversal.radius = 0 \/ traversal.score[p] <= traversal.radius)

\* Candidates of a group search: GroupCount * TopKPerGroup.
Wanted == IF traversal.groupCount > 0 THEN traversal.groupCount * traversal.topK ELSE traversal.topK

HeapSize == IF traversal.kind = "hnsw" THEN Max({traversal.ef, Wanted})
            ELSE Min({Cardinality(Nodes), Max({traversal.ef, Wanted})})

UseBlockHeap == ~traversal.filtered /\ traversal.radius = 0 /\ HeapSize <= MaxBlockHeap

-----------------------------------------------------------------------------
(* Marks.                                                                  *)

Small == Cardinality(Nodes) <= BruteForceThreshold
Fresh == [marks |-> [p \in Nodes |-> 0], generation |-> 1]
Marked(v, p) == v.marks[p] = v.generation
Mark(v, S) == [v EXCEPT !.marks = [p \in DOMAIN v.marks |-> IF p \in S THEN v.generation ELSE v.marks[p]]]

\* hnswVisited.reset: a generation instead of a cleared buffer.
ResetMarks(v) ==
  IF Len(v.marks) < Cardinality(Nodes) THEN Fresh
  ELSE IF v.generation + 1 < Generations THEN [v EXCEPT !.generation = @ + 1]
  ELSE [marks |-> [p \in DOMAIN v.marks |-> 0], generation |-> 1]

\* acquireHNSWVisited for HNSW; Vamana and DiskANN allocate their marks.
Acquired(v) ==
  IF traversal.kind # "hnsw" THEN Fresh ELSE IF Small /\ traversal.groupCount = 0 THEN v ELSE ResetMarks(v)

\* A layer or an expansion of groups begins.
Cleared(v) == IF traversal.kind = "hnsw" THEN ResetMarks(v) ELSE v

\* The neighbors that are not marked; each is marked when it is met.
Unseen(v, p, level) ==
  LET list == Adjacent(p, level)
      at == Ascending({i \in DOMAIN list : ~Marked(v, list[i]) /\ \A j \in 1..(i - 1) : list[j] # list[i]})
  IN  [i \in DOMAIN at |-> list[at[i]]]

-----------------------------------------------------------------------------
(* The two heaps of a layer or of the base search.                         *)

Heaps(f, r) == [frontier |-> f, retained |-> r]

\* searchHNSWLayer with ef = 1.
ConsiderInLayer(h, p) ==
  IF NodeBetter(p, NearestNode(h.retained)) THEN Heaps(h.frontier \cup {p}, {p}) ELSE h

LayerAfter(h, batch) ==
  LET after[n \in 0..Len(batch)] == IF n = 0 THEN h ELSE ConsiderInLayer(after[n - 1], batch[n])
  IN  after

Full(h) == Cardinality(h.retained) >= HeapSize
WorstScore(S) == traversal.score[WorstResult(S)]

\* searchHNSWBase, searchVamanaGraph: a node that ties with the worst result is
\* expanded all the same.
Consider(h, p) ==
  IF Full(h) /\ WorstScore(h.retained) < traversal.score[p] THEN h
  ELSE Heaps(h.frontier \cup {p},
             IF AcceptNode(p) THEN Closest(h.retained \cup {p}, HeapSize) ELSE h.retained)

HeapsAfter(h, batch) ==
  LET after[n \in 0..Len(batch)] == IF n = 0 THEN h ELSE Consider(after[n - 1], batch[n])
  IN  after

-----------------------------------------------------------------------------
(* The block heap, whose cursor is the first node that was not popped.     *)

PushBlock(S, block) == Closest(S \cup ToSet(block), HeapSize)

WorstFirst(S) == Enumerated(S, {p \in S \X S : ResultNodeBetter(p[2], p[1])})
Tied(s, score) ==
  LET at == Ascending({i \in DOMAIN s : traversal.score[s[i]] = score}) IN [i \in DOMAIN at |-> s[at[i]]]
Others(s, S) ==
  LET at == Ascending({i \in DOMAIN s : s[i] \notin S}) IN [i \in DOMAIN at |-> s[at[i]]]

\* Mutant: only nodes that were in the heap are kept as ties.
BoundaryTiesEvictedOnly(before, after, block) ==
  IF Cardinality(after) < HeapSize THEN <<>> ELSE Tied(WorstFirst((before \ after) \ popped), WorstScore(after))

\* appendBlockHeapBoundaryTies: what a full heap evicted or did not take, with
\* the score of its worst node.
BoundaryTies(before, after, block) ==
  IF Cardinality(after) < HeapSize THEN <<>>
  ELSE Tied(WorstFirst((before \ after) \ popped) \o Others(block, after), WorstScore(after))

-----------------------------------------------------------------------------
(* DiskANN.                                                                *)

\* diskANNResultCollector.Add.
Collect(S, p) == IF AcceptNode(p) THEN Closest(S \cup {p}, traversal.topK) ELSE S

\* A batch of the beam: the best nodes of the queue that are still retained.
BeamBatch ==
  LET waiting == {p \in frontier : p \in retained /\ ~Marked(expanded, p)}
      queue == Enumerated(waiting, {p \in waiting \X waiting : QueueBetter(p[1], p[2])})
  IN  SubSeq(queue, 1, Min({traversal.beam, Len(queue)}))

Queue(h, p) ==
  IF Cardinality(h.retained) < HeapSize THEN Heaps(h.frontier \cup {p}, h.retained \cup {p})
  ELSE LET worst == WorstQueued(h.retained)
       IN  IF QueueBetter(p, worst) THEN Heaps(h.frontier \cup {p}, (h.retained \ {worst}) \cup {p}) ELSE h

QueueAfter(h, batch) ==
  LET after[n \in 0..Len(batch)] == IF n = 0 THEN h ELSE Queue(after[n - 1], batch[n])
  IN  after

\* processNode, for one node of a batch.
ProcessNode(s, p) ==
  LET fresh == Unseen(s.seen, p, 0)
  IN  [seen |-> Mark(s.seen, ToSet(fresh)), heaps |-> QueueAfter(s.heaps, fresh)[Len(fresh)],
       collected |-> Collect(s.collected, p)]

BeamAfter(s, batch) ==
  LET after[n \in 0..Len(batch)] == IF n = 0 THEN s ELSE ProcessNode(after[n - 1], batch[n])
  IN  after

-----------------------------------------------------------------------------

GraphSearchInit ==
  /\ \E i \in DOMAIN Traversals : traversal \in Traversals[i]
  /\ seen = Acquired(traversal.pool) /\ expanded = Acquired(traversal.pool)
  /\ entry = traversal.entryPoint /\ layer = Len(traversal.layers) - 1
  /\ frontier = {} /\ retained = {} /\ popped = {} /\ overflow = <<>> /\ collected = {}
  /\ work = "start"

\* A small HNSW or Vamana index is scanned, but not for groups.
ScanSmall ==
  /\ work = "start" /\ traversal.kind # "diskann" /\ traversal.groupCount = 0 /\ Small
  /\ retained' = Closest({p \in Nodes : AcceptNode(p)}, traversal.topK)
  /\ work' = "done"
  /\ UNCHANGED <<traversal, seen, expanded, entry, layer, frontier, popped, overflow, collected>>

Traversed == work = "start" /\ (traversal.kind = "diskann" \/ traversal.groupCount > 0 \/ ~Small)

\* searchHNSWLayer: an upper layer is entered.
EnterLayer ==
  /\ Traversed /\ layer > 0
  /\ seen' = Mark(Cleared(seen), {entry}) /\ expanded' = Cleared(expanded)
  /\ frontier' = {entry} /\ retained' = {entry}
  /\ work' = "descend"
  /\ UNCHANGED <<traversal, entry, layer, popped, overflow, collected>>

Descend ==
  /\ work = "descend" /\ frontier # {}
  /\ LET current == NearestNode(frontier)
         fresh == Unseen(seen, current, layer)
         h == LayerAfter(Heaps(frontier \ {current}, retained), fresh)[Len(fresh)]
     IN  /\ ~NodeBetter(NearestNode(retained), current)
         /\ seen' = Mark(seen, ToSet(fresh)) /\ frontier' = h.frontier /\ retained' = h.retained
  /\ UNCHANGED <<traversal, expanded, entry, layer, popped, overflow, collected, work>>

LeaveLayer ==
  /\ work = "descend"
  /\ frontier # {} => NodeBetter(NearestNode(retained), NearestNode(frontier))
  /\ entry' = NearestNode(retained) /\ layer' = layer - 1
  /\ frontier' = {} /\ retained' = {} /\ work' = "start"
  /\ UNCHANGED <<traversal, seen, expanded, popped, overflow, collected>>

\* The base layer is entered.
EnterBase ==
  /\ Traversed /\ layer = 0
  /\ seen' = Mark(Cleared(seen), {entry}) /\ expanded' = Cleared(expanded)
  /\ work' = IF traversal.kind = "diskann" THEN "beam" ELSE IF UseBlockHeap THEN "block" ELSE "dual"
  /\ frontier' = IF work' = "block" THEN {} ELSE {entry}
  /\ retained' = IF work' = "dual" /\ ~AcceptNode(entry) THEN {} ELSE {entry}
  /\ UNCHANGED <<traversal, entry, layer, popped, overflow, collected>>

\* searchHNSWBase, searchVamanaGraph: one round.
ExpandDual ==
  /\ work = "dual" /\ frontier # {}
  /\ LET current == NearestNode(frontier)
         fresh == Unseen(seen, current, 0)
         h == HeapsAfter(Heaps(frontier \ {current}, retained), fresh)[Len(fresh)]
     IN  /\ ~(Full(Heaps(frontier, retained)) /\ WorstScore(retained) < traversal.score[current])
         /\ seen' = Mark(seen, ToSet(fresh)) /\ frontier' = h.frontier /\ retained' = h.retained
  /\ UNCHANGED <<traversal, expanded, entry, layer, popped, overflow, collected, work>>

\* searchHNSWBaseBlockHeap, searchVamanaGraphBlockHeap: one round.
ExpandBlock ==
  /\ work = "block" /\ (retained \ popped # {} \/ overflow # <<>>)
  /\ LET waiting == retained \ popped
         current == IF waiting # {} THEN BestResult(waiting) ELSE Head(overflow)
         fresh == IF Marked(expanded, current) THEN <<>> ELSE Unseen(seen, current, 0)
         after == PushBlock(retained, fresh)
         rest == IF waiting # {} THEN overflow ELSE Tail(overflow)
     IN  /\ popped' = IF waiting # {} THEN popped \cup {current} ELSE popped
         /\ expanded' = Mark(expanded, {current}) /\ seen' = Mark(seen, ToSet(fresh))
         /\ retained' = after
         /\ overflow' = rest \o BoundaryTies(retained, after, fresh)
  /\ UNCHANGED <<traversal, entry, layer, frontier, collected, work>>

\* searchDiskANNGraph: one batch of the beam is read and processed.
ExpandBeam ==
  /\ work = "beam" /\ BeamBatch # <<>>
  /\ LET s == BeamAfter([seen |-> seen, heaps |-> Heaps(frontier \ ToSet(BeamBatch), retained), collected |-> collected],
                        BeamBatch)[Len(BeamBatch)]
     IN  seen' = s.seen /\ frontier' = s.heaps.frontier /\ retained' = s.heaps.retained /\ collected' = s.collected
  /\ expanded' = Mark(expanded, ToSet(BeamBatch))
  /\ UNCHANGED <<traversal, entry, layer, popped, overflow, work>>

\* The loop of the base layer is over.
Stopped ==
  \/ work = "dual" /\ (frontier # {} => /\ Full(Heaps(frontier, retained))
                                       /\ WorstScore(retained) < traversal.score[NearestNode(frontier)])
  \/ work = "block" /\ retained \subseteq popped /\ overflow = <<>>
  \/ work = "beam" /\ BeamBatch = <<>>

FinishSearch ==
  /\ Stopped /\ traversal.groupCount = 0
  /\ work' = "done"
  /\ UNCHANGED <<traversal, seen, expanded, entry, layer, frontier, retained, popped, overflow, collected>>

-----------------------------------------------------------------------------
(* expandHNSWGroups.  collected holds the nodes that were added to groups. *)

GroupsOf(S) == {traversal.group[p] : p \in S}

Initial == Closest(retained, Wanted)

BeginGroups ==
  /\ Stopped /\ traversal.groupCount > 0
  /\ collected' = Initial
  /\ IF Cardinality(GroupsOf(Initial)) >= traversal.groupCount \/ Initial = {}
     THEN work' = "done" /\ UNCHANGED <<seen, expanded, frontier>>
     ELSE /\ work' = "groups" /\ frontier' = Initial
          /\ seen' = Mark(Cleared(seen), Initial) /\ expanded' = Cleared(expanded)
  /\ UNCHANGED <<traversal, entry, layer, retained, popped, overflow>>

\* The neighbors are added one by one until there are enough groups.
AddToGroups(s, p) ==
  IF Cardinality(GroupsOf(s.collected)) >= traversal.groupCount THEN s
  ELSE LET added == IF AcceptNode(p) THEN s.collected \cup {p} ELSE s.collected
       IN  [collected |-> added, marked |-> s.marked \cup {p},
            frontier |-> IF Cardinality(GroupsOf(added)) >= traversal.groupCount THEN s.frontier ELSE s.frontier \cup {p}]

GroupsAfter(s, batch) ==
  LET after[n \in 0..Len(batch)] == IF n = 0 THEN s ELSE AddToGroups(after[n - 1], batch[n])
  IN  after

ExpandGroups ==
  /\ work = "groups" /\ frontier # {} /\ Cardinality(GroupsOf(collected)) < traversal.groupCount
  /\ LET current == BestResult(frontier)
         fresh == Unseen(seen, current, 0)
         s == GroupsAfter([collected |-> collected, marked |-> {}, frontier |-> frontier \ {current}], fresh)[Len(fresh)]
     IN  collected' = s.collected /\ frontier' = s.frontier /\ seen' = Mark(seen, s.marked)
  /\ UNCHANGED <<traversal, expanded, entry, layer, retained, popped, overflow, work>>

FinishGroupSearch ==
  /\ work = "groups" /\ (frontier = {} \/ Cardinality(GroupsOf(collected)) >= traversal.groupCount)
  /\ work' = "done"
  /\ UNCHANGED <<traversal, seen, expanded, entry, layer, frontier, retained, popped, overflow, collected>>

GraphSearchNext ==
  \/ ScanSmall \/ EnterLayer \/ Descend \/ LeaveLayer \/ EnterBase
  \/ ExpandDual \/ ExpandBlock \/ ExpandBeam \/ FinishSearch
  \/ BeginGroups \/ ExpandGroups \/ FinishGroupSearch

-----------------------------------------------------------------------------

GraphSearchSpec == GraphSearchInit /\ [][GraphSearchNext]_graphSearchVars

\* What a traversal must have met: the least set that holds the start and the
\* neighbors of each of its nodes that qualifies.
LinkClosed(S, qualified) == \A p \in S \cap qualified : ToSet(Adjacent(p, 0)) \subseteq S
Met(start, qualified) ==
  {p \in Nodes : \A S \in SUBSET Nodes : start \subseteq S /\ LinkClosed(S, qualified) => p \in S}

\* No node of S that is accepted is missing in the best n of the answer.
Complete(answer, n, S) ==
  /\ \A p \in answer : AcceptNode(p)
  /\ \A p \in S : AcceptNode(p) =>
       p \in answer \/ (Cardinality(answer) = n /\ ResultNodeBetter(WorstResult(answer), p))

\* A finished HNSW or Vamana search, with two heaps or with a block heap, has
\* looked behind every node that does as well as the worst of its results, so
\* ties at the end of the list cut off no part of the graph; a descent ends at
\* a node that has no better neighbor in its layer; DiskANN has read every node
\* whose code ranks among the best of the list.  No search stops too early.
\* No mark that returns to the pool is of a generation that comes later: the
\* next search starts unmarked, whatever index it has.
SearchClosed ==
  /\ \A v \in {seen, expanded} : \A p \in DOMAIN v.marks : v.marks[p] <= v.generation
  /\ work \in {"groups", "done"} /\ (traversal.kind = "diskann" \/ traversal.groupCount > 0 \/ ~Small) =>
       /\ traversal.kind # "diskann" =>
            LET tied == {p \in Nodes : Cardinality(retained) < HeapSize \/ traversal.score[p] <= WorstScore(retained)}
            IN  Complete(retained, HeapSize, Met({entry}, tied))
       /\ traversal.kind = "diskann" =>
            LET queued == {p \in Nodes : \/ Cardinality(retained) < HeapSize \/ p = WorstQueued(retained)
                                        \/ QueueBetter(p, WorstQueued(retained))}
            IN  Complete(collected, traversal.topK, Met({entry}, queued) \cap queued)
       /\ Len(traversal.layers) > 1 => \A i \in DOMAIN Adjacent(entry, 1) : ~NodeBetter(Adjacent(entry, 1)[i], entry)
       /\ work = "done" /\ traversal.groupCount > 0 =>
            LET reached == {p \in Met(Initial, Nodes) : AcceptNode(p)}
            IN  Cardinality(GroupsOf(collected)) >= Min({traversal.groupCount, Cardinality(GroupsOf(reached))})
=============================================================================
