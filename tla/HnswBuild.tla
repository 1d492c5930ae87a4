----------------------------- MODULE HnswBuild -----------------------------
(***************************************************************************)
(* buildParallelHNSW: the layered graph of an HNSW index, built by several *)
(* workers.  A node is linked layer by layer, from its highest one down,   *)
(* and the others meet it while its lower layers are still empty.  Every   *)
(* list has a lock; the entry point has its own, taken twice per insert.   *)
(***************************************************************************)
EXTENDS GraphBuild

VARIABLES
  maxLevel,  \* the level of the entry point
  next       \* the next position to be claimed (ParallelFor)

hnswVars == <<layout, entryPoint, links, phase, inserter, maxLevel, next>>

Level(p) == layout.levels[p + 1]
MaxDegree(level) == IF level = 0 THEN 2 * layout.m ELSE layout.m

\* The lists of one layer.
Layer(level) == [p \in Positions |-> IF level <= Level(p) THEN links[p][level] ELSE {}]

\* selectNeighbors: nearest first, a candidate is selected that is nearer to
\* owner than to any selected before it.
SelectNeighbors(owner, candidates, limit) ==
  LET others == candidates \ {owner}
  IN  CHOOSE selected \in SUBSET others :
        \A c \in others :
          LET before == {q \in selected : Nearer(owner, q, c)}
          IN  c \in selected <=>
                /\ Cardinality(before) < limit
                /\ \A q \in before : Distance(owner, c) < Distance(c, q)

\* mergeNeighbors: the list of owner with additions, cut when it is too long.
Merged(owner, additions, level) ==
  LET merged == links[owner][level] \cup (additions \ {owner})
  IN  IF Cardinality(merged) <= MaxDegree(level) THEN merged
      ELSE SelectNeighbors(owner, merged, MaxDegree(level))

-----------------------------------------------------------------------------

HnswInit ==
  /\ layout \in {l \in Layouts : l.kind = "hnsw"}
  /\ entryPoint = 0 /\ maxLevel = Level(0)
  /\ links = [p \in Positions |-> [level \in 0..Level(p) |-> {}]]
  /\ phase = "insert" /\ next = 1
  /\ inserter = [w \in 1..Inserters |-> Idle]

\* ParallelFor gives a worker the next position.
Claim(w) ==
  /\ phase = "insert" /\ inserter[w].step = "idle" /\ next \in Positions
  /\ next' = next + 1
  /\ inserter' = [inserter EXCEPT ![w] = [Idle EXCEPT !.step = "enter", !.node = next]]
  /\ UNCHANGED <<layout, entryPoint, links, phase, maxLevel>>

\* insert starts from a snapshot of the entry point.
Enter(w) ==
  /\ inserter[w].step = "enter"
  /\ inserter' = [inserter EXCEPT ![w] = Searching([@ EXCEPT !.level = maxLevel], entryPoint)]
  /\ UNCHANGED <<layout, entryPoint, links, phase, maxLevel, next>>

\* Above the level of its node a worker looks only for the nearest node.
Width(s) == IF s.level > Level(s.node) THEN 1 ELSE Min({layout.ef, Cardinality(Positions)})

\* searchLayer: a list is read under its lock.
SearchLayer(w) ==
  LET s == inserter[w]
  IN  /\ s.step = "search" /\ ~SearchEnded(s, Width(s))
      /\ inserter' = [inserter EXCEPT ![w] = Expanded(s, Width(s), Layer(s.level))]
      /\ UNCHANGED <<layout, entryPoint, links, phase, maxLevel, next>>

\* The worker goes on one layer down, or has linked its node in every layer.
Below(s) ==
  IF s.level = 0 THEN [Idle EXCEPT !.step = "publish", !.node = s.node]
  ELSE Searching([Idle EXCEPT !.node = s.node, !.level = s.level - 1], Nearest(s.node, s.retained))

\* The worker's node has still to join the lists of pending in this layer.
Reversing(s, pending) ==
  IF pending = <<>> THEN Below(s) ELSE [s EXCEPT !.step = "reverse", !.pending = pending]

Descend(w) ==
  LET s == inserter[w]
  IN  /\ s.step = "search" /\ SearchEnded(s, Width(s)) /\ s.level > Level(s.node)
      /\ inserter' = [inserter EXCEPT ![w] = Below(s)]
      /\ UNCHANGED <<layout, entryPoint, links, phase, maxLevel, next>>

\* Mutant: the list of a new node is set, as if nobody could have met the node.
MergeOwnOverwrites(w) ==
  LET s        == inserter[w]
      selected == SelectNeighbors(s.node, s.retained, MaxDegree(s.level))
  IN  /\ s.step = "search" /\ SearchEnded(s, Width(s)) /\ s.level <= Level(s.node)
      /\ links' = [links EXCEPT ![s.node][s.level] = selected]
      /\ inserter' = [inserter EXCEPT ![w] = Reversing(s, Sorted(s.node, selected))]
      /\ UNCHANGED <<layout, entryPoint, phase, maxLevel, next>>

\* The neighbors found join the node's own list.
MergeOwn(w) ==
  LET s        == inserter[w]
      selected == SelectNeighbors(s.node, s.retained, MaxDegree(s.level))
  IN  /\ s.step = "search" /\ SearchEnded(s, Width(s)) /\ s.level <= Level(s.node)
      /\ links' = [links EXCEPT ![s.node][s.level] = Merged(s.node, selected, s.level)]
      /\ inserter' = [inserter EXCEPT ![w] = Reversing(s, Sorted(s.node, selected))]
      /\ UNCHANGED <<layout, entryPoint, phase, maxLevel, next>>

\* Then the node joins the list of each of them, and the layer is done.
MergeReverse(w) ==
  LET s == inserter[w]
  IN  /\ s.step = "reverse"
      /\ links' = [links EXCEPT ![Head(s.pending)][s.level] = Merged(Head(s.pending), {s.node}, s.level)]
      /\ inserter' = [inserter EXCEPT ![w] = Reversing(s, Tail(s.pending))]
      /\ UNCHANGED <<layout, entryPoint, phase, maxLevel, next>>

\* A node of a higher level becomes the entry point.
PublishEntry(w) ==
  LET s == inserter[w]
  IN  /\ s.step = "publish"
      /\ IF Level(s.node) > maxLevel THEN entryPoint' = s.node /\ maxLevel' = Level(s.node)
         ELSE UNCHANGED <<entryPoint, maxLevel>>
      /\ inserter' = [inserter EXCEPT ![w] = Idle]
      /\ UNCHANGED <<layout, links, phase, next>>

FinishHnsw ==
  /\ phase = "insert" /\ next \notin Positions
  /\ \A w \in 1..Inserters : inserter[w].step = "idle"
  /\ phase' = "done"
  /\ UNCHANGED <<layout, entryPoint, links, inserter, maxLevel, next>>

\* The context is cancelled: the error discards the graph.
CancelHnsw ==
  /\ phase = "insert"
  /\ phase' = "failed"
  /\ links' = [p \in Positions |-> [level \in 0..Level(p) |-> {}]]
  /\ inserter' = [w \in 1..Inserters |-> Idle]
  /\ UNCHANGED <<layout, entryPoint, maxLevel, next>>

InsertHnsw(w) ==
  Claim(w) \/ Enter(w) \/ SearchLayer(w) \/ Descend(w) \/ MergeOwn(w) \/ MergeReverse(w) \/ PublishEntry(w)

HnswNext ==
  /\ layout.kind = "hnsw"
  /\ (\E w \in 1..Inserters : InsertHnsw(w)) \/ FinishHnsw \/ CancelHnsw

\* Every goroutine runs until its function returns.
HnswFairness ==
  /\ \A w \in 1..Inserters : WF_hnswVars(layout.kind = "hnsw" /\ InsertHnsw(w))
  /\ WF_hnswVars(layout.kind = "hnsw" /\ FinishHnsw)

-----------------------------------------------------------------------------
(* Properties.                                                             *)

\* "multiple workers preserve graph invariants" (hnsw_algorithm.go:299): a
\* finished graph passes validateHNSWIndex, which only a later open of the file
\* calls, and can be searched.  Its entry point has the highest level of all; no
\* list is too long, names its owner or a node that is not in the layer; and
\* where no list was cut every node is reachable: no schedule leaves an island
\* around a node that was met while its lowest layer was still empty, and no
\* list loses what others have put into it.
HnswServes ==
  (layout.kind = "hnsw" /\ phase = "done") =>
    /\ maxLevel = Max({Level(p) : p \in Positions}) /\ Level(entryPoint) = maxLevel
    /\ \A p \in Positions : \A level \in 0..Level(p) : \A q \in links[p][level] :
         Cardinality(links[p][level]) <= MaxDegree(level) /\ q # p /\ Level(q) >= level
    /\ 2 * layout.m >= Cardinality(Positions) - 1 => ReachableFrom(entryPoint, Layer(0)) = Positions
=============================================================================
