---------------------------- MODULE VamanaBuild ----------------------------
(***************************************************************************)
(* buildInterleaved: the proximity graph of a DiskANN index, built by      *)
(* several workers.  A worker searches the graph that the others are       *)
(* changing, publishes the links of its node, and adds the reverse links;  *)
(* a full list is pruned outside its lock and replaced only if its version *)
(* has not changed meanwhile.                                              *)
(***************************************************************************)
EXTENDS GraphBuild

VARIABLE versions  \* vamanaBuildLocks.versions

\* NewVamanaBuilder rejects a degree or a list size that is not positive.
ASSUME VamanaConstants ==
  /\ Inserters \in Nat
  /\ \A l \in Layouts : l.kind = "vamana" =>
       /\ l.points \in Seq(Int) /\ l.points # <<>>
       /\ l.maxDegree \in Nat \ {0} /\ l.listSize \in Nat \ {0}

vamanaVars == <<layout, entryPoint, links, versions, phase, inserter>>

\* calculateMedoid: the position nearest to the centroid of points.
Medoid(points) ==
  LET n      == Len(points)
      sum[i \in 0..n] == IF i = 0 THEN 0 ELSE points[i] + sum[i - 1]
      off(i) == (n * points[i] - sum[n]) * (n * points[i] - sum[n])
  IN  (CHOOSE i \in 1..n : \A j \in 1..n : off(i) < off(j) \/ (off(i) = off(j) /\ i <= j)) - 1

\* The room of a list while the graph is built: vamanaGraphSlackFactor is 1.3.
MaxBuildDegree == Max({layout.maxDegree, (13 * layout.maxDegree) \div 10})

\* A pass of robustPrune goes through the candidates, nearest first, and selects
\* while there is room; one selected before and nearer occludes a candidate that
\* it is closer to than owner is, by the factor alpha (in tenths).
PrunePass(owner, others, taken, alpha) ==
  CHOOSE selected \in SUBSET others :
    \A c \in others :
      LET nearer == {q \in selected : Nearer(owner, q, c)}
      IN  c \in selected <=>
            \/ c \in taken
            \/ /\ Cardinality(taken \cup nearer) < layout.maxDegree
               /\ ~\E q \in nearer : alpha # 0 /\ 10 * Distance(owner, c) > alpha * Distance(q, c)

\* robustPrune, in the order of selection.  The graph of DiskANN is saturated:
\* in the last pass nothing occludes.
RobustPrune(owner, candidates) ==
  LET others == candidates \ {owner}
      pass(alpha) == [taken \in SUBSET others |-> PrunePass(owner, others, taken, alpha)]
      first  == pass(10)[{}]
      second == pass(12)[first]
      third  == pass(0)[second]
  IN  Sorted(owner, first) \o Sorted(owner, second \ first) \o Sorted(owner, third \ second)

-----------------------------------------------------------------------------

SeedEnd == Min({Cardinality(Positions), layout.listSize})

\* The positions that worker w inserts, in order: the first one the seeds, then
\* each every Inserters-th position.
Schedule(w) ==
  IF phase = "seed" THEN {p \in 0..(SeedEnd - 1) : w = 1 /\ p # entryPoint}
  ELSE {p \in SeedEnd..(Cardinality(Positions) - 1) : (p - SeedEnd) % Inserters = w - 1 /\ p # entryPoint}

Remaining(w) == {p \in Schedule(w) : p > inserter[w].node}

VamanaInit ==
  /\ layout \in {l \in Layouts : l.kind = "vamana"}
  /\ entryPoint = Medoid(layout.points)
  /\ links = [p \in Positions |-> {}]
  /\ versions = [p \in Positions |-> 0]
  /\ phase = "seed"
  /\ inserter = [w \in 1..Inserters |-> Idle]

\* insertNodeInterleaved of the next position starts its search at the entry.
StartInsert(w) ==
  /\ phase \in {"seed", "insert"}
  /\ inserter[w].step = "idle" /\ Remaining(w) # {}
  /\ inserter' = [inserter EXCEPT ![w] =
       Searching([@ EXCEPT !.node = Min(Remaining(w))], entryPoint)]
  /\ UNCHANGED <<layout, entryPoint, links, versions, phase>>

ListSize == Min({layout.listSize, Cardinality(Positions)})

\* searchBuildCandidatesInterleaved: a list is read under its lock.
Expand(w) ==
  /\ inserter[w].step = "search" /\ ~SearchEnded(inserter[w], ListSize)
  /\ inserter' = [inserter EXCEPT ![w] = Expanded(@, ListSize, links)]
  /\ UNCHANGED <<layout, entryPoint, links, versions, phase>>

\* The worker has the reverse links to pending left, or goes on to its next node.
Linking(node, pending) ==
  IF pending = <<>> THEN [Idle EXCEPT !.node = node]
  ELSE [Idle EXCEPT !.node = node, !.step = "link", !.pending = pending]

Linked(s) == Linking(s.node, Tail(s.pending))

\* publishVamanaNeighborsInterleaved; the list is still empty, because
\* a node is in no list before its own is published.
Publish(w) ==
  LET s        == inserter[w]
      selected == RobustPrune(s.node, s.retained)
  IN  /\ s.step = "search" /\ SearchEnded(s, ListSize)
      /\ links' = [links EXCEPT ![s.node] = Range(selected)]
      /\ versions' = [versions EXCEPT ![s.node] = @ + 1]
      /\ inserter' = [inserter EXCEPT ![w] = Linking(s.node, selected)]
      /\ UNCHANGED <<layout, entryPoint, phase>>

\* What addReverseEdgeInterleaved takes out of the lock: the list with the new
\* link, and the version it belongs to.
Snapshot(s, owner) ==
  [s EXCEPT !.step = "relink", !.candidates = links[owner] \cup {s.node}, !.version = versions[owner]]

\* addReverseEdgeInterleaved: a list with room takes the link at once.
Link(w) ==
  LET s     == inserter[w]
      owner == Head(s.pending)
  IN  /\ s.step = "link"
      /\ \/ /\ s.node \in links[owner]
            /\ inserter' = [inserter EXCEPT ![w] = Linked(s)]
            /\ UNCHANGED <<links, versions>>
         \/ /\ s.node \notin links[owner] /\ Cardinality(links[owner]) < MaxBuildDegree
            /\ links' = [links EXCEPT ![owner] = @ \cup {s.node}]
            /\ versions' = [versions EXCEPT ![owner] = @ + 1]
            /\ inserter' = [inserter EXCEPT ![w] = Linked(s)]
         \/ /\ s.node \notin links[owner] /\ Cardinality(links[owner]) >= MaxBuildDegree
            /\ inserter' = [inserter EXCEPT ![w] = Snapshot(s, owner)]
            /\ UNCHANGED <<links, versions>>
      /\ UNCHANGED <<layout, entryPoint, phase>>

\* Mutant: a list is replaced without a new version of it.
RelinkUnversioned(w) ==
  LET s     == inserter[w]
      owner == Head(s.pending)
  IN  /\ s.step = "relink"
      /\ IF versions[owner] = s.version
         THEN /\ links' = [links EXCEPT ![owner] = Range(RobustPrune(owner, s.candidates))]
              /\ inserter' = [inserter EXCEPT ![w] = Linked(s)]
         ELSE links' = links /\ inserter' = [inserter EXCEPT ![w] = Snapshot(s, owner)]
      /\ UNCHANGED <<layout, entryPoint, versions, phase>>

\* Mutant: a retry keeps the version of the first attempt.
RelinkStale(w) ==
  LET s     == inserter[w]
      owner == Head(s.pending)
  IN  /\ s.step = "relink"
      /\ IF versions[owner] = s.version
         THEN /\ links' = [links EXCEPT ![owner] = Range(RobustPrune(owner, s.candidates))]
              /\ versions' = [versions EXCEPT ![owner] = @ + 1]
              /\ inserter' = [inserter EXCEPT ![w] = Linked(s)]
         ELSE /\ inserter' = [inserter EXCEPT ![w].candidates = links[owner] \cup {s.node}]
              /\ UNCHANGED <<links, versions>>
      /\ UNCHANGED <<layout, entryPoint, phase>>

\* Its loop for a full list: the pruned list is published if the version is
\* the one that was pruned, otherwise the new list is pruned.
Relink(w) ==
  LET s     == inserter[w]
      owner == Head(s.pending)
  IN  /\ s.step = "relink"
      /\ \/ /\ versions[owner] = s.version
            /\ links' = [links EXCEPT ![owner] = Range(RobustPrune(owner, s.candidates))]
            /\ versions' = [versions EXCEPT ![owner] = @ + 1]
            /\ inserter' = [inserter EXCEPT ![w] = Linked(s)]
         \/ /\ versions[owner] # s.version
            /\ inserter' = [inserter EXCEPT ![w] = Snapshot(s, owner)]
            /\ UNCHANGED <<links, versions>>
      /\ UNCHANGED <<layout, entryPoint, phase>>

\* The seeds are in, then every node is.
NextPhase ==
  /\ phase \in {"seed", "insert"}
  /\ \A w \in 1..Inserters : inserter[w].step = "idle" /\ Remaining(w) = {}
  /\ phase' = IF phase = "seed" THEN "insert" ELSE "prune"
  /\ inserter' = [w \in 1..Inserters |-> Idle]
  /\ UNCHANGED <<layout, entryPoint, links, versions>>

Overfull == {p \in Positions : Cardinality(links[p]) > layout.maxDegree}

\* The last ParallelFor: each long list is pruned by itself.
FinalPrune ==
  /\ phase = "prune"
  /\ \E p \in Overfull : links' = [links EXCEPT ![p] = Range(RobustPrune(p, links[p]))]
  /\ UNCHANGED <<layout, entryPoint, versions, phase, inserter>>

FinishBuild ==
  /\ phase = "prune" /\ Overfull = {}
  /\ phase' = "done"
  /\ UNCHANGED <<layout, entryPoint, links, versions, inserter>>

\* The context is cancelled: the error discards the graph.
CancelBuild ==
  /\ phase \in {"seed", "insert", "prune"}
  /\ phase' = "failed"
  /\ links' = [p \in Positions |-> {}] /\ versions' = [p \in Positions |-> 0]
  /\ inserter' = [w \in 1..Inserters |-> Idle]
  /\ UNCHANGED <<layout, entryPoint>>

Insert(w) == StartInsert(w) \/ Expand(w) \/ Publish(w) \/ Link(w) \/ Relink(w)

VamanaNext ==
  /\ layout.kind = "vamana"
  /\ (\E w \in 1..Inserters : Insert(w)) \/ NextPhase \/ FinalPrune \/ FinishBuild \/ CancelBuild

\* Every goroutine runs until its function returns.
VamanaFairness ==
  /\ \A w \in 1..Inserters : WF_vamanaVars(layout.kind = "vamana" /\ Insert(w))
  /\ WF_vamanaVars(layout.kind = "vamana" /\ (NextPhase \/ FinalPrune \/ FinishBuild))

-----------------------------------------------------------------------------
(* Properties.                                                             *)

\* A finished graph passes validateVamanaIndex and can be searched: no list
\* is longer than MaxDegree or names its owner, the entry point has neighbors
\* ("leave the graph unreachable from its entry point", vamana_algorithm.go:378),
\* and where no list was ever cut every node is reachable from it.
VamanaServes ==
  (layout.kind = "vamana" /\ phase = "done") =>
    /\ \A p \in Positions : p \notin links[p] /\ Cardinality(links[p]) <= layout.maxDegree
    /\ Cardinality(Positions) > 1 => links[entryPoint] # {}
    /\ layout.maxDegree >= Cardinality(Positions) - 1 => ReachableFrom(entryPoint, links) = Positions

\* The optimistic replacement of a list loses no link: a link disappears only
\* in a prune that had it among its candidates.
LinksNotLost ==
  [][layout.kind = "vamana" => \A p \in Positions : \A q \in links[p] \ links'[p] :
       \/ phase = "prune" \/ phase' = "failed"
       \/ \E w \in 1..Inserters :
            /\ inserter[w].step = "relink" /\ inserter'[w] # inserter[w]
            /\ Head(inserter[w].pending) = p /\ q \in inserter[w].candidates]_vamanaVars
=============================================================================
