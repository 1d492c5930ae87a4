----------------------------- MODULE GraphBuild -----------------------------
(***************************************************************************)
(* What the parallel builds of the proximity graphs share: the input, the  *)
(* graph under construction, and the search of the graph by a worker while *)
(* the others change it.  VamanaBuild and HnswBuild extend this module.    *)
(*                                                                         *)
(* Vectors are points on a line, and no two others are equally far from    *)
(* one: the order within a neighbor list, which only breaks ties of the    *)
(* search, is left out.                                                    *)
(***************************************************************************)
EXTENDS Integers, Sequences, FiniteSets, SequencesExt

CONSTANTS
  Layouts,    \* inputs: kind, points, and the options of the kind
  Inserters   \* the number of workers

VARIABLES
  layout,     \* the input
  entryPoint, \* the position where a search of the graph starts
  links,      \* neighbors
  phase,      \* of the build; at the end "done" or "failed"
  inserter    \* what each worker is doing

Positions == 0..(Len(layout.points) - 1)
Point(p) == layout.points[p + 1]
Distance(p, q) == (Point(p) - Point(q)) * (Point(p) - Point(q))
Nearer(p, q, r) == Distance(p, q) < Distance(p, r) \/ (Distance(p, q) = Distance(p, r) /\ q < r)
Nearest(p, S) == CHOOSE q \in S : \A r \in S \ {q} : Nearer(p, q, r)
Farthest(p, S) == CHOOSE q \in S : \A r \in S \ {q} : Nearer(p, r, q)

\* S in the order of distance from owner.
Sorted(owner, S) ==
  [i \in 1..Cardinality(S) |->
     CHOOSE c \in S : Cardinality({q \in S : Nearer(owner, q, c)}) = i - 1]

\* Only the inputs in use need to be free of ties.
ASSUME NoTies ==
  \A l \in Layouts : \A i, j, k \in DOMAIN l.points :
    (i # j /\ j # k /\ i # k) =>
      l.points[j] # l.points[k] /\ l.points[j] + l.points[k] # 2 * l.points[i]

-----------------------------------------------------------------------------
(* The search for candidates: frontier is what is still to be expanded,    *)
(* retained the best so far, visited what was met.                         *)

\* A worker that has nothing to do: node is the last one it inserted.
Idle == [step |-> "idle", node |-> -1, level |-> 0, frontier |-> {}, retained |-> {}, visited |-> {},
         pending |-> <<>>, candidates |-> {}, version |-> 0]

Searching(s, entry) ==
  [s EXCEPT !.step = "search", !.frontier = {entry}, !.retained = {entry}, !.visited = {entry}]

\* The search stops when all that is left is farther than what is retained.
SearchEnded(s, limit) ==
  \/ s.frontier = {}
  \/ /\ s.frontier # {}
     /\ Cardinality(s.retained) >= limit
     /\ Nearer(s.node, Farthest(s.node, s.retained), Nearest(s.node, s.frontier))

\* A round of the loop: the list of the nearest of the frontier has been read.
Expanded(s, limit, neighbors) ==
  LET current == Nearest(s.node, s.frontier)
      fresh   == neighbors[current] \ s.visited
      all     == s.retained \cup fresh
      kept    == {q \in all : Cardinality({r \in all : Nearer(s.node, r, q)}) < limit}
  IN  [s EXCEPT !.frontier = (@ \ {current}) \cup (kept \cap fresh),
                !.retained = kept, !.visited = @ \cup fresh]

\* The nodes that a search of graph can reach.
ReachableFrom(p, graph) ==
  LET reach[i \in 0..Cardinality(Positions)] ==
        IF i = 0 THEN {p} ELSE LET S == reach[i - 1] IN S \cup UNION {graph[q] : q \in S}
  IN  reach[Cardinality(Positions)]

-----------------------------------------------------------------------------
(* Properties.                                                             *)

\* Every build ends, with a graph or with the error of its context: a worker
\* prunes a list again only when another one has finished with it, and none
\* waits for another while it holds a lock.
BuildEnds == phase \in {"seed", "insert"} ~> phase \in {"done", "failed"}
=============================================================================
