----------------------------- MODULE MCDataPath -----------------------------
(***************************************************************************)
(* What a document passes on its way from a write to an answer: every      *)
(* behavior is one of the write-ahead log, or of the primary-key map, or a *)
(* query over the segments of a snapshot, or a search of one graph.        *)
(***************************************************************************)
EXTENDS Wal, PrimaryKeyMap, SegmentQuery, GraphSearch

AtMostOne == {{}} \cup {{k} : k \in 1..4}

\* The document that is written later would be the best.
Scores == {f \in [1..5 -> {1, 2}] : f[5] = 1}

\* Two or three groups.
Groupings == {f \in [1..5 -> 1..3] : f[1] = 1 /\ f[2] # 3 /\ f[4] # 3 /\ f[5] = 1}

Split == <<{1, 2}, {3, 4}>>
Whole == <<{1, 2, 3, 4}>>

Visible == [deleted |-> {}, rejected |-> {}, null |-> {}, filtered |-> FALSE]

\* Documents that are deleted, rejected by the filter, or have no vector.
Visibilities ==
  {[Visible EXCEPT !.deleted = k] : k \in AtMostOne} \cup {[Visible EXCEPT !.null = k] : k \in AtMostOne}
  \cup {[Visible EXCEPT !.filtered = TRUE, !.rejected = k] : k \in AtMostOne \cup {{1, 4}, {3, 4}}}
Rejections == {[Visible EXCEPT !.filtered = (k # {}), !.rejected = k] : k \in {{}, {3, 4}}}

Snapshot(documents, visible, score, misjudged, group) ==
  [documents |-> documents, deleted |-> visible.deleted, rejected |-> visible.rejected, null |-> visible.null,
   filtered |-> visible.filtered, score |-> score, misjudged |-> misjudged, group |-> group]
OneGroup == [k \in 1..5 |-> 1]

Searched ==
  {Snapshot(d, v, <<f>>, m, OneGroup) : d \in {Split, Whole}, v \in Visibilities, f \in Scores, m \in {{}, {2}}}
Grouped ==
  {Snapshot(Split, v, <<f>>, m, g) : v \in Rejections, f \in Scores, m \in {{}, {2}}, g \in Groupings}
Fusable(scores) ==
  {Snapshot(Split, [Visible EXCEPT !.deleted = d, !.null = n], <<f, g>>, {}, OneGroup) :
     d \in {{}, {1}}, n \in {{}, {2}}, f \in scores, g \in Scores}

Request == [op |-> {"query"}, refine |-> {FALSE}, linear |-> {FALSE}, radius |-> {0}, index |-> {"flat"},
            writing |-> {TRUE}, groupCount |-> {1}, reranker |-> {"rrf"}, weights |-> {<<>>}]
Requests(r) ==
  [op : r.op, refine : r.refine, linear : r.linear, radius : r.radius, index : r.index,
   writing : r.writing, groupCount : r.groupCount, reranker : r.reranker,
   weights : r.weights]

\* Both branches count, one counts against, one is ignored; too few weights.
Weights == {<<1, 2>>, <<1, -1>>, <<-2, 0>>, <<1>>}

\* Every kind of index, parameter and visibility; a graph that is scanned and
\* filters without a vector; groups; a vector and a full-text branch.
MCCases ==
  <<[snapshot : Searched,
     request : Requests([Request EXCEPT !.refine = BOOLEAN, !.radius = {0, 1}, !.index = {"flat", "graph"}, !.writing = BOOLEAN])],
    [snapshot : Searched, request : Requests([Request EXCEPT !.op = {"query", "filter"}, !.linear = {TRUE}, !.index = {"graph"}])],
    [snapshot : Grouped,
     request : Requests([Request EXCEPT !.op = {"group"}, !.refine = BOOLEAN, !.index = {"flat", "graph"}, !.groupCount = {1, 2}])],
    [snapshot : Fusable(Scores), request : Requests([Request EXCEPT !.op = {"multi"}])],
    [snapshot : Fusable(Scores), request : Requests([Request EXCEPT !.op = {"multi"}, !.reranker = {"weighted"}, !.weights = Weights])],
    [snapshot : Fusable({<<1, 2, 2, 1, 1>>}), request : Requests([Request EXCEPT !.op = {"multi"}, !.reranker = {"callback"}])]>>

-----------------------------------------------------------------------------

\* The pool has nothing, or marks of a larger index whose generation wraps
\* around during the next search.
NoMarks == [marks |-> <<>>, generation |-> 0]
Worn == [marks |-> <<3, 1, 0, 3, 2, 3>>, generation |-> 3]

Five == <<1, 2, 3, 4, 5>>
Backwards == <<5, 4, 3, 2, 1>>

\* Graphs of five nodes that are entered at the first.
Links ==
  {<<a, b, c, d, e>> : a \in {<<2>>, <<2, 3>>}, b \in {<<>>, <<3>>, <<4>>, <<5>>}, c \in {<<>>, <<2>>, <<4>>, <<5>>},
                       d \in {<<>>, <<3>>, <<5>>}, e \in {<<>>, <<4>>, <<2>>}}
TwoScores == {f \in [1..5 -> {1, 2}] : f[1] = 2}
ThreeScores == {f \in [1..5 -> 1..3] : f[1] = 2 /\ f[2] # 1}

Search ==
  [kind |-> {"hnsw"}, layers |-> {<<g>> : g \in Links}, score |-> TwoScores, key |-> {Five}, code |-> {Five},
   rejected |-> {{}}, filtered |-> {FALSE}, radius |-> {0}, ef |-> {1}, topK |-> {1}, groupCount |-> {0},
   group |-> {Five}, beam |-> {1}, entryPoint |-> {1}, pool |-> {NoMarks}]
Traversal(t) ==
  [kind : t.kind, layers : t.layers, score : t.score, key : t.key, code : t.code, rejected : t.rejected,
   filtered : t.filtered, radius : t.radius, ef : t.ef, topK : t.topK, groupCount : t.groupCount, group : t.group,
   beam : t.beam, entryPoint : t.entryPoint, pool : t.pool]

SomeLinks == {g \in Links : g[1] = <<2, 3>> /\ g[5] = <<>>}
Upper == {<<a, b, <<>>, c, <<>>>> : a \in {<<4>>, <<2, 4>>}, b \in {<<>>, <<4>>}, c \in {<<>>, <<2>>}}

\* The block heap and its ties; two heaps with a filter or a radius; a small
\* index; a descent; groups; Vamana; DiskANN with codes of its own.
MCTraversals ==
  <<Traversal([Search EXCEPT !.key = {Five, Backwards}, !.ef = {1, 2}]),
    Traversal([Search EXCEPT !.filtered = {TRUE}, !.rejected = {{2}, {4, 5}}, !.ef = {1, 2}]),
    Traversal([Search EXCEPT !.radius = {2}, !.score = ThreeScores, !.layers = {<<g>> : g \in SomeLinks}]),
    Traversal([Search EXCEPT !.layers = {<<<<<<2>>, <<1>>>>>>}, !.score = {<<1, 2>>, <<2, 1>>, <<1, 1>>}, !.key = {<<1, 2>>},
                             !.code = {<<1, 2>>}, !.group = {<<1, 2>>}]),
    Traversal([Search EXCEPT !.layers = {<<g, u>> : g \in SomeLinks, u \in Upper}, !.pool = {NoMarks, Worn}]),
    Traversal([Search EXCEPT !.layers = {<<g>> : g \in SomeLinks}, !.groupCount = {2}, !.group = {<<1, 1, 1, 2, 1>>, <<1, 1, 2, 2, 3>>},
                             !.filtered = {TRUE}, !.rejected = {{}, {2}, {1, 3}}, !.pool = {NoMarks, Worn}]),
    Traversal([Search EXCEPT !.kind = {"vamana"}, !.layers = {<<g>> : g \in SomeLinks}, !.ef = {2, 6}, !.topK = {2}]),
    Traversal([Search EXCEPT !.kind = {"diskann"}, !.layers = {<<g>> : g \in SomeLinks}, !.code = TwoScores, !.score = {Backwards},
                             !.filtered = {TRUE}, !.rejected = {{}, {2}}, !.ef = {1, 2, 3}, !.beam = {1, 2}])>>

-----------------------------------------------------------------------------

LogOff ==
  /\ file = <<>> /\ tail = "none" /\ synced = 0
  /\ handle = [h \in Handles |-> Closed] /\ reader = [r \in Readers |-> NoReader]
  /\ promised = <<>> /\ cleanClose = FALSE

KeyMapOff ==
  /\ checkpoints = Empty /\ maps = [h \in MapHandles |-> NoMap] /\ iterator = NoIterator
  /\ calls = [h \in MapHandles |-> NoCall] /\ writes = 0 /\ served = [h \in MapHandles |-> Empty]

NoQuery == [Running EXCEPT !.status = "off"]
QueryOff ==
  /\ snapshot = <<>> /\ request = [op |-> "none"] /\ storage = <<>> /\ branch = 1 /\ stage = <<>>
  /\ candidates = <<>> /\ batches = <<>> /\ lists = <<>> /\ outcome = NoQuery

GraphSearchOff ==
  /\ traversal = <<>> /\ seen = NoMarks /\ expanded = NoMarks /\ entry = 0 /\ layer = 0
  /\ frontier = {} /\ retained = {} /\ popped = {} /\ overflow = <<>> /\ collected = {} /\ work = "off"

\* The part of the system that a behavior is about.
VARIABLE part

dataPathVars == <<vars, keyMapVars, queryVars, graphSearchVars, part>>

DataPathInit ==
  \/ part = "log" /\ Init /\ KeyMapOff /\ QueryOff /\ GraphSearchOff
  \/ part = "map" /\ KeyMapInit /\ LogOff /\ QueryOff /\ GraphSearchOff
  \/ part = "query" /\ QueryInit /\ LogOff /\ KeyMapOff /\ GraphSearchOff
  \/ part = "graph" /\ GraphSearchInit /\ LogOff /\ KeyMapOff /\ QueryOff

DataPathNext ==
  /\ UNCHANGED part
  /\ \/ part = "log" /\ Next /\ UNCHANGED <<keyMapVars, queryVars, graphSearchVars>>
     \/ part = "map" /\ KeyMapNext /\ UNCHANGED <<vars, queryVars, graphSearchVars>>
     \/ part = "query" /\ QueryNext /\ UNCHANGED <<vars, keyMapVars, graphSearchVars>>
     \/ part = "graph" /\ GraphSearchNext /\ UNCHANGED <<vars, keyMapVars, queryVars>>
     \/ part = "query" /\ outcome # Running /\ UNCHANGED <<vars, keyMapVars, queryVars, graphSearchVars>>
     \/ part = "graph" /\ work = "done" /\ UNCHANGED <<vars, keyMapVars, queryVars, graphSearchVars>>

DataPathSpec == DataPathInit /\ [][DataPathNext]_dataPathVars
=============================================================================
