----------------------------- MODULE MCIndexes -----------------------------
(***************************************************************************)
(* The index algorithms: every behavior is a full-text search, or the      *)
(* evaluation of a filter, or a build of a DiskANN graph, or a build of an *)
(* HNSW graph.                                                             *)
(***************************************************************************)
EXTENDS FtsSearch, FilterPlan, VamanaBuild, HnswBuild

Word(tokens) ==
  [type |-> "term", tokens |-> tokens, children |-> <<>>, must |-> FALSE, mustNot |-> FALSE]
Phrase(tokens) == [Word(tokens) EXCEPT !.type = "phrase"]
Group(type, children) == [Word(<<>>) EXCEPT !.type = type, !.children = children]
Seq2(x, y) == Group("sequence", <<x, y>>)
And2(x, y) == Group("and", <<x, y>>)
Plus(raw) == [raw EXCEPT !.must = TRUE]
Minus(raw) == [raw EXCEPT !.mustNot = TRUE]

A == Word(<<"a">>)
B == Word(<<"b">>)
C == Word(<<"c">>)

\* D is a term of no document, Stop a word that analysis removes.
D == Word(<<"d">>)
Stop == Word(<<>>)

Queries ==
  {A, Minus(A), Stop, And2(Stop, Stop), Word(<<"a", "b">>), Phrase(<<"a", "b">>), Phrase(<<>>),
   Seq2(A, B), And2(A, B), Seq2(A, A), Seq2(A, Minus(B)), And2(B, Minus(A)), And2(A, Minus(Phrase(<<"a", "b">>))),
   Group("or", <<A, B, C>>), Seq2(A, Seq2(B, C)), And2(A, And2(A, B)), Group("or", <<A, D>>), And2(A, D),
   Group("or", <<And2(A, B), C, B>>), And2(Seq2(A, B), C), Group("sequence", <<A, Minus(And2(B, C))>>),
   Seq2(Plus(A), B), Group("sequence", <<Plus(A), B, C>>), Group("sequence", <<Plus(C), D, Minus(B)>>),
   Seq2(Plus(A), Plus(B)), Group("or", <<Phrase(<<"a", "b">>), C>>),
   Group("or", <<Seq2(A, Minus(B)), Seq2(B, Minus(C))>>), And2(Seq2(Plus(A), C), B),
   And2(Group("sequence", <<A, B>>), Minus(Seq2(A, C)))}

Texts == {<<"a">>, <<"c">>, <<"a", "b">>, <<"b", "a", "a">>, <<"c", "b", "b", "a">>}

SomeTexts == Texts \ {<<"c">>}

\* TopK is at its limit after one or two documents; the block size cuts the
\* posting list of a frequent term.
Searches ==
  [corpus : [1..4 -> Texts], deleted : {{}}, raw : Queries, op : {"or"}, topK : {1}]
  \cup [corpus : [1..4 -> SomeTexts], deleted : {{1}}, raw : Queries, op : {"or"}, topK : {2}]
  \cup [corpus : {<<<<"a">>, <<"b", "a">>, <<"b">>>>}, deleted : {{}}, raw : Queries, op : {"and"}, topK : {0, 1, 2}]
  \cup [corpus : [1..5 -> {<<"a">>, <<"c", "a">>, <<"c", "c", "a">>, <<"b", "c", "c", "c">>}], deleted : {{}},
        raw : {A, Seq2(A, B), And2(A, C), Group("or", <<A, B, C>>)}, op : {"or"}, topK : {1}]

\* Searches with a required part beside an optional group or a repeated leaf.
RequiredSearches ==
  [corpus : {<<<<"a">>, <<"b">>, <<"a", "b">>, <<"c">>>>}, deleted : {{}},
   raw : {Seq2(Plus(A), And2(B, C)), And2(Seq2(Plus(A), B), B)}, op : {"or"}, topK : {4}]

-----------------------------------------------------------------------------

Null == [null |-> TRUE, items |-> <<>>]
Value(items) == [null |-> FALSE, items |-> items]
Row(n, tags, s) == [n |-> n, tags |-> tags, s |-> s]

\* Terms that repeat, an array with a repeated and with no element, a string
\* that overlaps itself, one with a percent sign, and NULLs.
SampleRows ==
  {Row(Null, Null, Null),
   Row(Value(<<<<1>>>>), Value(<<>>), Value(<<<<1, 2>>>>)),
   Row(Value(<<<<2>>>>), Value(<<<<1>>, <<1>>>>), Value(<<<<1, 2, 2>>>>)),
   Row(Value(<<<<3>>>>), Value(<<<<2>>>>), Value(<<<<1, Percent>>>>)),
   Row(Value(<<<<5>>>>), Value(<<<<1>>, <<2>>>>), Value(<<<<>>>>))}

FewRows == SampleRows \ {Row(Value(<<<<3>>>>), Value(<<<<2>>>>), Value(<<<<1, Percent>>>>))}

Plain(op, field, set) == Predicate(op, FALSE, FALSE, field, set)
Not(p) == [p EXCEPT !.negated = TRUE]
Length(op, n) == Predicate(op, FALSE, TRUE, "tags", <<<<n>>>>)
Or(x, y) == Logical("or", x, y)
Both(x, y) == Logical("and", x, y)

N(op, n) == Plain(op, "n", <<<<n>>>>)
Like(raw) == Plain("like", "s", <<raw>>)

Leaves ==
  {N(op, n) : op \in Comparisons, n \in {2, 4}} \cup {Length(op, 1) : op \in Comparisons}
  \cup {Plain(op, "tags", set) : op \in {"all", "any"}, set \in {<<>>, <<<<1>>>>, <<<<1>>, <<2>>>>}}
  \cup {Not(Plain(op, "tags", set)) : op \in {"all", "any"}, set \in {<<>>, <<<<1>>>>}}
  \cup {Plain("null", f, <<>>) : f \in {"n", "tags", "s"}} \cup {Not(Plain("null", "tags", <<>>))}
  \cup {Plain("in", "n", <<<<1>>, <<3>>>>), Not(Plain("in", "n", <<<<1>>, <<4>>>>))}
  \cup {Like(raw) : raw \in {<<>>, <<1, 2>>, <<Percent>>, <<1, Percent>>, <<Percent, 2>>, <<1, 2, Percent, 2>>,
                             <<Percent, 2, Percent>>, <<1, Underscore>>, <<1, Backslash, Percent>>,
                             <<1, Percent, Percent>>, <<1, Backslash>>}}

Expressions ==
  Leaves
  \cup {Or(N("eq", 1), N("eq", 3)), Or(N("eq", 1), Or(Like(<<1, Percent>>), Plain("in", "n", <<<<2>>, <<3>>>>))),
        Or(N("ne", 1), N("eq", 1)), Or(N("eq", 1), Not(Plain("in", "n", <<<<1>>>>))),
        Or(Length("eq", 1), Length("eq", 2)), Or(Both(N("eq", 1), Length("eq", 0)), N("eq", 3))}
  \cup {Both(x, y) : x \in {N("ge", 2), Plain("all", "tags", <<>>), Plain("any", "tags", <<>>)},
                     y \in {Like(<<Percent, 2>>), N("lt", 5), Not(Plain("all", "tags", <<>>))}}
  \cup {Or(x, y) : x \in {N("ge", 2), Plain("all", "tags", <<>>), Plain("any", "tags", <<>>)},
                   y \in {Like(<<Percent, 2>>), N("lt", 2), Not(Plain("all", "tags", <<>>))}}

\* n is the integer field, tags the array, s the string.
Fields3(n, range, tags, s, extended) ==
  [n |-> [array |-> FALSE, integer |-> TRUE, indexed |-> n, rangeOptimized |-> range, extendedWildcard |-> FALSE],
   tags |-> [array |-> TRUE, integer |-> TRUE, indexed |-> tags, rangeOptimized |-> FALSE, extendedWildcard |-> FALSE],
   s |-> [array |-> FALSE, integer |-> FALSE, indexed |-> s, rangeOptimized |-> FALSE, extendedWildcard |-> extended]]

\* Rows as the documents of segments of the given sizes.
Segments(rows, sizes) ==
  LET before(i) == FoldLeft(LAMBDA x, y : x + y, 0, SubSeq(sizes, 1, i - 1))
  IN  [i \in DOMAIN sizes |-> [j \in 1..sizes[i] |-> [key |-> before(i) + j, fields |-> rows[before(i) + j]]]]

\* A ratio of 101 never sets the candidates aside.
Filters ==
  [segments : {Segments(rows, <<4>>) : rows \in Injection(1..4, SampleRows)}, live : {1..4}, runtimes : {{1}},
   expression : Expressions, ratio : {101}, fields : {Fields3(TRUE, TRUE, TRUE, TRUE, TRUE)}]
  \cup [segments : {Segments(rows, sizes) : rows \in [1..3 -> FewRows], sizes \in {<<3, 0>>, <<1, 0, 2>>}},
        live : {1..3, 2..3}, runtimes : {{1, 2}}, expression : Expressions, ratio : {60},
        fields : {Fields3(TRUE, FALSE, TRUE, TRUE, FALSE)}]
  \cup [segments : {Segments(rows, <<1, 0, 2>>) : rows \in [1..3 -> FewRows]}, live : {2..3}, runtimes : {{1, 2}},
        expression : Expressions, ratio : {60}, fields : {Fields3(FALSE, FALSE, TRUE, FALSE, FALSE)}]
NoFilters == {}

-----------------------------------------------------------------------------

\* Lists that are always full; lists that are never cut; a list that outgrows
\* MaxDegree within the slack, and is cut at the end.
VamanaLayouts ==
  {[kind |-> "vamana", points |-> <<0, 10, 3, 21, 7>>, maxDegree |-> 1, listSize |-> 2],
   [kind |-> "vamana", points |-> <<0, 10, 3, 21, 4>>, maxDegree |-> 4, listSize |-> 2],
   [kind |-> "vamana", points |-> <<0, 10, 3, 21, 7, 36>>, maxDegree |-> 1, listSize |-> 1],
   [kind |-> "vamana", points |-> <<0, 10, 3, 21, 7, 36>>, maxDegree |-> 2, listSize |-> 3],
   [kind |-> "vamana", points |-> <<0, 10, 3, 21, 7, 36, 45>>, maxDegree |-> 4, listSize |-> 4]}

\* Several nodes above the bottom layer; a race for the entry point; lists
\* that are cut.
HnswLayouts ==
  {[kind |-> "hnsw", points |-> <<0, 10, 3, 21, 7>>, levels |-> <<1, 1, 1, 0, 1>>, m |-> 2, ef |-> 2],
   [kind |-> "hnsw", points |-> <<0, 10, 3, 21>>, levels |-> <<0, 2, 1, 0>>, m |-> 2, ef |-> 2],
   [kind |-> "hnsw", points |-> <<0, 10, 3, 21, 7>>, levels |-> <<1, 1, 0, 2, 0>>, m |-> 1, ef |-> 2]}

GraphLayouts == VamanaLayouts \cup HnswLayouts
NoLayouts == {}

graphVars == <<layout, entryPoint, links, phase, inserter, versions, maxLevel, next>>
vars == <<ftsVars, filterVars, graphVars>>

FtsOff ==
  /\ input = Nil /\ query = Nil /\ root = NoIterator
  /\ results = {} /\ target = 0 /\ pc = "off"

FilterOff ==
  /\ filter = Nil /\ plan = Nil /\ at = 0 /\ local = <<>> /\ global = NoFilter /\ stage = "off"

GraphOff ==
  /\ layout = [kind |-> "fts"] /\ entryPoint = -1 /\ links = <<>> /\ phase = "off" /\ inserter = <<>>
  /\ versions = <<>> /\ maxLevel = -1 /\ next = 0

Init ==
  \/ FtsInit /\ FilterOff /\ GraphOff
  \/ FilterInit /\ FtsOff /\ GraphOff
  \/ VamanaInit /\ FtsOff /\ FilterOff /\ maxLevel = -1 /\ next = 0
  \/ HnswInit /\ FtsOff /\ FilterOff /\ versions = <<>>

Next ==
  \/ FtsNext /\ UNCHANGED <<filterVars, graphVars>>
  \/ FilterNext /\ UNCHANGED <<ftsVars, graphVars>>
  \/ VamanaNext /\ UNCHANGED <<ftsVars, filterVars, maxLevel, next>>
  \/ HnswNext /\ UNCHANGED <<ftsVars, filterVars, versions>>
  \/ (pc = "done" \/ stage \in {"filtered", "canceled"} \/ phase \in {"done", "failed"}) /\ UNCHANGED vars

Spec == Init /\ [][Next]_vars /\ VamanaFairness /\ HnswFairness

\* Whatever order the goroutines of a build take, the finished graph of DiskANN
\* or HNSW is valid and can be searched from its entry point.
GraphsServe == VamanaServes /\ HnswServes
=============================================================================
