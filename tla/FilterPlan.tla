----------------------------- MODULE FilterPlan -----------------------------
(***************************************************************************)
(* Scalar filters: the plan that BuildPlan makes of a filter expression,   *)
(* the inverted indexes of a segment, the evaluation of the plan with and  *)
(* without them, and the merge with the visibility of the documents of a   *)
(* query snapshot.                                                         *)
(*                                                                         *)
(* A scalar is a sequence of numbers in lexical order: the runes of a      *)
(* string, or the one number of an integer.  A value is [null, items]: one *)
(* item for a scalar field, any number for an array field.  A document is  *)
(* [key, fields] with its document ID and its values; the snapshot has     *)
(* segments of documents, the live keys, and the segments with a runtime.  *)
(*                                                                         *)
(* An expression is a predicate [op, negated, length, field, set] or       *)
(* [op, left, right] with op "and" or "or": there is no NOT above a        *)
(* predicate.  Expressions are those that bindPredicate accepts.           *)
(***************************************************************************)
EXTENDS Integers, Sequences, FiniteSets, SequencesExt

CONSTANTS FilterInputs,     \* [segments, live, runtimes, expression, fields, ratio]
          RangeBlockSize    \* invertedRangeBlockSize

VARIABLES filter,           \* the member of FilterInputs
          plan,             \* Plan.root
          at,               \* the segment that evaluateSnapshotFilters is at
          local,            \* evaluatedSegmentFilters.local
          global,           \* evaluatedSegmentFilters.global
          stage

filterVars == <<filter, plan, at, local, global, stage>>

IsLogical(node) == node.op \in {"and", "or"}
Logical(op, left, right) == [op |-> op, left |-> left, right |-> right]
Predicate(op, negated, length, field, set) ==
  [op |-> op, negated |-> negated, length |-> length, field |-> field, set |-> set]
Constant(truth) == [op |-> "constant", truth |-> truth]

Comparisons == {"eq", "ne", "lt", "le", "gt", "ge"}

\* compareValues(a, b) < 0.
Less(a, b) ==
  \/ IsStrictPrefix(a, b)
  \/ \E i \in DOMAIN a \cap DOMAIN b : a[i] < b[i] /\ \A j \in 1..(i - 1) : a[j] = b[j]

\* comparisonMatches.
Compares(op, a, b) ==
  CASE op = "eq" -> a = b
    [] op = "ne" -> a # b
    [] op = "lt" -> Less(a, b)
    [] op = "le" -> ~Less(b, a)
    [] op = "gt" -> Less(b, a)
    [] op = "ge" -> ~Less(a, b)

-----------------------------------------------------------------------------
(* LIKE.                                                                   *)

Percent == -1
Underscore == -2
Backslash == -3

Token(kind, rune) == [kind |-> kind, rune |-> rune]

\* tokenizeLike without the collapse: a backslash makes the next rune
\* literal, and is literal itself at the end.
RECURSIVE RawTokens(_)
RawTokens(raw) ==
  CASE raw = <<>> -> <<>>
    [] raw # <<>> /\ raw[1] = Backslash /\ Len(raw) > 1 ->
         <<Token("literal", raw[2])>> \o RawTokens(SubSeq(raw, 3, Len(raw)))
    [] OTHER ->
         <<Token(CASE raw[1] = Percent -> "sequence" [] raw[1] = Underscore -> "rune" [] OTHER -> "literal",
                 raw[1])>> \o RawTokens(Tail(raw))

Tokens(raw) ==
  FoldLeft(LAMBDA acc, t : IF acc # <<>> /\ Last(acc).kind = "sequence" /\ t.kind = "sequence"
                           THEN acc ELSE Append(acc, t),
           <<>>, RawTokens(raw))

\* unescapedWildcardCounts.
WildcardCount(raw, kind) == Len(SelectSeq(RawTokens(raw), LAMBDA t : t.kind = kind))

\* The regular expression of CompileLike, anchored at both ends.
RECURSIVE LikeMatch(_, _)
LikeMatch(tokens, text) ==
  IF tokens = <<>> THEN text = <<>>
  ELSE CASE tokens[1].kind = "sequence" ->
              \E skip \in 0..Len(text) : LikeMatch(Tail(tokens), SubSeq(text, skip + 1, Len(text)))
         [] tokens[1].kind = "rune" -> text # <<>> /\ LikeMatch(Tail(tokens), Tail(text))
         [] OTHER -> text # <<>> /\ text[1] = tokens[1].rune /\ LikeMatch(Tail(tokens), Tail(text))

\* classifyLike, for what searchLike asks: [mode, literal].
Classified(tokens) ==
  LET runes(s)   == [i \in DOMAIN s |-> s[i].rune]
      literals(s) == \A i \in DOMAIN s : s[i].kind = "literal"
      mode(m, s)  == [mode |-> m, literal |-> runes(s)]
  IN  CASE literals(tokens) -> mode("exact", tokens)
        [] Len(tokens) = 1 /\ tokens[1].kind = "sequence" -> mode("any", <<>>)
        [] ~literals(tokens) /\ Last(tokens).kind = "sequence" /\ Len(tokens) > 1 /\ literals(Front(tokens)) ->
             mode("prefix", Front(tokens))
        [] ~literals(tokens) /\ tokens[1].kind = "sequence" /\ Len(tokens) > 1 /\ literals(Tail(tokens)) ->
             mode("suffix", Tail(tokens))
        [] OTHER -> mode("general", <<>>)

-----------------------------------------------------------------------------
(* Forward evaluation in three-valued logic.                               *)

Truth(holds) == IF holds THEN "true" ELSE "false"

\* Truth.And and Truth.Or.
And3(s, t) == IF "false" \in {s, t} THEN "false" ELSE IF {s, t} = {"true"} THEN "true" ELSE "unknown"
Or3(s, t) == IF "true" \in {s, t} THEN "true" ELSE IF {s, t} = {"false"} THEN "false" ELSE "unknown"

\* fieldSource and arrayLengthSource.
Resolve(p, document) ==
  LET value == document.fields[p.field]
  IN  IF p.length THEN [value EXCEPT !.items = <<<<Len(@)>>>>] ELSE value

\* BoundPredicate.Evaluate.
EvaluatePredicate(p, value) ==
  LET items == ToSet(value.items)
      set   == ToSet(p.set)
      holds == CASE p.op \in Comparisons -> Compares(p.op, value.items[1], p.set[1])
                 [] p.op = "like" -> LikeMatch(Tokens(p.set[1]), value.items[1])
                 [] p.op = "in" -> value.items[1] \in set
                 [] p.op = "all" -> set \subseteq items
                 [] p.op = "any" -> set \cap items # {}
  IN  IF p.op = "null" THEN Truth(value.null # p.negated)
      ELSE IF value.null THEN "unknown"
      ELSE Truth(holds # p.negated)

\* planNode.evaluate.
RECURSIVE Evaluate(_, _)
Evaluate(node, document) ==
  CASE node.op = "constant" -> node.truth
    [] node.op = "and" -> And3(Evaluate(node.left, document), Evaluate(node.right, document))
    [] node.op = "or" -> Or3(Evaluate(node.left, document), Evaluate(node.right, document))
    [] OTHER -> EvaluatePredicate(node, Resolve(node, document))

-----------------------------------------------------------------------------
(* BuildPlan.                                                              *)

\* flattenLogical for OR.
RECURSIVE Flattened(_)
Flattened(node) == IF node.op = "or" THEN Flattened(node.left) \o Flattened(node.right) ELSE <<node>>

\* equalitySetCandidate.
EqualitySet(node) == node.op \in {"eq", "in"} /\ ~node.negated /\ ~node.length

\* rewriteEqualitySets: the first of several such terms on a field takes the
\* literals of all.
EqualitySets(terms) ==
  LET group(i) == {j \in DOMAIN terms : EqualitySet(terms[j]) /\ terms[j].field = terms[i].field}
      sets(i)  == SetToSortSeq(group(i), <)
      merged(i) == IF EqualitySet(terms[i]) /\ Cardinality(group(i)) > 1
                   THEN Predicate("in", FALSE, FALSE, terms[i].field,
                                  FlattenSeq([k \in DOMAIN sets(i) |-> terms[sets(i)[k]].set]))
                   ELSE terms[i]
      kept == {i \in DOMAIN terms : EqualitySet(terms[i]) => \A j \in group(i) : i <= j}
      order == SetToSortSeq(kept, <)
  IN  [k \in DOMAIN order |-> merged(order[k])]

\* RewriteFilter, with joinLogical.
RECURSIVE Rewrite(_)
Rewrite(node) ==
  CASE node.op = "and" -> Logical("and", Rewrite(node.left), Rewrite(node.right))
    [] node.op = "or" ->
         LET terms == Flattened(node)
             kept  == EqualitySets([i \in DOMAIN terms |-> Rewrite(terms[i])])
         IN  FoldLeft(LAMBDA joined, term : Logical("or", joined, term), kept[1], Tail(kept))
    [] OTHER -> node

\* rewriteBoundPlan: a containment of no values.
RECURSIVE RewriteBound(_)
RewriteBound(node) ==
  CASE IsLogical(node) -> Logical(node.op, RewriteBound(node.left), RewriteBound(node.right))
    [] node.op \in {"all", "any"} /\ node.set = <<>> ->
         IF (node.op = "all") # node.negated
         THEN Predicate("null", TRUE, FALSE, node.field, <<>>)
         ELSE Constant("false")
    [] OTHER -> node

\* optimizePlan: constant folding.
RECURSIVE Optimize(_)
Optimize(node) ==
  IF ~IsLogical(node) THEN node
  ELSE LET l == Optimize(node.left)
           r == Optimize(node.right)
           is(n, truth) == n.op = "constant" /\ n.truth = truth
           absorbing == IF node.op = "and" THEN "false" ELSE "true"
           neutral   == IF node.op = "and" THEN "true" ELSE "false"
       IN  CASE is(l, absorbing) \/ is(r, absorbing) -> Constant(absorbing)
             [] ~is(r, absorbing) /\ is(l, neutral) -> r
             [] ~is(l, absorbing) /\ ~is(l, neutral) /\ is(r, neutral) -> l
             [] OTHER -> Logical(node.op, l, r)

-----------------------------------------------------------------------------
(* InvertedIndex.                                                          *)

\* buildRangeBlocks: the unions of full blocks of consecutive terms.
RangeBlocks(field, postings, ordered) ==
  IF ~field.rangeOptimized \/ field.array \/ ~field.integer THEN <<>>
  ELSE [b \in 1..(Len(ordered) \div RangeBlockSize) |->
         UNION {postings[ordered[i]] : i \in ((b - 1) * RangeBlockSize + 1)..(b * RangeBlockSize)}]

\* Add for every row, then Seal: the same whether the runtime holds the index
\* or the filter builds it.
Indexed(documents, name) ==
  LET value(row) == documents[row].fields[name]
      nonNull    == {row \in DOMAIN documents : ~value(row).null}
      terms      == UNION {ToSet(value(row).items) : row \in nonNull}
      postings   == [t \in terms |-> {row \in nonNull : t \in ToSet(value(row).items)}]
      ordered    == SetToSortSeq(terms, Less)
  IN  [nulls |-> DOMAIN documents \ nonNull, nonNull |-> nonNull, postings |-> postings, ordered |-> ordered,
       rangeBlocks |-> RangeBlocks(filter.fields[name], postings, ordered),
       arrayLength |-> [n \in {Len(value(row).items) : row \in nonNull} |->
                          {row \in nonNull : Len(value(row).items) = n}]]

Posting(index, term) == IF term \in DOMAIN index.postings THEN index.postings[term] ELSE {}
UnionValues(index, set) == UNION {Posting(index, term) : term \in ToSet(set)}

\* Mutant: the complement is taken of all rows, with the NULLs.
NegatedOfAllRows(index, rows) == (index.nulls \cup index.nonNull) \ rows

Negated(index, rows) == index.nonNull \ rows

\* unionOrderedRange over the terms from start to end - 1, counted from 0.
RECURSIVE UnionOrderedRange(_, _, _)
UnionOrderedRange(index, start, end) ==
  IF start >= end THEN {}
  ELSE IF index.rangeBlocks # <<>> /\ start % RangeBlockSize = 0 /\ end - start >= RangeBlockSize
  THEN index.rangeBlocks[start \div RangeBlockSize + 1] \cup UnionOrderedRange(index, start + RangeBlockSize, end)
  ELSE index.postings[index.ordered[start + 1]] \cup UnionOrderedRange(index, start + 1, end)

\* searchRange, with orderedBounds: the first term that is not below the
\* target, and the first that is above it.
SearchRange(index, field, op, target) ==
  LET ordered == index.ordered
      lower   == Cardinality({i \in DOMAIN ordered : Less(ordered[i], target)})
      upper   == Cardinality({i \in DOMAIN ordered : ~Less(target, ordered[i])})
  IN  IF field.rangeOptimized
      THEN CASE op = "lt" -> UnionOrderedRange(index, 0, lower)
             [] op = "le" -> UnionOrderedRange(index, 0, upper)
             [] op = "gt" -> UnionOrderedRange(index, upper, Len(ordered))
             [] op = "ge" -> UnionOrderedRange(index, lower, Len(ordered))
      ELSE UNION {index.postings[t] : t \in {t \in DOMAIN index.postings : Compares(op, t, target)}}

Supported(rows) == [used |-> TRUE, exact |-> TRUE, rows |-> rows]
Unsupported == [used |-> FALSE, exact |-> FALSE, rows |-> {}]

\* searchLike: what the terms can answer, and nothing else.
SearchLike(index, field, raw) ==
  LET like == Classified(Tokens(raw))
      scan(Accepts(_)) == Supported(UNION {index.postings[t] : t \in {t \in DOMAIN index.postings : Accepts(t)}})
  IN  CASE WildcardCount(raw, "sequence") > 1 \/ WildcardCount(raw, "rune") > 0 -> Unsupported
        [] like.mode = "exact" -> Supported(Posting(index, like.literal))
        [] like.mode = "any" -> Supported(index.nonNull)
        [] like.mode = "prefix" -> scan(LAMBDA t : IsPrefix(like.literal, t))
        [] like.mode = "suffix" ->
             IF field.extendedWildcard THEN scan(LAMBDA t : IsSuffix(like.literal, t)) ELSE Unsupported
        [] OTHER ->
             IF field.extendedWildcard THEN scan(LAMBDA t : LikeMatch(Tokens(raw), t)) ELSE Unsupported

\* SearchArrayLength.
SearchArrayLength(index, op, target) ==
  LET rows == UNION {index.arrayLength[n] : n \in {n \in DOMAIN index.arrayLength : Compares(op, <<n>>, target)}}
  IN  IF op = "ne"
      THEN Negated(index, IF target[1] \in DOMAIN index.arrayLength THEN index.arrayLength[target[1]] ELSE {})
      ELSE rows

\* InvertedIndex.Search, with searchContain.
Search(index, field, p) ==
  LET polarity(rows) == Supported(IF p.negated THEN Negated(index, rows) ELSE rows)
  IN  CASE p.op = "null" -> Supported(IF p.negated THEN index.nonNull ELSE index.nulls)
        [] p.op = "like" -> SearchLike(index, field, p.set[1])
        [] p.op \in {"in", "any"} -> polarity(UnionValues(index, p.set))
        [] p.op = "all" ->
             polarity({row \in index.nonNull : \A i \in DOMAIN p.set : row \in Posting(index, p.set[i])})
        [] p.op = "eq" -> Supported(Posting(index, p.set[1]))
        [] p.op = "ne" -> Supported(Negated(index, Posting(index, p.set[1])))
        [] OTHER -> Supported(SearchRange(index, field, p.op, p.set[1]))

\* candidatesForNode: a conjunction may do with one side, a disjunction needs
\* both.
RECURSIVE Candidates(_, _)
Candidates(node, documents) ==
  CASE node.op = "constant" -> Supported(IF node.truth = "true" THEN DOMAIN documents ELSE {})
    [] IsLogical(node) ->
         LET l == Candidates(node.left, documents)
             r == Candidates(node.right, documents)
             both == [used |-> TRUE, exact |-> l.exact /\ r.exact,
                      rows |-> IF node.op = "and" THEN l.rows \cap r.rows ELSE l.rows \cup r.rows]
         IN  CASE l.used /\ r.used -> both
               [] node.op = "and" /\ l.used /\ ~r.used -> [l EXCEPT !.exact = FALSE]
               [] node.op = "and" /\ ~l.used /\ r.used -> [r EXCEPT !.exact = FALSE]
               [] OTHER -> Unsupported
    [] OTHER ->
         LET index == Indexed(documents, node.field)
         IN  CASE ~filter.fields[node.field].indexed -> Unsupported
               [] node.length -> Supported(SearchArrayLength(index, node.op, node.set[1]))
               [] OTHER -> Search(index, filter.fields[node.field], node)

-----------------------------------------------------------------------------
(* evaluatedFilter: the keys that its predicate accepts, and its rows as a *)
(* sequence or, while lazy, as a bitmap.                                   *)

Evaluated(documents, rows, lazy) ==
  [keys |-> {documents[row].key : row \in rows}, lazy |-> lazy,
   bitmap |-> IF lazy THEN rows ELSE {}, ordinals |-> IF lazy THEN <<>> ELSE SetToSortSeq(rows, <),
   matched |-> Cardinality(rows), total |-> Len(documents)]

NoFilter == Evaluated(<<>>, {}, FALSE)

\* materializeOrdinals.
Materialized(f) ==
  IF f.lazy THEN [f EXCEPT !.lazy = FALSE, !.bitmap = {}, !.ordinals = SetToSortSeq(f.bitmap, <)] ELSE f

\* evaluateFilterDocumentsByOrdinal: candidates that are too many are not
\* used, exact ones are the answer, and others are verified.
Verified(documents, rows) ==
  Evaluated(documents, {row \in rows : Evaluate(plan, documents[row]) = "true"}, FALSE)

EvaluateCandidates(documents, c, runtime) ==
  CASE ~c.used \/ 100 * Cardinality(c.rows) >= filter.ratio * Len(documents) -> Verified(documents, DOMAIN documents)
    [] c.used /\ 100 * Cardinality(c.rows) < filter.ratio * Len(documents) ->
         IF c.exact THEN Evaluated(documents, c.rows, runtime) ELSE Verified(documents, c.rows)

EvaluateDocuments(documents, runtime) ==
  IF plan = Constant("false") THEN Evaluated(documents, {}, FALSE)
  ELSE EvaluateCandidates(documents, Candidates(plan, documents), runtime)

-----------------------------------------------------------------------------

\* collectionQuerySnapshot.documents: the live documents in segment order.
LiveDocuments ==
  SelectSeq(FlattenSeq(filter.segments), LAMBDA document : document.key \in filter.live)

\* evaluateSegmentFilters without a plan: no visibility predicate is kept
\* when every document of every segment is live.
AllLive == LiveDocuments = FlattenSeq(filter.segments)

FilterInit ==
  /\ filter \in FilterInputs
  /\ plan = Constant("unknown") /\ at = 1 /\ local = <<>> /\ global = NoFilter /\ stage = "plan"

BuildPlan ==
  /\ stage = "plan"
  /\ plan' = Optimize(RewriteBound(Rewrite(filter.expression)))
  /\ stage' = "segments"
  /\ UNCHANGED <<filter, at, local, global>>

Visible(documents) == {row \in DOMAIN documents : documents[row].key \in filter.live}

\* The matches that are visible.
Masked(documents, found) ==
  [(IF AllLive THEN found
    ELSE Evaluated(documents, ToSet(Materialized(found).ordinals) \cap Visible(documents), FALSE))
    EXCEPT !.total = Cardinality(Visible(documents))]

\* The positions of rows among the live documents.
GlobalOrdinals(documents, rows) ==
  [i \in DOMAIN rows |-> CHOOSE j \in DOMAIN LiveDocuments : LiveDocuments[j].key = documents[rows[i]].key]

\* A single segment that is wholly live is the answer as it stands.
Alone == AllLive /\ Cardinality({i \in DOMAIN filter.segments : filter.segments[i] # <<>>}) = 1

Merge(documents, result) ==
  IF Alone
  THEN /\ local' = Append(local, [segment |-> at, filter |-> result])
       /\ global' = result /\ stage' = "filtered"
  ELSE /\ local' = Append(local, [segment |-> at, filter |-> Materialized(result)])
       /\ global' = [global EXCEPT !.keys = @ \cup result.keys,
                                   !.ordinals = @ \o GlobalOrdinals(documents, Materialized(result).ordinals)]
       /\ stage' = stage

\* One round of evaluateSnapshotFilters.
EvaluateSegment ==
  /\ stage = "segments" /\ at <= Len(filter.segments)
  /\ at' = at + 1
  /\ LET documents == filter.segments[at]
     IN  IF documents = <<>> THEN UNCHANGED <<local, global, stage>>
         ELSE Merge(documents, Masked(documents, EvaluateDocuments(documents, at \in filter.runtimes)))
  /\ UNCHANGED <<filter, plan>>

FinishFilter ==
  /\ stage = "segments" /\ at > Len(filter.segments)
  /\ global' = [global EXCEPT !.ordinals = SetToSortSeq(ToSet(@), <), !.matched = Cardinality(global.keys),
                              !.total = Len(LiveDocuments)]
  /\ stage' = "filtered"
  /\ UNCHANGED <<filter, plan, at, local>>

\* The context is cancelled: the query gets an error and no filter.
CancelFilter ==
  /\ stage = "segments"
  /\ stage' = "canceled"
  /\ UNCHANGED <<filter, plan, at, local, global>>

FilterNext == BuildPlan \/ EvaluateSegment \/ FinishFilter \/ CancelFilter

-----------------------------------------------------------------------------

\* f accepts exactly the rows of documents that are live and for which the
\* expression as written is TRUE, in both of its forms.
Accepts(f, documents, rows) ==
  LET matching == {row \in rows : Evaluate(filter.expression, documents[row]) = "true"}
  IN  /\ Materialized(f).ordinals = SetToSortSeq(matching, <)
      /\ f.keys = {documents[row].key : row \in matching}
      /\ f.matched = Cardinality(matching) /\ f.total = Cardinality(rows)

\* A filter selects exactly the live documents for which its expression is
\* TRUE in SQL's three-valued logic, for each segment and over the snapshot,
\* whichever predicates the rewrites merge or fold, whichever fields have an
\* index and with which options, whether the index result is used, verified
\* or set aside as too large, and wherever the documents and the deleted
\* ones among them lie.
FilterExact ==
  stage = "filtered" =>
    /\ Accepts(global, LiveDocuments, DOMAIN LiveDocuments)
    /\ \A i \in DOMAIN local :
         LET documents == filter.segments[local[i].segment]
         IN  Accepts(local[i].filter, documents, {row \in DOMAIN documents : documents[row].key \in filter.live})
=============================================================================
