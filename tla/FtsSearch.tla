----------------------------- MODULE FtsSearch -----------------------------
(***************************************************************************)
(* SearchFTS over one segment: the query is parsed and simplified, a tree  *)
(* of document iterators is built over the posting lists, and the loop     *)
(* keeps the best TopK documents, leaping over blocks and documents whose  *)
(* score bounds cannot compete (block-max and WAND).                       *)
(*                                                                         *)
(* An iterator is a record; an operation on it returns the moved iterator, *)
(* whose valid and cur are what the method returns.  Scores are integers   *)
(* with the shape of BM25: weight of the term times a normalization that   *)
(* grows with the frequency of the term towards a limit and falls with the *)
(* length of the document.                                                 *)
(***************************************************************************)
EXTENDS FtsQuery, TLC

CONSTANTS
  Inputs,     \* searches: corpus, deleted, raw query, default operator, topK
  BlockSize,  \* postings of one block
  NormLimit   \* limit of the normalization (K1 + 1), scaled to integers

VARIABLES
  input,    \* the search
  query,    \* the query: parsed, then simplified
  root,     \* the iterator at the root
  results,  \* ftsResultHeap
  target,   \* the next document ID to look at
  pc        \* "parse", "simplify", "build", "search", "done"

ftsVars == <<input, query, root, results, target, pc>>

Corpus == input.corpus
DocumentIDs == 0..(Len(Corpus) - 1)
Text(d) == Corpus[d + 1]

\* Above every document ID: what math.MaxUint32 is to the code.
Infinity == Len(Corpus)

-----------------------------------------------------------------------------
(* BM25.                                                                   *)

Frequency(t, d) == Cardinality({i \in DOMAIN Text(d) : Text(d)[i] = t})

\* TermIDF: rarer terms weigh more.
IDF(t) == 1 + Cardinality({d \in DocumentIDs \ input.deleted : Frequency(t, d) = 0})

\* ScoreWithIDFAndBoost, boost aside.
TermScore(t, d) ==
  LET f == 4 * Frequency(t, d) IN IDF(t) * ((NormLimit * f) \div (f + Len(Text(d))))

-----------------------------------------------------------------------------
(* Posting lists and term iterators.                                       *)

Postings(t) == SortSeq(SetToSeq({d \in DocumentIDs : Frequency(t, d) > 0}), <)

\* kids: must of an AND, children of an OR, the conjunction of a phrase.  pos
\* is the place in list: 0 before the first posting, past the end when
\* exhausted.  wand lists the children of an OR by document once ready.
NoIterator ==
  [kind |-> "nil", terms |-> <<>>, boost |-> 1, list |-> <<>>, pos |-> 0,
   kids |-> <<>>, mustNot |-> <<>>, should |-> <<>>,
   started |-> FALSE, ready |-> FALSE, wand |-> <<>>, cur |-> 0, valid |-> FALSE]

Invalid(it) == [it EXCEPT !.valid = FALSE]
At(it, d) == [it EXCEPT !.valid = TRUE, !.cur = d]

\* FTSPostingIterator: Next moves by one, Advance to the first posting from
\* target on and not at all when the current one will do.
PostingAt(it, p) ==
  IF p > Len(it.list) THEN [Invalid(it) EXCEPT !.pos = Len(it.list) + 1]
  ELSE [At(it, it.list[p]) EXCEPT !.pos = p]

PostingNext(it) == PostingAt(it, it.pos + 1)

PostingAdvance(it, to) ==
  IF it.valid /\ it.cur >= to THEN it
  ELSE PostingAt(it, Min({p \in (it.pos + 1)..Len(it.list) : it.list[p] >= to}
                           \cup {Len(it.list) + 1}))

-----------------------------------------------------------------------------
(* Score bounds.                                                           *)

\* ftsIteratorMaxScore.
RECURSIVE MaxScore(_)
MaxScore(it) ==
  IF it.kind = "term" THEN it.boost * IDF(it.terms[1]) * NormLimit
  ELSE FoldLeft(LAMBDA s, k : s + MaxScore(k), 0, it.kids \o it.should)

\* Mutant: the bound of a block is the score of its first posting.
TermBlockMaxFirst(it, to) ==
  LET size   == Len(it.list)
      last   == {p \in 1..size : (p % BlockSize = 0 \/ p = size) /\ it.list[p] >= to}
      first  == ((Min(last) - 1) \div BlockSize) * BlockSize + 1
  IN  IF last = {} THEN [score |-> 0, last |-> Infinity]
      ELSE [score |-> it.boost * TermScore(it.terms[1], it.list[first]), last |-> it.list[Min(last)]]

\* blockMaxInfo of a term: the best score in the first block that reaches to.
TermBlockMax(it, to) ==
  LET size   == Len(it.list)
      last   == {p \in 1..size : (p % BlockSize = 0 \/ p = size) /\ it.list[p] >= to}
      first  == ((Min(last) - 1) \div BlockSize) * BlockSize + 1
      scores == {it.boost * TermScore(it.terms[1], it.list[p]) : p \in first..Min(last)}
  IN  IF last = {} THEN [score |-> 0, last |-> Infinity]
      ELSE [score |-> Max(scores), last |-> it.list[Min(last)]]

\* addFTSBlockMaxInfo.
AddBlocks(b, c) == [score |-> b.score + c.score, last |-> Min({b.last, c.last})]

\* ftsIteratorBlockMaxInfo: a bound for every document from to through last.
RECURSIVE BlockMax(_, _)
BlockMax(it, to) ==
  IF it.kind = "term" THEN TermBlockMax(it, to)
  ELSE FoldLeft(LAMBDA b, k : AddBlocks(b, BlockMax(k, to)), [score |-> 0, last |-> Infinity],
                it.kids \o it.should)

-----------------------------------------------------------------------------
(* Document iterators.                                                     *)

RECURSIVE NextDoc(_)
RECURSIVE Advance(_, _)

\* align: every required child is moved to the candidate, which is the
\* document of the first; a child that is past it gives a new candidate.
RECURSIVE Align(_, _)
RECURSIVE Exclude(_, _, _)
Align(it, i) ==
  LET doc   == it.kids[1].cur
      moved == Advance(it.kids[i], doc)
      next  == [it EXCEPT !.kids[i] = moved]
  IN  IF ~it.kids[1].valid THEN Invalid(it)
      ELSE IF i > Len(it.kids) THEN Exclude(it, doc, 1)
      ELSE IF ~moved.valid THEN Invalid(next)
      ELSE IF moved.cur = doc THEN Align(next, i + 1)
      ELSE Align([next EXCEPT !.kids[1] = Advance(@, moved.cur)], 2)

\* The end of align: no excluded child matches, or the next candidate is taken.
Exclude(it, doc, i) ==
  IF i > Len(it.mustNot) THEN At(it, doc)
  ELSE LET next == [it EXCEPT !.mustNot[i] = Advance(@, doc)]
       IN  IF next.mustNot[i].valid /\ next.mustNot[i].cur = doc
           THEN Align([next EXCEPT !.kids[1] = NextDoc(@)], 2)
           ELSE Exclude(next, doc, i + 1)

\* minimum of an OR.
Minimum(it) ==
  LET docs == {it.kids[i].cur : i \in {j \in DOMAIN it.kids : it.kids[j].valid}}
  IN  IF docs = {} THEN Invalid(it) ELSE At(it, Min(docs))

\* findMatch and verifyPositions of a phrase.
RECURSIVE FindMatch(_)
FindMatch(it) ==
  IF ~it.kids[1].valid THEN Invalid(it)
  ELSE IF Occurs(it.terms, Text(it.kids[1].cur)) THEN At(it, it.kids[1].cur)
  ELSE FindMatch([it EXCEPT !.kids[1] = NextDoc(@)])

NextDoc(it) ==
  CASE it.kind = "term" -> PostingNext(it)
    [] it.kind = "and" -> Align([it EXCEPT !.kids[1] = NextDoc(@)], 2)
    [] it.kind = "phrase" -> FindMatch([it EXCEPT !.kids[1] = NextDoc(@)])
    [] it.kind = "or" ->
         Minimum([it EXCEPT !.started = TRUE, !.ready = FALSE,
           !.kids = [i \in DOMAIN it.kids |->
             IF ~it.started \/ (it.valid /\ it.kids[i].valid /\ it.kids[i].cur = it.cur)
             THEN NextDoc(it.kids[i]) ELSE it.kids[i]]])

Advance(it, to) ==
  CASE it.kind = "term" -> PostingAdvance(it, to)
    [] it.valid /\ it.cur >= to -> it
    [] it.kind = "and" -> Align([it EXCEPT !.kids[1] = Advance(@, to)], 2)
    [] it.kind = "phrase" -> FindMatch([it EXCEPT !.kids[1] = Advance(@, to)])
    [] it.kind = "or" ->
         Minimum([it EXCEPT !.started = TRUE, !.ready = FALSE,
           !.kids = [i \in DOMAIN it.kids |->
             IF it.kids[i].valid /\ it.kids[i].cur >= to THEN it.kids[i]
             ELSE Advance(it.kids[i], to)]])

\* score: the optional children of an AND are moved to its document first.
RECURSIVE Scored(_)
ScoredAt(its, doc) ==
  FoldLeft(LAMBDA acc, k :
             IF k.valid /\ k.cur = doc
             THEN [its |-> Append(acc.its, Scored(k).it), score |-> acc.score + Scored(k).score]
             ELSE [its |-> Append(acc.its, k), score |-> acc.score],
           [its |-> <<>>, score |-> 0], its)
Scored(it) ==
  LET kids   == ScoredAt(it.kids, it.cur)
      should == ScoredAt([i \in DOMAIN it.should |-> Advance(it.should[i], it.cur)], it.cur)
  IN  IF it.kind = "term" THEN [it |-> it, score |-> it.boost * TermScore(it.terms[1], it.cur)]
      ELSE [it    |-> [it EXCEPT !.kids = kids.its, !.should = should.its],
            score |-> kids.score + should.score]

-----------------------------------------------------------------------------
(* WAND over the children of an OR at the root.                            *)

\* sortFTSWANDPostings: by document, equal documents in their old order.
SortedByDoc(ps) ==
  LET rank(i) == Cardinality({j \in DOMAIN ps : ps[j].doc < ps[i].doc
                                                  \/ (ps[j].doc = ps[i].doc /\ j <= i)})
  IN  [k \in DOMAIN ps |-> ps[CHOOSE i \in DOMAIN ps : rank(i) = k]]

\* prepareWANDPostings: children behind to are moved, exhausted ones dropped.
PrepareWAND(it, to) ==
  LET all   == [i \in DOMAIN it.kids |-> [child |-> i, doc |-> it.kids[i].cur, max |-> MaxScore(it.kids[i])]]
      old   == IF it.ready THEN it.wand ELSE all
      late  == {p.child : p \in {q \in Range(old) : ~it.kids[q.child].valid \/ q.doc < to}}
      kids  == [i \in DOMAIN it.kids |-> IF i \in late THEN Advance(it.kids[i], to) ELSE it.kids[i]]
      alive == SelectSeq(old, LAMBDA p : kids[p.child].valid)
  IN  [it EXCEPT !.ready = TRUE, !.kids = kids,
                 !.wand = SortedByDoc([i \in DOMAIN alive |-> [alive[i] EXCEPT !.doc = kids[alive[i].child].cur]])]

\* The bounds of the blocks of the first k postings at a document.
Blocks(it, k, doc) ==
  FoldLeft(LAMBDA b, w : AddBlocks(b, BlockMax(it.kids[w.child], doc)),
           [score |-> 0, last |-> Infinity], SubSeq(it.wand, 1, k))

\* The first posting leaps, and takes its place behind those it passed.
Leapt(it, moved) ==
  LET others == Tail(it.wand)
      behind == Len(SelectSeq(others, LAMBDA w : w.doc < moved.cur))
  IN  [it EXCEPT !.kids[it.wand[1].child] = moved,
                 !.wand = IF moved.valid THEN InsertAt(others, behind + 1, [it.wand[1] EXCEPT !.doc = moved.cur])
                          ELSE others]

\* advanceCompetitive: the pivot is the first child whose bound, with those
\* before it, reaches least; children before it leap to its document, and at an
\* aligned pivot the bounds of the blocks decide.
RECURSIVE Compete(_, _, _)
AtBlock(it, doc, block, least) ==
  IF block.score >= least THEN At(it, doc)
  ELSE IF block.last = Infinity THEN Invalid(it)
  ELSE Compete(it, block.last + 1, least)

AtPivot(it, pivot, doc, to, least) ==
  IF it.wand[1].doc < doc
  THEN Compete(Leapt(it, Advance(it.kids[it.wand[1].child], doc)), to, least)
  ELSE AtBlock(it, doc,
               Blocks(it, Min({k \in pivot..Len(it.wand) : Blocks(it, k, doc).score >= least} \cup {Len(it.wand)}), doc),
               least)

Pivots(it, least) ==
  {k \in DOMAIN it.wand : FoldLeft(LAMBDA s, w : s + w.max, 0, SubSeq(it.wand, 1, k)) >= least}

Pivoted(it, pivots, to, least) ==
  IF pivots = {} THEN Invalid(it)
  ELSE AtPivot(it, Min(pivots), it.wand[Min(pivots)].doc, to, least)

CompeteFrom(it, to, least) == Pivoted(it, Pivots(it, least), to, least)
Compete(it, to, least) == CompeteFrom(PrepareWAND(it, to), to, least)

-----------------------------------------------------------------------------
(* buildFTSDocumentIterator.                                               *)

RECURSIVE Cost(_)
Cost(it) ==
  CASE it.kind = "term" -> Len(it.list)
    [] it.kind = "or" -> FoldLeft(LAMBDA s, k : s + Cost(k), 0, it.kids)
    [] OTHER -> Cost(it.kids[1])

\* newFTSAndDocumentIterator: the cheapest required child proposes documents.
Conjunction(must, mustNot, should) ==
  LET rank(i) == Cardinality({j \in DOMAIN must : Cost(must[j]) < Cost(must[i])
                                                   \/ (Cost(must[j]) = Cost(must[i]) /\ j <= i)})
  IN  [NoIterator EXCEPT !.kind = "and", !.mustNot = mustNot, !.should = should,
         !.kids = [k \in DOMAIN must |-> must[CHOOSE i \in DOMAIN must : rank(i) = k]]]

TermIterator(t, boost) ==
  [NoIterator EXCEPT !.kind = "term", !.terms = <<t>>, !.boost = boost, !.list = Postings(t)]

\* A part whose iterator may be missing.
Optional(child) == child.mustNot \/ child.should

\* NoIterator is the nil of the code: nothing can match.
RECURSIVE Build(_)
Build(n) ==
  LET kids    == [i \in DOMAIN n.children |-> [node |-> n.children[i], it |-> Build(n.children[i])]]
      present == SelectSeq(kids, LAMBDA k : k.it # NoIterator)
      its(Take(_)) == LET taken == SelectSeq(present, LAMBDA k : Take(k.node))
                      IN  [i \in DOMAIN taken |-> taken[i].it]
      must    == its(LAMBDA c : ~c.mustNot /\ ~c.should)
      mustNot == its(LAMBDA c : c.mustNot)
      should  == its(LAMBDA c : c.should /\ ~c.mustNot)
      leaves  == [i \in DOMAIN n.terms |-> TermIterator(n.terms[i], n.boost)]
  IN  CASE n.type = "empty" \/ (IsLeaf(n) /\ n.terms = <<>>) -> NoIterator
        [] IsLeaf(n) /\ n.terms # <<>> ->
             IF \E i \in DOMAIN leaves : leaves[i].list = <<>> THEN NoIterator
             ELSE IF n.type = "term" THEN leaves[1]
             ELSE [NoIterator EXCEPT !.kind = "phrase", !.terms = n.terms,
                                     !.kids = <<Conjunction(leaves, <<>>, <<>>)>>]
        [] n.type = "and" ->
             IF must = <<>> \/ \E i \in DOMAIN kids : kids[i].it = NoIterator /\ ~Optional(kids[i].node)
             THEN NoIterator
             ELSE IF Len(must) = 1 /\ mustNot = <<>> /\ should = <<>> THEN must[1]
             ELSE Conjunction(must, mustNot, should)
        [] n.type = "or" ->
             IF present = <<>> THEN NoIterator
             ELSE IF Len(present) = 1 THEN present[1].it
             ELSE [NoIterator EXCEPT !.kind = "or",
                     !.kids = [i \in DOMAIN present |-> present[i].it]]

-----------------------------------------------------------------------------
(* searchFTSWithStats.                                                     *)

\* Advance and advanceCompetitive of FTSQueryIterator: deleted documents are
\* passed over, and only a disjunction at the root leaps.
RECURSIVE AdvanceLive(_, _, _)
PassDeleted(it, least) ==
  IF it.valid /\ it.cur \in input.deleted THEN AdvanceLive(it, it.cur + 1, least) ELSE it
AdvanceLive(it, to, least) ==
  PassDeleted(CASE it.kind # "or" \/ least = 0 -> Advance(it, to)
                [] it.kind = "or" /\ least # 0 /\ it.valid /\ it.cur >= to -> it
                [] OTHER -> Compete([Invalid(it) EXCEPT !.started = TRUE], to, least),
              least)

\* The first document from to on whose block may hold a score of least.
RECURSIVE SkipBlocks(_, _, _)
SkipBlocks(it, to, least) ==
  LET block == BlockMax(it, to)
  IN  IF block.score >= least THEN to
      ELSE IF block.last = Infinity THEN Infinity
      ELSE SkipBlocks(it, block.last + 1, least)

\* ftsResultBetter.
Better(r, q) == r.score > q.score \/ (r.score = q.score /\ r.doc < q.doc)

\* The k best results.
Best(S, k) == {r \in S : Cardinality({q \in S : Better(q, r)}) < k}

FtsInit ==
  /\ input \in Inputs
  /\ query = Nil /\ root = NoIterator
  /\ results = {} /\ target = 0 /\ pc = "parse"

ParseQuery ==
  /\ pc = "parse"
  /\ query' = Parse(input.raw, input.op)
  /\ pc' = IF input.topK = 0 THEN "done" ELSE "simplify"
  /\ UNCHANGED <<input, root, results, target>>

SimplifyQuery ==
  /\ pc = "simplify"
  /\ query' = Simplify(query)
  /\ pc' = "build"
  /\ UNCHANGED <<input, root, results, target>>

\* newFTSQueryIterator: an excluded query matches nothing.
BuildIterator ==
  /\ pc = "build"
  /\ root' = IF query.mustNot THEN NoIterator ELSE Build(query)
  /\ pc' = IF root' = NoIterator THEN "done" ELSE "search"
  /\ UNCHANGED <<input, query, results, target>>

\* The heap keeps the best.
Collect(found) ==
  /\ root' = found.it
  /\ target' = found.it.cur + 1
  /\ results' = IF found.score = 0 THEN results
                ELSE Best(results \cup {[doc |-> found.it.cur, score |-> found.score]}, input.topK)
  /\ pc' = "search"

EndSearch == pc' = "done" /\ UNCHANGED <<root, results, target>>

Reach(it) == IF it.valid THEN Collect(Scored(it)) ELSE EndSearch

\* One round of the loop: once the heap is full its worst score is the score
\* to reach.
SearchStep ==
  LET full  == Cardinality(results) = input.topK
      least == IF full THEN Min({r.score : r \in results}) ELSE 0
      from  == IF full /\ root.kind # "or" THEN SkipBlocks(root, target, least) ELSE target
  IN  /\ pc = "search"
      /\ IF from = Infinity THEN EndSearch ELSE Reach(AdvanceLive(root, from, least))
      /\ UNCHANGED <<input, query>>

FtsNext == ParseQuery \/ SimplifyQuery \/ BuildIterator \/ SearchStep

-----------------------------------------------------------------------------

(* Properties.                                                             *)

\* What a search for n would find in every document: its matches and scores.
Meaning(n) ==
  LET weight(d) == [t \in Range(Text(d)) |-> TermScore(t, d)]
  IN  {[doc |-> d, score |-> Score(n, Text(d), weight(d))] :
         d \in {e \in DocumentIDs : ~n.mustNot /\ Matches(n, Text(e))}}

\* The block bounds, the pivots and the leaps of the iterators lose nothing:
\* a finished search returns exactly the best TopK live documents that the
\* simplified query means ("an exact term, phrase, and boolean query ... at
\* most TopK results by descending BM25 score, breaking ties by ascending
\* document ID", fts_search.go:41).
SearchExact ==
  pc = "done" =>
    results = Best({r \in Meaning(query) : r.score > 0 /\ r.doc \notin input.deleted}, input.topK)

RECURSIVE HasPlus(_)
HasPlus(raw) == raw.must \/ \E i \in DOMAIN raw.children : HasPlus(raw.children[i])

\* Simplification neither loses nor adds a match and counts every repeated
\* leaf: without a required part the simplified query means what was parsed.
SimplifyKeepsMeaning ==
  pc = "build" /\ ~HasPlus(input.raw) => Meaning(query) = Meaning(Parse(input.raw, input.op))

\* The same for every query, as the comment on SimplifyFTSQuery has it
\* ("flattens safe same-kind composites ... converts OR occurrence modifiers
\* into the AND/must/must-not/should form used by execution").
SimplifySafe ==
  pc = "build" => Meaning(query) = Meaning(Parse(input.raw, input.op))
=============================================================================
