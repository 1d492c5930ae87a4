------------------------------ MODULE FtsQuery ------------------------------
(***************************************************************************)
(* Full-text queries: the tree that the parser builds from an analyzed     *)
(* expression, its simplification, and what a tree means for one document. *)
(*                                                                         *)
(* A document is the sequence of its terms.  A parsed expression is        *)
(* [type, tokens, children, must, mustNot]: tokens is what the analyzer    *)
(* made of a word or a phrase, possibly nothing.  A boost is an integer.   *)
(***************************************************************************)
EXTENDS Integers, Sequences, FiniteSets, SequencesExt

\* FTSTermQueryNode, FTSPhraseQueryNode (terms), FTSAndQueryNode,
\* FTSOrQueryNode (children) and FTSEmptyQueryNode with their Flags.
Node(type, terms, children) ==
  [type |-> type, terms |-> terms, children |-> children,
   must |-> FALSE, mustNot |-> FALSE, should |-> FALSE, boost |-> 1]

Nil == Node("nil", <<>>, <<>>)
EmptyQuery == Node("empty", <<>>, <<>>)

IsLeaf(n) == n.type \in {"term", "phrase"}
Positive(n) == ~n.mustNot

\* applyFTSQueryModifier.
Modified(n, must, mustNot) == [n EXCEPT !.must = @ \/ must, !.mustNot = @ \/ mustNot]

-----------------------------------------------------------------------------
(* Parsing.                                                                *)

\* buildAnalyzedFTSTerm.
AnalyzedTerm(tokens, op) ==
  LET leaves == [i \in DOMAIN tokens |-> Node("term", <<tokens[i]>>, <<>>)]
  IN  CASE Len(tokens) = 0 -> Nil
        [] Len(tokens) = 1 -> leaves[1]
        [] OTHER -> Node(op, <<>>, leaves)

\* buildFTSQueryAST under the default operator op: a sequence of atoms is
\* joined by op, what analysis removed is left out, and an AND of nothing is
\* nothing while an OR of nothing is an OR.
RECURSIVE BuildAST(_, _)
BuildAST(raw, op) ==
  LET kids == SelectSeq([i \in DOMAIN raw.children |-> BuildAST(raw.children[i], op)],
                        LAMBDA n : n # Nil)
      type == IF raw.type = "sequence" THEN op ELSE raw.type
      node == CASE raw.type = "term" -> AnalyzedTerm(raw.tokens, op)
                [] raw.type = "phrase" -> Node("phrase", raw.tokens, <<>>)
                [] Len(kids) = 1 -> kids[1]
                [] raw.type = "and" /\ kids = <<>> -> Nil
                [] OTHER -> Node(type, <<>>, kids)
  IN  IF node = Nil THEN Nil ELSE Modified(node, raw.must, raw.mustNot)

\* ParseFTSQuery.
Parse(raw, op) == IF BuildAST(raw, op) = Nil THEN EmptyQuery ELSE BuildAST(raw, op)

-----------------------------------------------------------------------------
(* SimplifyFTSQuery.                                                       *)

\* emptyFTSQueryLike.
EmptyLike(n) ==
  [EmptyQuery EXCEPT !.must = n.must, !.mustNot = n.mustNot, !.boost = n.boost]

\* flattenFTSAndChildren and flattenFTSOrChildren: an inner group of the same
\* kind without a modifier gives its children to the outer one, unless one of
\* them is excluded or, in an OR, required.
Flatten(type, kids) ==
  FlattenSeq([i \in DOMAIN kids |->
    IF /\ kids[i].type = type /\ ~kids[i].must /\ ~kids[i].mustNot
       /\ \A j \in DOMAIN kids[i].children :
            LET c == kids[i].children[j] IN ~c.mustNot /\ (type = "or" => ~c.must)
    THEN kids[i].children ELSE <<kids[i]>>])

\* sameFTSQueryDedupKey: the optional flag is not compared.
SameKey(m, n) ==
  IsLeaf(m) /\ m.type = n.type /\ m.terms = n.terms /\ m.must = n.must /\ m.mustNot = n.mustNot

\* Mutant: a repeated leaf is dropped instead of counted.
MergeDuplicatesUncounted(kids) ==
  FoldLeft(LAMBDA acc, n : IF \E i \in DOMAIN acc : SameKey(acc[i], n) THEN acc ELSE Append(acc, n),
           <<>>, kids)

\* mergeDuplicateFTSQueryChildren: the first of equal leaves gets the boosts.
MergeDuplicates(kids) ==
  FoldLeft(LAMBDA acc, n :
             IF \E i \in DOMAIN acc : SameKey(acc[i], n)
             THEN LET i == CHOOSE i \in DOMAIN acc : SameKey(acc[i], n)
                  IN  [acc EXCEPT ![i].boost = @ + n.boost]
             ELSE Append(acc, n),
           <<>>, kids)

\* ftsAndHasMustNotConflict.
Conflict(kids) ==
  \E i, j \in DOMAIN kids :
    /\ IsLeaf(kids[i]) /\ kids[i].type = kids[j].type /\ kids[i].terms = kids[j].terms
    /\ kids[i].mustNot /\ ~kids[j].mustNot

\* The only child takes the place of its group.
Collapse(n, child) ==
  LET c == Modified(child, n.must, n.mustNot)
  IN  IF c.must /\ c.mustNot
      THEN [EmptyQuery EXCEPT !.must = n.must, !.mustNot = n.mustNot]
      ELSE c

\* simplifyFTSAnd over simplified children.
SimplifyAnd(n, kids) ==
  LET kept   == SelectSeq(kids, LAMBDA c : ~(c.type = "empty" /\ c.mustNot))
      merged == MergeDuplicates(Flatten("and", kept))
  IN  IF \/ \E i \in DOMAIN kept : kept[i].type = "empty"
         \/ Conflict(merged)
         \/ \A i \in DOMAIN merged : merged[i].mustNot
      THEN EmptyLike(n)
      ELSE IF Len(merged) = 1 THEN Collapse(n, merged[1])
      ELSE [n EXCEPT !.children = merged]

RECURSIVE Simplify(_)

\* simplifyFTSOr over simplified children: with a modifier on a child it
\* becomes an AND of the required children, the others as one part that is
\* optional beside a required one, and the excluded children.
SimplifyOr(n, kids) ==
  LET merged  == MergeDuplicates(Flatten("or", SelectSeq(kids, LAMBDA c : c.type # "empty")))
      must    == SelectSeq(merged, LAMBDA c : c.must /\ ~c.mustNot)
      mustNot == SelectSeq(merged, LAMBDA c : c.mustNot)
      plain   == SelectSeq(merged, LAMBDA c : ~c.must /\ ~c.mustNot)
      part    == IF Len(plain) = 1 THEN plain[1] ELSE Node("or", <<>>, plain)
      joined  == [i \in DOMAIN must |-> [must[i] EXCEPT !.must = FALSE]]
                   \o (IF plain = <<>> THEN <<>>
                       ELSE <<[part EXCEPT !.should = @ \/ must # <<>>]>>)
                   \o mustNot
  IN  IF \A i \in DOMAIN merged : merged[i].mustNot THEN EmptyLike(n)
      ELSE IF must # <<>> \/ mustNot # <<>>
      THEN SimplifyAnd([EmptyLike(n) EXCEPT !.type = "and"],
                       [i \in DOMAIN joined |-> Simplify(joined[i])])
      ELSE IF Len(merged) = 1 THEN Collapse(n, merged[1])
      ELSE [n EXCEPT !.children = merged]

Simplify(n) ==
  LET kids == [i \in DOMAIN n.children |-> Simplify(n.children[i])]
  IN  CASE n.type = "and" -> SimplifyAnd(n, kids)
        [] n.type = "or" -> SimplifyOr(n, kids)
        [] OTHER -> n

-----------------------------------------------------------------------------
(* What a tree means: FTSAndQueryNode "requires its positive children and  *)
(* excludes MustNot children", FTSOrQueryNode "matches any positive child  *)
(* while preserving occurrence flags".                                     *)

Occurs(terms, doc) ==
  terms # <<>> /\ \E at \in 0..(Len(doc) - Len(terms)) : \A i \in DOMAIN terms : doc[at + i] = terms[i]

RECURSIVE Matches(_, _)
Matches(n, doc) ==
  LET kids     == n.children
      hit(i)   == Matches(kids[i], doc)
      required == {i \in DOMAIN kids : ~kids[i].mustNot /\ ~kids[i].should /\ (n.type = "or" => kids[i].must)}
      plain    == {i \in DOMAIN kids : ~kids[i].mustNot /\ ~kids[i].must}
  IN  CASE IsLeaf(n) -> Occurs(n.terms, doc)
        [] n.type = "empty" -> FALSE
        [] OTHER -> /\ \A i \in required : hit(i)
                    /\ \A i \in DOMAIN kids : kids[i].mustNot => ~hit(i)
                    /\ required = {} => n.type = "or" /\ \E i \in plain : hit(i)

\* The sum of the scores of the positive leaves that match; weight is the
\* score of each term in doc.
RECURSIVE Score(_, _, _)
Score(n, doc, weight) ==
  IF ~Matches(n, doc) THEN 0
  ELSE IF IsLeaf(n) THEN n.boost * FoldLeft(LAMBDA s, t : s + weight[t], 0, n.terms)
  ELSE FoldLeft(LAMBDA s, c : IF c.mustNot THEN s ELSE s + Score(c, doc, weight), 0, n.children)
=============================================================================
