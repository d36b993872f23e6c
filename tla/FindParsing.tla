----------------------------- MODULE FindParsing -----------------------------
(***************************************************************************)
(* What a find request asks of the retrieval (ask/search/parsers/find.py,  *)
(* fetcher.py): the features that are left, the answers of predict it      *)
(* needs, the filters in the older style turned into a filter expression,  *)
(* and how many results the reranker wants.                                *)
(*                                                                         *)
(* A filter expression is the set of the text blocks it selects: And is    *)
(* the intersection, Or the union, Not the complement.                     *)
(***************************************************************************)
EXTENDS TextBlocks, Naturals, Sequences, SequencesExt

CONSTANTS
  BlockLabels,     \* block -> the labels of its field or of itself
  BlockWords,      \* block -> the words in it
  ParagraphLabels, \* the labels of label sets that are for paragraphs
  NoExpression,    \* a request without filter_expression
  MaxWindow        \* the 200 results a reranker is given at most

And(es) == {b \in Blocks : \A e \in es : b \in e}
Or(es) == UNION es
Not(e) == Blocks \ e

(***************************************************************************)
(* _validate_request, parse_keyword_query, parse_semantic_query            *)
(***************************************************************************)
FindInvalid(r) ==
  \/ r.synonyms /\ r.query # "empty" /\ r.features \cap {"semantic", "relations", "graph"} # {}
  \/ r.graphQuery # ("graph" \in r.features)

\* The semantic search is left out of an empty query and of an exact one.
FindFeatures(r) ==
  IF r.query \in {"empty", "exact"} /\ ~ r.vector THEN r.features \ {"semantic"} ELSE r.features

\* query_information is asked once, if at all: for the rephrased query of an
\* image, the vectorset, the vector or the threshold.
NeedsPredict(r) ==
  \/ "keyword" \in FindFeatures(r) /\ r.image
  \/ "semantic" \in FindFeatures(r) /\ ~ (r.vectorset /\ r.vector /\ r.minScore)

(***************************************************************************)
(* convert_labels_to_filter_expressions                                    *)
(***************************************************************************)
HasLabel(l) == {b \in Blocks : l \in BlockLabels[b]}
HasWord(w) == {b \in Blocks : w \in BlockWords[b]}

Negates(f) == f.op \in {"none", "not_all"}

\* Mutant: a negated filter keeps its combinator.
CombineUnswapped(op, es) ==
  IF es = {} THEN {} ELSE {IF op \in {"one", "all", "not_all"} THEN And(es) ELSE Or(es)}

Combine(op, es) ==
  IF es = {} THEN {} ELSE {IF op \in {"one", "all", "none"} THEN And(es) ELSE Or(es)}

LabelTerms(f, ls) == {IF Negates(f) THEN Not(HasLabel(l)) ELSE HasLabel(l) : l \in ls}

\* Field labels and paragraph labels become an expression each, joined by the
\* operator AND of the whole.
LabelExpressions(f) ==
  Combine(f.op, LabelTerms(f, f.labels \ ParagraphLabels))
    \cup Combine(f.op, LabelTerms(f, f.labels \cap ParagraphLabels))

LabelsInvalid(f) == f.labels \cap ParagraphLabels # {} /\ f.op \notin {"one", "all"}

(***************************************************************************)
(* _parse_filters                                                          *)
(***************************************************************************)
KeywordExpression(k) ==
  LET words == {HasWord(w) : w \in k.words}
  IN CASE k.op \in {"one", "all"} -> And(words)
       [] k.op = "any" -> Or(words)
       [] k.op = "none" -> Not(Or(words))
       [] k.op = "not_all" -> Not(And(words))

InField(f) == {b \in Blocks : BlockField[b] = f}
InResource(x) == {b \in Blocks : BlockResource[b] = x}

AnyOf(es) == IF es = {} THEN {} ELSE {Or(es)}

OldExpressions(r) ==
  (UNION {LabelExpressions(f) : f \in ToSet(r.filters)})
    \cup {KeywordExpression(k) : k \in ToSet(r.keywords)}
    \cup AnyOf({InField(f) : f \in r.fields})
    \cup AnyOf({InResource(x) : x \in r.resources})
    \cup r.ranges

HasOldFilters(r) ==
  r.filters # <<>> \/ r.keywords # <<>> \/ r.fields # {} \/ r.resources # {} \/ r.ranges # {}

FiltersInvalid(r) ==
  \/ r.expression # NoExpression /\ HasOldFilters(r)
  \/ \E f \in ToSet(r.filters) : LabelsInvalid(f)

Selected(r) == IF r.expression # NoExpression THEN r.expression ELSE And(OldExpressions(r))

(***************************************************************************)
(* _parse_reranker, and the number of results to retrieve for it           *)
(***************************************************************************)
SmallerOf(m, n) == IF m < n THEN m ELSE n
LargerOf(m, n) == IF m < n THEN n ELSE m

RerankWindow(r) ==
  IF r.reranker = "predict" THEN SmallerOf(2 * r.topK, MaxWindow)
  ELSE SmallerOf(LargerOf(r.window, r.topK), MaxWindow)

RetrievalTopK(r) ==
  IF r.reranker = "noop" THEN r.topK ELSE LargerOf(r.topK, RerankWindow(r))

=============================================================================
