------------------------ MODULE KnowledgeBoxRetrieval ------------------------
(***************************************************************************)
(* The retrieval of an ask of a whole knowledge box, from the find         *)
(* requests to the ordered matches the context is built from               *)
(* (find_retrieval, augment_and_rerank and hydrate_and_rerank of           *)
(* ask/search/retrieval.py, retrieval_in_kb and compute_best_matches of    *)
(* ask/search/ask.py).  The tasks the prequeries run in and the prefilter  *)
(* are Retrieval's; here each find is looked into, one after the other.    *)
(* The search engine and the reranking model are external, and a resource  *)
(* may be deleted at any moment.                                           *)
(***************************************************************************)
EXTENDS FindParsing, Ranking, GraphStrategy

CONSTANT Requests \* the requests there may be

Operators == {"one", "all", "any", "none", "not_all"}

\* A filter is validated to be of one kind, and not empty; an expression selects
\* blocks there are.
FindOK(q) ==
  /\ \A f \in ToSet(q.filters) : f.op \in Operators /\ f.labels # {}
  /\ \A k \in ToSet(q.keywords) : k.op \in Operators
  /\ q.expression \in (SUBSET Blocks) \cup {NoExpression}
  /\ q.topK \in Nat /\ q.window \in Nat

StrategyOK(s) ==
  /\ s.paths \in Seq(ToSet(s.paths))
  /\ \A p \in ToSet(s.paths) : p.block \in Blocks \cup {NoBlock}
  /\ s.topK \in Nat /\ s.weight \in Nat

RequestOK(r) ==
  /\ r.queries # <<>> /\ DOMAIN r.queries = 1..Len(r.queries)
  /\ r.weights \in [DOMAIN r.queries -> Nat]
  /\ \A i \in DOMAIN r.queries : FindOK(r.queries[i])
  /\ r.graph \in BOOLEAN /\ StrategyOK(r.strategy)

ASSUME RequestsAssumption ==
  /\ \A r \in Requests : RequestOK(r)
  /\ IsFiniteSet(Blocks) /\ NoBlock \notin Blocks
  /\ BlockStart \in [Blocks -> Nat] /\ BlockEnd \in [Blocks -> Nat]
  /\ Scores \subseteq Nat /\ MaxWindow \in Nat

VARIABLES
  request, \* the find requests, the last of them the main query, and the weights
  stage,   \* parse, retrieve, rerank, graph, then done, empty or failed
  matches, \* what the search returned for the find under way
  deleted, \* the resources deleted meanwhile
  sources, \* a weight and a ranking for each find and for the graph, as they come in
  best     \* best_matches

kbVars == <<request, stage, matches, deleted, sources, best>>

Query == request.queries[Len(sources) + 1]
IsMain == Len(sources) + 1 = Len(request.queries)

Init ==
  /\ request \in Requests
  /\ strategy = request.strategy
  /\ GraphInit
  /\ stage = "parse"
  /\ matches = <<>> /\ deleted = {} /\ sources = <<>> /\ best = <<>>

Goto(s) == stage' = s

Fail ==
  /\ Goto("failed")
  /\ UNCHANGED <<graphVars, request, matches, deleted, sources, best>>

DeleteResource(x) ==
  /\ stage \notin {"done", "empty", "failed"} /\ deleted = {}
  /\ deleted' = {x}
  /\ UNCHANGED <<graphVars, request, stage, matches, sources, best>>

(***************************************************************************)
(* find_retrieval                                                          *)
(***************************************************************************)
ParseFind ==
  /\ stage = "parse"
  /\ ~ FindInvalid(Query) /\ ~ FiltersInvalid(Query)
  /\ Goto("retrieve")
  /\ UNCHANGED <<graphVars, request, matches, deleted, sources, best>>

\* An invalid request; predict, the search or the augment endpoint failing.
FailFind ==
  \/ stage = "parse" /\ (FindInvalid(Query) \/ FiltersInvalid(Query) \/ NeedsPredict(Query)) /\ Fail
  \/ stage \in {"retrieve", "rerank"} /\ Fail

Live(b) == BlockResource[b] \notin deleted

Retrieve ==
  /\ stage = "retrieve"
  /\ \E found \in SUBSET {b \in Selected(Query) : Live(b)} :
     \E order \in SetToSeqs(found) :
       /\ Len(order) <= RetrievalTopK(Query)
       /\ matches' = [i \in DOMAIN order |-> Item(order[i], Len(order) + 1 - i)]
  /\ Goto("rerank")
  /\ UNCHANGED <<graphVars, request, deleted, sources, best>>

Resource(id) == IF id \in Blocks THEN BlockResource[id] ELSE id[2]
Present(ids) == {id \in ids : Resource(id) \notin deleted}

\* hydrate_and_rerank, by the reranker of q.
Hydrated(items, q, topK) ==
  LET ids == {x.id : x \in ToSet(items)}
      rankings == IF q.reranker = "noop" THEN {NoopRerank(items)}
                  ELSE {FailedRerank(items, RerankWindow(q))}
                       \cup {PredictRerank(items, RerankWindow(q), given) :
                               given \in [ids -> Scores \ {0}]}
  IN {Shown(BestBlocks(ranking, topK), Present(ids)) : ranking \in rankings}

Source(weight, items) == [weight |-> weight, items |-> items]

(***************************************************************************)
(* compute_best_matches, after the last of the results                     *)
(***************************************************************************)
Judge(found) ==
  /\ best' = IF TotalWeight(found) = 0 THEN <<>> ELSE Fuse(found)
  /\ Goto(IF \A i \in DOMAIN found : found[i].items = <<>> THEN "empty"
          ELSE IF TotalWeight(found) = 0 THEN "failed"   \* ZeroDivisionError
          ELSE "done")

HydrateAndRerank ==
  /\ stage = "rerank"
  /\ \E items \in Hydrated(matches, Query, Query.topK) :
       LET source == Source(request.weights[Len(sources) + 1], items)
           found == IF IsMain THEN <<source>> \o sources ELSE Append(sources, source)
       IN /\ sources' = found
          /\ IF ~ IsMain THEN Goto("parse") /\ UNCHANGED best
             ELSE IF request.graph THEN Goto("graph") /\ UNCHANGED best
             ELSE Judge(found)
  /\ UNCHANGED <<graphVars, request, matches, deleted>>

(***************************************************************************)
(* The graph strategy, one more prequery; what it raises nobody catches.   *)
(* Its blocks are ranked by the reranker of the main query.                *)
(***************************************************************************)
Hop ==
  /\ stage = "graph"
  /\ GraphNext
  /\ UNCHANGED kbVars

FailGraph == stage = "graph" /\ step \in {"failed", "built"} /\ Fail

MainQuery == request.queries[Len(request.queries)]

RerankGraph ==
  /\ stage = "graph" /\ step = "built"
  /\ \E items \in Hydrated(blocks, MainQuery, strategy.topK) :
       LET found == Append(sources, Source(strategy.weight, items))
       IN sources' = found /\ Judge(found)
  /\ UNCHANGED <<graphVars, request, matches, deleted>>

Next ==
  \/ \E x \in {BlockResource[b] : b \in Blocks} : DeleteResource(x)
  \/ ParseFind \/ FailFind \/ Retrieve \/ HydrateAndRerank
  \/ Hop \/ FailGraph \/ RerankGraph

Spec == Init /\ [][Next]_<<graphVars, kbVars>>

(***************************************************************************)
(* Properties                                                              *)
(***************************************************************************)
Agrees(op, has, wanted) ==
  CASE op \in {"one", "all"} -> wanted \subseteq has
    [] op = "any" -> wanted \cap has # {}
    [] op = "none" -> wanted \cap has = {}
    [] op = "not_all" -> ~ (wanted \subseteq has)

\* The filters in the older style keep their meaning when they are turned into
\* a filter expression: the search is asked for no block that lacks all of the
\* labels or words of an "all" filter, has one of a "none" filter, and so on.
\* (find.py:222-363, 511-595.)
FoundMatchFilters ==
  stage = "rerank" =>
    \A m \in ToSet(matches) :
      /\ \A f \in ToSet(Query.filters) : Agrees(f.op, BlockLabels[m.id], f.labels)
      /\ \A k \in ToSet(Query.keywords) : Agrees(k.op, BlockWords[m.id], k.words)
      /\ Query.fields # {} => BlockField[m.id] \in Query.fields
      /\ Query.resources # {} => BlockResource[m.id] \in Query.resources

ScoreIn(items, id) ==
  Total([i \in DOMAIN items |-> IF items[i].id = id THEN items[i].score ELSE 0])

WeightedScore(id) ==
  Total([i \in DOMAIN sources |-> ScoreIn(sources[i].items, id) * sources[i].weight])

\* "Ordered by relevance (descending weighted score)", and "if a paragraph is
\* matched in various prequeries, the final weighted score is the sum": every
\* paragraph that was found is among the best matches, once, and none is before
\* one with a greater sum.  (ask.py:1046-1118.)
BestMatchesRanked ==
  stage = "done" =>
    /\ {x.id : x \in ToSet(best)} = UNION {{x.id : x \in ToSet(s.items)} : s \in ToSet(sources)}
    /\ \A i, j \in DOMAIN best :
         i < j => best[i].id # best[j].id /\ WeightedScore(best[i].id) >= WeightedScore(best[j].id)

\* When all the results are in, the ask fails only if everything weighs nothing:
\* a single weight above zero is enough to order them.  (ask.py:1106.)
OnlyWeightlessFails ==
  stage = "failed" /\ Len(sources) = Len(request.queries) + (IF request.graph THEN 1 ELSE 0) =>
    \A s \in ToSet(sources) : s.weight = 0

=============================================================================
