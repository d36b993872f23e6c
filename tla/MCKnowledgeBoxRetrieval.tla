----------------------- MODULE MCKnowledgeBoxRetrieval -----------------------
(***************************************************************************)
(* TLC instance of KnowledgeBoxRetrieval: three paragraphs of a field, one *)
(* of which holds the others, and one of another resource.                 *)
(***************************************************************************)
EXTENDS KnowledgeBoxRetrieval

CONSTANTS a, b, ab, c

MCBlocks == {a, b, ab, c}
MCField == [x \in MCBlocks |-> IF x = c THEN "f2" ELSE "f1"]
MCResource == [x \in MCBlocks |-> IF x = c THEN "r2" ELSE "r1"]
MCStart == [x \in MCBlocks |-> IF x = b THEN 2 ELSE 0]
MCEnd == [x \in MCBlocks |-> IF x = a THEN 2 ELSE 4]
MCLabels == a :> {"x"} @@ b :> {"x", "y"} @@ ab :> {"z"} @@ c :> {"y", "z"}
MCWords == a :> {} @@ b :> {"u"} @@ ab :> {"u", "v"} @@ c :> {"v"}

Find ==
  [query |-> "words", features |-> {"keyword", "semantic"}, vector |-> FALSE, vectorset |-> FALSE,
   minScore |-> FALSE, image |-> FALSE, synonyms |-> FALSE, graphQuery |-> FALSE,
   expression |-> NoExpression, filters |-> <<>>, keywords |-> <<>>, fields |-> {},
   resources |-> {}, ranges |-> {}, reranker |-> "noop", window |-> 0, topK |-> 2]

None == [hops |-> 1, topK |-> 1, detection |-> "suggest", ranking |-> "reranker", text |-> FALSE,
         weight |-> 1, paths |-> <<>>]

Ask(finds, weights, graph, s) ==
  [queries |-> finds, weights |-> weights, graph |-> graph, strategy |-> s]

One(f) == Ask(<<f>>, <<1>>, FALSE, None)

Terms == {[op |-> o, labels |-> ls] : o \in {"one", "all", "any", "none", "not_all"},
                                     ls \in {{"x"}, {"x", "y"}, {"y", "z"}}}
Words == {[op |-> o, words |-> {"u", "v"}] : o \in {"all", "any", "none", "not_all"}}

\* Each way to filter, and each way for a find to be invalid or to need predict.
Filtering ==
  {One([Find EXCEPT !.filters = <<f>>]) : f \in {t \in Terms : t.op = "one" => t.labels = {"x"}}}
    \cup {One([Find EXCEPT !.keywords = <<k>>, !.filters = fs]) :
            k \in Words, fs \in {<<>>, <<[op |-> "any", labels |-> {"x", "y"}]>>}}
    \cup {One([Find EXCEPT !.fields = fs, !.resources = rs]) :
            fs \in {{"f1"}, {"f2"}}, rs \in {{}, {"r1"}, {"r1", "r2"}}}
    \cup {One([Find EXCEPT !.ranges = {{b, c}}, !.expression = e]) : e \in {NoExpression, {b}}}
    \cup {One([Find EXCEPT !.query = "empty", !.synonyms = s]) : s \in BOOLEAN}
    \cup {One([Find EXCEPT !.synonyms = TRUE]), One([Find EXCEPT !.query = "exact", !.image = TRUE]),
          One([Find EXCEPT !.graphQuery = TRUE]),
          One([Find EXCEPT !.vector = TRUE, !.vectorset = TRUE, !.minScore = TRUE])}

\* Two prequeries and the main query, all of the first field.
InFirst(reranker) == [Find EXCEPT !.expression = {a, b}, !.reranker = reranker, !.features = {"keyword"}]

Weighing ==
  {Ask(<<InFirst("noop"), InFirst(r)>>, <<m, n>>, FALSE, None) :
     r \in {"noop", "predict", "window"}, m, n \in {0, 1, 2}}

Tip == <<"t", "g">>
Top == <<"u", "g">>
End == <<"v", "g">>
Twin == <<"t", "h">>

Graphs ==
  {<<Path(Tip, "is", Top, ab), Path(Tip, "has", Top, a), Path(Top, "is", End, b)>>,
   <<Path(Tip, "is", Top, b), Path(Tip, "is", Top, NoBlock), Path(End, "is", Tip, c)>>,
   <<Path(Top, "is", End, NoBlock), Path(Tip, "is", Top, c)>>,
   <<Path(Tip, "is", Top, a), Path(Top, "is", Twin, b), Path(Twin, "is", End, c)>>}

Exploring ==
  {Ask(<<[InFirst(r) EXCEPT !.expression = {c}, !.topK = 1]>>, <<m>>, TRUE,
       [hops |-> 2, topK |-> k, detection |-> d, ranking |-> g, text |-> t, weight |-> w, paths |-> ps]) :
     <<r, m, w>> \in {<<"noop", 1, 1>>, <<"predict", 0, 1>>, <<"predict", 0, 0>>},
     <<k, g>> \in {<<1, "reranker">>, <<3, "generative">>},
     d \in {"suggest", "predict"}, t \in BOOLEAN, ps \in Graphs}

MCRequests == Filtering \cup Weighing \cup Exploring

=============================================================================
