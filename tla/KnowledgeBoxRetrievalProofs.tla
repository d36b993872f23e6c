-------------------- MODULE KnowledgeBoxRetrievalProofs --------------------
(***************************************************************************)
(* Proofs about KnowledgeBoxRetrieval, for any requests, filters, text     *)
(* blocks, scores, weights and graphs: what the filters mean, when an ask  *)
(* fails, the relations of the graph strategy and its paragraphs, and the  *)
(* order of the best matches.                                              *)
(***************************************************************************)
EXTENDS KnowledgeBoxRetrieval, SequenceLemmas

---------------------------------------------------------------------------
(***************************************************************************)
(* The course of an ask.                                                   *)
(***************************************************************************)

\* Where an ask is.
Stages == {"parse", "retrieve", "rerank", "graph", "done", "empty", "failed"}

vars == <<graphVars, kbVars>>

\* The results an ask waits for: those of its finds, and of the graph strategy.
Expected == Len(request.queries) + (IF request.graph THEN 1 ELSE 0)

\* Sources come in one by one, each with its weight, and when all are there only
\* a total weight of nothing fails.
CourseInv ==
  /\ request \in Requests /\ strategy = request.strategy
  /\ stage \in Stages
  /\ sources \in Seq(ToSet(sources)) /\ \A s \in ToSet(sources) : s.weight \in Nat
  /\ stage \in {"parse", "retrieve", "rerank"} => Len(sources) < Len(request.queries)
  /\ stage = "graph" => Len(sources) = Len(request.queries) /\ request.graph
  /\ stage = "failed" /\ Len(sources) = Expected => \A s \in ToSet(sources) : s.weight = 0

\* What a request is made of.
LEMMA RequestParts ==
    ASSUME request \in Requests
    PROVE  /\ Len(request.queries) \in Nat \ {0}
           /\ DOMAIN request.queries = 1..Len(request.queries)
           /\ \A i \in 1..Len(request.queries) : request.weights[i] \in Nat /\ FindOK(request.queries[i])
           /\ request.graph \in BOOLEAN /\ StrategyOK(request.strategy)
<1> DEFINE q == request.queries
<1>1. RequestOK(request)
  BY RequestsAssumption
<1>2. /\ q # <<>> /\ DOMAIN q = 1..Len(q) /\ request.weights \in [DOMAIN q -> Nat]
      /\ \A i \in DOMAIN q : FindOK(q[i])
      /\ request.graph \in BOOLEAN /\ StrategyOK(request.strategy)
  BY <1>1 DEF RequestOK
<1> QED
  BY <1>2

\* One source more, behind the others or before them.
LEMMA OneSourceMore ==
    ASSUME NEW ss, ss \in Seq(ToSet(ss)), NEW x
    PROVE  /\ Append(ss, x) \in Seq(ToSet(Append(ss, x))) /\ ToSet(Append(ss, x)) = ToSet(ss) \cup {x}
           /\ Len(Append(ss, x)) = Len(ss) + 1
           /\ <<x>> \o ss \in Seq(ToSet(<<x>> \o ss)) /\ ToSet(<<x>> \o ss) = ToSet(ss) \cup {x}
           /\ Len(<<x>> \o ss) = Len(ss) + 1
<1> DEFINE W == ToSet(ss) \cup {x}
           a == Append(ss, x)
           b == <<x>>
           c == b \o ss
<1>1. ss \in Seq(W) /\ b \in Seq(W) /\ x \in W /\ ToSet(b) = {x} /\ Len(b) = 1
  <2>1. ss \in Seq(W)
    <3>1. ToSet(ss) \subseteq W
      OBVIOUS
    <3> HIDE DEF W
    <3> QED
      BY <3>1, SeqOfLarger
  <2> QED
    BY <2>1 DEF ToSet
<1> HIDE DEF W, b
<1>2. ToSet(a) = ToSet(ss) \cup {x} /\ a \in Seq(W) /\ Len(a) = Len(ss) + 1
  BY <1>1, ToSetAppend
<1>3. ToSet(c) = {x} \cup ToSet(ss) /\ c \in Seq(W) /\ Len(c) = 1 + Len(ss)
  <2>1. ToSet(c) = ToSet(b) \cup ToSet(ss)
    BY <1>1, ToSetConcat
  <2>2. \A u \in Seq(W), v \in Seq(W) : u \o v \in Seq(W) /\ Len(u \o v) = Len(u) + Len(v)
    OBVIOUS
  <2> QED
    BY <1>1, <2>1, <2>2
<1>4. Len(ss) \in Nat
  BY <1>1
<1> HIDE DEF a, c
<1>5. ToSet(a) = W /\ ToSet(c) = W /\ Len(c) = Len(ss) + 1
  BY <1>2, <1>3, <1>4 DEF W
<1> QED
  BY <1>2, <1>3, <1>5 DEF a, b, c, W

\* What weighs nothing together weighs nothing.
LEMMA WeightlessTotal ==
    ASSUME NEW ss, ss \in Seq(ToSet(ss)), \A s \in ToSet(ss) : s.weight \in Nat
    PROVE  /\ TotalWeight(ss) \in Nat
           /\ TotalWeight(ss) = 0 => \A s \in ToSet(ss) : s.weight = 0
<1> DEFINE w == [i \in DOMAIN ss |-> ss[i].weight]
<1>1. DOMAIN ss = 1..Len(ss) /\ Len(ss) \in Nat /\ \A i \in DOMAIN ss : ss[i].weight \in Nat
  BY DEF ToSet
<1>2. w \in Seq(Nat) /\ Len(w) = Len(ss) /\ \A i \in DOMAIN ss : w[i] = ss[i].weight
  <2>1. w \in [1..Len(ss) -> Nat]
    BY <1>1
  <2> QED
    BY <1>1, <2>1
<1>3. TotalWeight(ss) = Total(w)
  BY DEF TotalWeight
<1> HIDE DEF w
<1>4. Total(w) \in Nat
  BY <1>2, TotalNat
<1>5. ASSUME Total(w) = 0, NEW s \in ToSet(ss) PROVE s.weight = 0
  <2>1. PICK i \in DOMAIN ss : s = ss[i]
    BY <1>5 DEF ToSet
  <2>2. w[i] <= Total(w)
    BY <1>1, <1>2, TotalBounds
  <2>3. w[i] = s.weight /\ w[i] \in Nat
    BY <1>1, <1>2, <2>1
  <2> QED
    BY <1>5, <2>2, <2>3
<1> QED
  BY <1>3, <1>4, <1>5

\* Steps that leave the sources and the request alone, and go on or end.
LEMMA CourseKept ==
    ASSUME CourseInv, request' = request, sources' = sources, strategy' = strategy,
           \/ stage' = stage
           \/ stage \in {"parse", "retrieve", "rerank"} /\ stage' \in {"parse", "retrieve", "rerank"}
           \/ stage \in {"parse", "retrieve", "rerank", "graph"} /\ stage' = "failed"
    PROVE  CourseInv'
<1>1. /\ request' \in Requests /\ strategy' = request'.strategy /\ stage' \in Stages
      /\ sources' \in Seq(ToSet(sources')) /\ \A s \in ToSet(sources') : s.weight \in Nat
  BY DEF CourseInv, Stages
<1>2. stage' \in {"parse", "retrieve", "rerank"} => Len(sources') < Len(request'.queries)
  BY DEF CourseInv
<1>3. stage' = "graph" => Len(sources') = Len(request'.queries) /\ request'.graph
  BY DEF CourseInv
<1>4. ASSUME stage' = "failed", Len(sources) = Expected PROVE \A s \in ToSet(sources) : s.weight = 0
  <2>1. CASE stage = "failed"
    BY <1>4, <2>1 DEF CourseInv
  <2>2. CASE stage \in {"parse", "retrieve", "rerank", "graph"}
    <3>1. Len(request.queries) \in Nat /\ Len(sources) \in Nat /\ request.graph \in BOOLEAN
      BY RequestParts DEF CourseInv
    <3>2. Len(sources) < Expected
      <4>1. Len(sources) < Len(request.queries) \/ (Len(sources) = Len(request.queries) /\ request.graph)
        BY <2>2 DEF CourseInv
      <4>2. Expected = Len(request.queries) + (IF request.graph THEN 1 ELSE 0)
        BY DEF Expected
      <4>3. CASE request.graph
        <5>1. Expected = Len(request.queries) + 1
          BY <4>2, <4>3
        <5>2. Len(sources) <= Len(request.queries)
          BY <3>1, <4>1
        <5> QED
          BY <3>1, <5>1, <5>2
      <4>4. CASE ~ request.graph
        <5>1. Expected = Len(request.queries) /\ Len(sources) < Len(request.queries)
          BY <3>1, <4>1, <4>2, <4>4
        <5> QED
          BY <5>1
      <4> QED
        BY <4>3, <4>4
    <3> QED
      BY <1>4, <3>1, <3>2
  <2> QED
    BY <1>4, <2>1, <2>2
<1>5. Expected' = Expected
  BY DEF Expected
<1> QED
  BY <1>1, <1>2, <1>3, <1>4, <1>5 DEF CourseInv

\* compute_best_matches fails of nothing but a division by zero.
LEMMA JudgeCourse ==
    ASSUME NEW found, found \in Seq(ToSet(found)), \A s \in ToSet(found) : s.weight \in Nat,
           CourseInv, Judge(found), sources' = found, request' = request, strategy' = strategy
    PROVE  CourseInv'
<1>1. stage' \in {"empty", "failed", "done"} /\ (stage' = "failed" => TotalWeight(found) = 0)
  BY DEF Judge, Goto
<1>2. stage' = "failed" => \A s \in ToSet(sources') : s.weight = 0
  BY <1>1, WeightlessTotal
<1> QED
  BY <1>1, <1>2 DEF CourseInv, Stages

\* The steps of the graph strategy leave its request alone.
LEMMA GraphSteps == ASSUME GraphNext PROVE strategy' = strategy
BY DEF GraphNext, DetectEntities, NextFrontier, FindNeighbours, FailNeighbours, EndHop,
       RankRelations, FailRanking, BuildBlocks

\* Every step of an ask of a knowledge box keeps its course.
LEMMA CourseStep == CourseInv /\ [Next]_vars => CourseInv'
<1> SUFFICES ASSUME CourseInv, [Next]_vars PROVE CourseInv'
  OBVIOUS
<1>1. CASE UNCHANGED vars
  BY <1>1, CourseKept DEF vars, graphVars, kbVars
<1>2. ASSUME NEW x \in {BlockResource[b] : b \in Blocks}, DeleteResource(x) PROVE CourseInv'
  BY <1>2, CourseKept DEF DeleteResource, graphVars
<1>3. CASE ParseFind
  BY <1>3, CourseKept DEF ParseFind, Goto, graphVars
<1>4. CASE FailFind
  BY <1>4, CourseKept DEF FailFind, Fail, Goto, graphVars
<1>5. CASE Retrieve
  BY <1>5, CourseKept DEF Retrieve, Goto, graphVars
<1>6. CASE HydrateAndRerank
  <2>1. PICK items \in Hydrated(matches, Query, Query.topK) :
          LET source == Source(request.weights[Len(sources) + 1], items)
              found == IF IsMain THEN <<source>> \o sources ELSE Append(sources, source)
          IN /\ sources' = found
             /\ IF ~ IsMain THEN Goto("parse") /\ UNCHANGED best
                ELSE IF request.graph THEN Goto("graph") /\ UNCHANGED best
                ELSE Judge(found)
    BY <1>6 DEF HydrateAndRerank
  <2> DEFINE source == Source(request.weights[Len(sources) + 1], items)
             found == IF IsMain THEN <<source>> \o sources ELSE Append(sources, source)
  <2>2. /\ sources' = found
        /\ IF ~ IsMain THEN Goto("parse") /\ UNCHANGED best
           ELSE IF request.graph THEN Goto("graph") /\ UNCHANGED best
           ELSE Judge(found)
    BY <2>1
  <2>3. request' = request /\ strategy' = strategy /\ stage = "rerank"
    BY <1>6 DEF HydrateAndRerank, graphVars
  <2>4. /\ Len(request.queries) \in Nat /\ Len(sources) \in Nat /\ Len(sources) < Len(request.queries)
        /\ request.weights[Len(sources) + 1] \in Nat
    <3>1. Len(request.queries) \in Nat /\ Len(sources) \in Nat /\ Len(sources) < Len(request.queries)
      BY <2>3, RequestParts DEF CourseInv
    <3>2. Len(sources) + 1 \in 1..Len(request.queries)
      BY <3>1
    <3> QED
      BY <3>1, <3>2, RequestParts DEF CourseInv
  <2>5. source.weight \in Nat
    BY <2>4 DEF Source
  <2> HIDE DEF source
  <2>6. found \in Seq(ToSet(found)) /\ ToSet(found) = ToSet(sources) \cup {source}
          /\ Len(found) = Len(sources) + 1
    BY OneSourceMore DEF CourseInv
  <2> HIDE DEF found
  <2>7. \A s \in ToSet(found) : s.weight \in Nat
    BY <2>5, <2>6 DEF CourseInv
  <2>8. CASE ~ IsMain
    <3>1. stage' = "parse" /\ Len(found) < Len(request.queries)
      BY <2>2, <2>4, <2>6, <2>8 DEF IsMain, Goto
    <3> QED
      BY <2>2, <2>3, <2>6, <2>7, <3>1 DEF CourseInv, Stages
  <2>9. CASE IsMain /\ request.graph
    <3>1. stage' = "graph" /\ Len(found) = Len(request.queries)
      BY <2>2, <2>4, <2>6, <2>9 DEF IsMain, Goto
    <3> QED
      BY <2>2, <2>3, <2>6, <2>7, <2>9, <3>1 DEF CourseInv, Stages
  <2>10. CASE IsMain /\ ~ request.graph
    <3>1. Judge(found)
      BY <2>2, <2>10
    <3> QED
      BY <2>2, <2>3, <2>6, <2>7, <3>1, JudgeCourse
  <2> QED
    BY <2>8, <2>9, <2>10
<1>7. CASE Hop
  BY <1>7, GraphSteps, CourseKept DEF Hop, kbVars
<1>8. CASE FailGraph
  BY <1>8, CourseKept DEF FailGraph, Fail, Goto, graphVars
<1>9. CASE RerankGraph
  <2>1. PICK items \in Hydrated(blocks, MainQuery, strategy.topK) :
          LET found == Append(sources, Source(strategy.weight, items))
          IN sources' = found /\ Judge(found)
    BY <1>9 DEF RerankGraph
  <2> DEFINE source == Source(strategy.weight, items)
             found == Append(sources, source)
  <2>2. sources' = found /\ Judge(found) /\ request' = request /\ strategy' = strategy
    BY <1>9, <2>1 DEF RerankGraph, graphVars
  <2>3. source.weight \in Nat
    BY RequestParts DEF CourseInv, StrategyOK, Source
  <2> HIDE DEF source
  <2>4. found \in Seq(ToSet(found)) /\ ToSet(found) = ToSet(sources) \cup {source}
    BY OneSourceMore DEF CourseInv
  <2> HIDE DEF found
  <2>5. \A s \in ToSet(found) : s.weight \in Nat
    BY <2>3, <2>4 DEF CourseInv
  <2> QED
    BY <2>2, <2>4, <2>5, JudgeCourse
<1> QED
  BY <1>1, <1>2, <1>3, <1>4, <1>5, <1>6, <1>7, <1>8, <1>9 DEF Next

\* An ask that begins has no source.
LEMMA CourseInit == Init => CourseInv
<1> SUFFICES ASSUME Init PROVE CourseInv
  OBVIOUS
<1>1. request \in Requests /\ strategy = request.strategy /\ stage = "parse" /\ sources = <<>>
  BY DEF Init
<1>2. ToSet(<<>>) = {} /\ Len(<<>>) = 0 /\ <<>> \in Seq({})
  BY DEF ToSet
<1>3. Len(request.queries) \in Nat \ {0}
  BY <1>1, RequestParts
<1> QED
  BY <1>1, <1>2, <1>3 DEF CourseInv, Stages

\* What an ask waits for comes in source by source: its finds one after the other,
\* then the graph strategy. A weight that is missing never fails it before the end.
THEOREM Course == Spec => []CourseInv
<1> QED
  BY CourseInit, CourseStep, PTL DEF Spec, vars

\* When the results are in, an ask of a knowledge box fails only if every find and
\* the graph strategy weigh nothing: compute_best_matches divides by their total.
THEOREM WeightsDecide == Spec => []OnlyWeightlessFails
<1>1. CourseInv => OnlyWeightlessFails
  BY DEF CourseInv, OnlyWeightlessFails, Expected
<1> QED
  BY <1>1, Course, PTL

---------------------------------------------------------------------------
(***************************************************************************)
(* What is found.                                                          *)
(***************************************************************************)

\* What a search returns: blocks with scores.
Hits == [id : Blocks, score : Nat]

\* From its parsing to the reranking a find has valid filters, and what the search
\* returned is selected by them.
FoundInv ==
  /\ matches \in Seq(Hits)
  /\ stage \in {"retrieve", "rerank"} => ~ FiltersInvalid(Query)
  /\ stage = "rerank" => \A m \in ToSet(matches) : m.id \in Selected(Query)

\* Filters select blocks.
LEMMA SelectedBlocks ==
    ASSUME NEW q, FindOK(q)
    PROVE  Selected(q) \subseteq Blocks
<1>1. CASE q.expression # NoExpression
  BY <1>1 DEF FindOK, Selected
<1>2. CASE q.expression = NoExpression
  BY <1>2 DEF Selected, And
<1> QED
  BY <1>1, <1>2

\* Query is one of the request's.
LEMMA QueryOK ==
    ASSUME CourseInv, stage \in {"parse", "retrieve", "rerank"}
    PROVE  FindOK(Query)
<1>1. Len(sources) \in Nat /\ Len(sources) < Len(request.queries) /\ Len(request.queries) \in Nat
  BY RequestParts DEF CourseInv
<1>2. Len(sources) + 1 \in 1..Len(request.queries)
  BY <1>1
<1> QED
  BY <1>2, RequestParts DEF CourseInv, Query

\* What the search returns.
LEMMA RetrieveFound ==
    ASSUME CourseInv, FoundInv, Retrieve
    PROVE  matches' \in Seq(Hits) /\ \A m \in ToSet(matches') : m.id \in Selected(Query)
<1>1. PICK found \in SUBSET {b \in Selected(Query) : Live(b)} :
        \E order \in SetToSeqs(found) :
          matches' = [i \in DOMAIN order |-> Item(order[i], Len(order) + 1 - i)]
  BY DEF Retrieve
<1>2. PICK order \in SetToSeqs(found) :
        matches' = [i \in DOMAIN order |-> Item(order[i], Len(order) + 1 - i)]
  BY <1>1
<1>3. Selected(Query) \subseteq Blocks
  BY QueryOK, SelectedBlocks DEF Retrieve
<1>4. IsFiniteSet(found)
  <2>1. found \subseteq Blocks
    BY <1>3
  <2> QED
    BY <2>1, RequestsAssumption, FS_Subset
<1> DEFINE n == Cardinality(found)
<1>5. n \in Nat
  BY <1>4, FS_CardinalityType
<1>6. order \in [1..n -> found]
  BY <1>2 DEF SetToSeqs
<1> HIDE DEF n
<1>7. Len(order) = n /\ DOMAIN order = 1..n
  BY <1>5, <1>6
<1>8. \A i \in 1..n : Item(order[i], Len(order) + 1 - i) \in Hits /\ order[i] \in Selected(Query)
  BY <1>1, <1>3, <1>5, <1>6, <1>7 DEF Item, Hits
<1>9. matches' \in [1..n -> Hits] /\ \A i \in 1..n : matches'[i].id \in Selected(Query)
  BY <1>2, <1>7, <1>8 DEF Item
<1>10. matches' \in Seq(Hits) /\ DOMAIN matches' = 1..n
  BY <1>5, <1>9
<1> QED
  BY <1>9, <1>10 DEF ToSet

\* Every step keeps what is known of what was found.
LEMMA FoundStep == CourseInv /\ FoundInv /\ [Next]_vars => FoundInv'
<1> SUFFICES ASSUME CourseInv, FoundInv, [Next]_vars PROVE FoundInv'
  OBVIOUS
<1>0. ASSUME matches' = matches,
             stage' \notin {"retrieve", "rerank"}
               \/ (request' = request /\ sources' = sources /\ stage' = stage)
      PROVE  FoundInv'
  BY <1>0 DEF FoundInv, Query
<1>1. CASE UNCHANGED vars
  BY <1>0, <1>1 DEF vars, kbVars
<1>2. ASSUME NEW x \in {BlockResource[b] : b \in Blocks}, DeleteResource(x) PROVE FoundInv'
  BY <1>0, <1>2 DEF DeleteResource
<1>3. CASE ParseFind
  <2>1. stage' = "retrieve" /\ matches' = matches /\ ~ FiltersInvalid(Query) /\ Query' = Query
    BY <1>3 DEF ParseFind, Goto, Query
  <2>2. ~ FiltersInvalid(Query)'
    BY <2>1 DEF FiltersInvalid
  <2> QED
    BY <2>1, <2>2 DEF FoundInv
<1>4. CASE FailFind
  BY <1>0, <1>4 DEF FailFind, Fail, Goto
<1>5. CASE Retrieve
  <2>1. stage = "retrieve" /\ stage' = "rerank" /\ Query' = Query
    BY <1>5 DEF Retrieve, Goto, Query
  <2>2. matches' \in Seq(Hits) /\ \A m \in ToSet(matches') : m.id \in Selected(Query)
    BY <1>5, RetrieveFound
  <2> QED
    BY <2>1, <2>2 DEF FoundInv
<1>6. CASE HydrateAndRerank
  <2>1. matches' = matches /\ stage' \in {"parse", "graph", "empty", "failed", "done"}
    BY <1>6 DEF HydrateAndRerank, Judge, Goto
  <2> QED
    BY <1>0, <2>1
<1>7. CASE Hop
  BY <1>0, <1>7 DEF Hop, kbVars
<1>8. CASE FailGraph
  BY <1>0, <1>8 DEF FailGraph, Fail, Goto
<1>9. CASE RerankGraph
  <2>1. matches' = matches /\ stage' \in {"empty", "failed", "done"}
    BY <1>9 DEF RerankGraph, Judge, Goto
  <2> QED
    BY <1>0, <2>1
<1> QED
  BY <1>1, <1>2, <1>3, <1>4, <1>5, <1>6, <1>7, <1>8, <1>9 DEF Next

\* What the search of a find returned is selected by the filters it was sent with.
THEOREM Found == Spec => []FoundInv
<1>1. Init => FoundInv
  BY DEF Init, FoundInv
<1> QED
  BY <1>1, FoundStep, Course, PTL DEF Spec, vars

\* The labels that are left for each of the two expressions of a filter.
LEMMA LabelsAgree ==
    ASSUME NEW f, f.op \in Operators, f.labels # {}, ~ LabelsInvalid(f),
           NEW b \in Blocks, \A e \in LabelExpressions(f) : b \in e
    PROVE  Agrees(f.op, BlockLabels[b], f.labels)
<1> DEFINE P == f.labels \cap ParagraphLabels
           F == f.labels \ ParagraphLabels
<1>1. f.labels = P \cup F
  OBVIOUS
<1>2. f.op \notin {"one", "all"} => P = {}
  BY DEF LabelsInvalid
<1>3. \A e \in Combine(f.op, LabelTerms(f, F)) \cup Combine(f.op, LabelTerms(f, P)) : b \in e
  BY DEF LabelExpressions
<1> HIDE DEF P, F
<1>4. ASSUME NEW ls \in {P, F}, f.op \in {"one", "all", "none"}, NEW l \in ls
      PROVE  b \in (IF Negates(f) THEN Not(HasLabel(l)) ELSE HasLabel(l))
  <2> DEFINE t == IF Negates(f) THEN Not(HasLabel(l)) ELSE HasLabel(l)
  <2>1. t \in LabelTerms(f, ls)
    BY <1>4 DEF LabelTerms
  <2> HIDE DEF t
  <2>2. And(LabelTerms(f, ls)) \in Combine(f.op, LabelTerms(f, ls))
    BY <1>4, <2>1 DEF Combine
  <2>3. b \in And(LabelTerms(f, ls))
    BY <1>3, <1>4, <2>2
  <2>4. b \in t
    BY <2>1, <2>3 DEF And
  <2> QED
    BY <2>4 DEF t
<1>5. ASSUME f.op \in {"any", "not_all"}
      PROVE  \E l \in F : b \in (IF Negates(f) THEN Not(HasLabel(l)) ELSE HasLabel(l))
  <2>1. F # {}
    BY <1>1, <1>2, <1>5
  <2>2. LabelTerms(f, F) # {}
    BY <2>1 DEF LabelTerms
  <2>3. Or(LabelTerms(f, F)) \in Combine(f.op, LabelTerms(f, F))
    BY <1>5, <2>2 DEF Combine
  <2>4. b \in Or(LabelTerms(f, F))
    BY <1>3, <2>3
  <2> QED
    BY <2>4 DEF Or, LabelTerms
<1>6. CASE f.op \in {"one", "all"}
  <2>1. ASSUME NEW l \in f.labels PROVE l \in BlockLabels[b]
    <3>1. b \in HasLabel(l)
      BY <1>1, <1>4, <1>6 DEF Negates
    <3> QED
      BY <3>1 DEF HasLabel
  <2> QED
    BY <1>6, <2>1 DEF Agrees
<1>7. CASE f.op = "none"
  <2>1. ASSUME NEW l \in f.labels PROVE l \notin BlockLabels[b]
    <3>1. b \in Not(HasLabel(l))
      BY <1>1, <1>4, <1>7 DEF Negates
    <3> QED
      BY <3>1 DEF HasLabel, Not
  <2> QED
    BY <1>7, <2>1 DEF Agrees
<1>8. CASE f.op = "any"
  <2>1. PICK l \in F : b \in HasLabel(l)
    BY <1>5, <1>8 DEF Negates
  <2> QED
    BY <1>1, <1>8, <2>1 DEF HasLabel, Agrees
<1>9. CASE f.op = "not_all"
  <2>1. PICK l \in F : b \in Not(HasLabel(l))
    BY <1>5, <1>9 DEF Negates
  <2> QED
    BY <1>1, <1>9, <2>1 DEF HasLabel, Not, Agrees
<1> QED
  BY <1>6, <1>7, <1>8, <1>9 DEF Operators

\* The words of a keyword filter.
LEMMA WordsAgree ==
    ASSUME NEW k, k.op \in Operators, NEW b \in Blocks, b \in KeywordExpression(k)
    PROVE  Agrees(k.op, BlockWords[b], k.words)
<1>1. CASE k.op \in {"one", "all"}
  <2>1. b \in And({HasWord(w) : w \in k.words})
    BY <1>1 DEF KeywordExpression
  <2> QED
    BY <1>1, <2>1 DEF And, HasWord, Agrees
<1>2. CASE k.op = "any"
  <2>1. b \in Or({HasWord(w) : w \in k.words})
    BY <1>2 DEF KeywordExpression
  <2> QED
    BY <1>2, <2>1 DEF Or, HasWord, Agrees
<1>3. CASE k.op = "none"
  <2>1. b \in Not(Or({HasWord(w) : w \in k.words}))
    BY <1>3 DEF KeywordExpression
  <2>2. \A w \in k.words : b \notin HasWord(w)
    BY <2>1 DEF Not, Or
  <2> QED
    BY <1>3, <2>2 DEF HasWord, Agrees
<1>4. CASE k.op = "not_all"
  <2>1. b \in Not(And({HasWord(w) : w \in k.words}))
    BY <1>4 DEF KeywordExpression
  <2>2. \E w \in k.words : b \notin HasWord(w)
    BY <2>1 DEF Not, And
  <2> QED
    BY <1>4, <2>2 DEF HasWord, Agrees
<1> QED
  BY <1>1, <1>2, <1>3, <1>4 DEF Operators

\* The expressions that the filters of a request are turned into, one kind after
\* the other.
LEMMA OldParts ==
    ASSUME NEW q
    PROVE  /\ \A f \in ToSet(q.filters) : LabelExpressions(f) \subseteq OldExpressions(q)
           /\ \A k \in ToSet(q.keywords) : KeywordExpression(k) \in OldExpressions(q)
           /\ AnyOf({InField(f) : f \in q.fields}) \subseteq OldExpressions(q)
           /\ AnyOf({InResource(x) : x \in q.resources}) \subseteq OldExpressions(q)
<1> DEFINE A == UNION {LabelExpressions(f) : f \in ToSet(q.filters)}
           B == {KeywordExpression(k) : k \in ToSet(q.keywords)}
           C == AnyOf({InField(f) : f \in q.fields})
           D == AnyOf({InResource(x) : x \in q.resources})
           E == q.ranges
<1>1. OldExpressions(q) = A \cup B \cup C \cup D \cup E
  BY DEF OldExpressions
<1>2. \A f \in ToSet(q.filters) : LabelExpressions(f) \subseteq A
  OBVIOUS
<1>3. \A k \in ToSet(q.keywords) : KeywordExpression(k) \in B
  OBVIOUS
<1> HIDE DEF A, B, C, D, E
<1>4. A \subseteq OldExpressions(q) /\ B \subseteq OldExpressions(q)
        /\ C \subseteq OldExpressions(q) /\ D \subseteq OldExpressions(q)
  BY <1>1
<1>5. C \subseteq OldExpressions(q) /\ D \subseteq OldExpressions(q)
  BY <1>4
<1>6. \A f \in ToSet(q.filters) : LabelExpressions(f) \subseteq OldExpressions(q)
  BY <1>2, <1>4
<1>7. \A k \in ToSet(q.keywords) : KeywordExpression(k) \in OldExpressions(q)
  BY <1>3, <1>4
<1> QED
  BY <1>5, <1>6, <1>7 DEF C, D

\* A block that the filters select, converted, agrees with each of them.
LEMMA SelectedAgrees ==
    ASSUME NEW q, FindOK(q), ~ FiltersInvalid(q), NEW b \in Selected(q)
    PROVE  /\ \A f \in ToSet(q.filters) : Agrees(f.op, BlockLabels[b], f.labels)
           /\ \A k \in ToSet(q.keywords) : Agrees(k.op, BlockWords[b], k.words)
           /\ q.fields # {} => BlockField[b] \in q.fields
           /\ q.resources # {} => BlockResource[b] \in q.resources
<1>1. CASE q.expression # NoExpression
  <2>1. q.filters = <<>> /\ q.keywords = <<>> /\ q.fields = {} /\ q.resources = {}
    BY <1>1 DEF FiltersInvalid, HasOldFilters
  <2> QED
    BY <2>1 DEF ToSet
<1>2. CASE q.expression = NoExpression
  <2>1. b \in Blocks /\ \A e \in OldExpressions(q) : b \in e
    BY <1>2 DEF Selected, And
  <2>2. ASSUME NEW f \in ToSet(q.filters) PROVE Agrees(f.op, BlockLabels[b], f.labels)
    <3>1. LabelExpressions(f) \subseteq OldExpressions(q)
      BY <2>2, OldParts
    <3>2. ~ LabelsInvalid(f)
      BY <2>2 DEF FiltersInvalid
    <3>3. f.op \in Operators /\ f.labels # {}
      BY <2>2 DEF FindOK
    <3> QED
      BY <2>1, <3>1, <3>2, <3>3, LabelsAgree
  <2>3. ASSUME NEW k \in ToSet(q.keywords) PROVE Agrees(k.op, BlockWords[b], k.words)
    <3>1. KeywordExpression(k) \in OldExpressions(q)
      BY <2>3, OldParts
    <3>2. k.op \in Operators
      BY <2>3 DEF FindOK
    <3> QED
      BY <2>1, <3>1, <3>2, WordsAgree
  <2>4. ASSUME q.fields # {} PROVE BlockField[b] \in q.fields
    <3> DEFINE es == {InField(f) : f \in q.fields}
    <3>1. AnyOf(es) \subseteq OldExpressions(q)
      BY OldParts
    <3>2. b \in Or(es)
      <4>1. es # {}
        BY <2>4
      <4>2. AnyOf(es) = {Or(es)}
        BY <4>1 DEF AnyOf
      <4> QED
        BY <2>1, <3>1, <4>2
    <3> QED
      BY <3>2 DEF Or, InField
  <2>5. ASSUME q.resources # {} PROVE BlockResource[b] \in q.resources
    <3> DEFINE es == {InResource(x) : x \in q.resources}
    <3>1. AnyOf(es) \subseteq OldExpressions(q)
      BY OldParts
    <3>2. b \in Or(es)
      <4>1. es # {}
        BY <2>5
      <4>2. AnyOf(es) = {Or(es)}
        BY <4>1 DEF AnyOf
      <4> QED
        BY <2>1, <3>1, <4>2
    <3> QED
      BY <3>2 DEF Or, InResource
  <2> QED
    BY <2>2, <2>3, <2>4, <2>5
<1> QED
  BY <1>1, <1>2

\* What the search returns agrees with every filter in the older style the request
\* has: the conversion of _parse_filters keeps their meaning.
THEOREM FiltersKept == Spec => []FoundMatchFilters
<1>1. CourseInv /\ FoundInv => FoundMatchFilters
  <2> SUFFICES ASSUME CourseInv, FoundInv, stage = "rerank", NEW m \in ToSet(matches)
               PROVE  /\ \A f \in ToSet(Query.filters) : Agrees(f.op, BlockLabels[m.id], f.labels)
                      /\ \A k \in ToSet(Query.keywords) : Agrees(k.op, BlockWords[m.id], k.words)
                      /\ Query.fields # {} => BlockField[m.id] \in Query.fields
                      /\ Query.resources # {} => BlockResource[m.id] \in Query.resources
    BY DEF FoundMatchFilters
  <2>1. FindOK(Query)
    BY QueryOK
  <2>2. ~ FiltersInvalid(Query) /\ m.id \in Selected(Query)
    BY DEF FoundInv
  <2> DEFINE q == Query
             b == m.id
  <2>3. FindOK(q) /\ ~ FiltersInvalid(q) /\ b \in Selected(q)
    BY <2>1, <2>2
  <2> HIDE DEF q, b
  <2>4. /\ \A f \in ToSet(q.filters) : Agrees(f.op, BlockLabels[b], f.labels)
        /\ \A k \in ToSet(q.keywords) : Agrees(k.op, BlockWords[b], k.words)
        /\ q.fields # {} => BlockField[b] \in q.fields
        /\ q.resources # {} => BlockResource[b] \in q.resources
    BY <2>3, SelectedAgrees
  <2> QED
    BY <2>4 DEF q, b
<1> QED
  BY <1>1, Course, Found, PTL

---------------------------------------------------------------------------
(***************************************************************************)
(* The graph strategy.                                                     *)
(***************************************************************************)

\* The relations are of paths of the graph.
RelationsOf(rels, ps) ==
  rels \in Seq(ToSet(rels)) /\ \A rel \in ToSet(rels) : rel.path \in ToSet(ps)

\* The types of the exploration.
GraphType ==
  /\ StrategyOK(strategy) /\ hop \in Nat
  /\ response \in Seq(ToSet(strategy.paths))
  /\ \A v \in DOMAIN relations : RelationsOf(relations[v], strategy.paths)
  /\ \A v \in DOMAIN scores : scores[v] \in Seq(Nat)

\* The names of entities, without their groups.
Names(nodes) == {n[1] : n \in nodes}

\* Before the last hop is over, names with relations or scores are of entities that
\* were explored, and the entities of a hop were not.
Frontier ==
  /\ explore \subseteq Ends(strategy.paths) /\ explored \subseteq Ends(strategy.paths)
  /\ step = "neighbours" => explore \cap explored = {}
  /\ step = "entities" /\ hop = 0 => explored = {}
  /\ step \in {"entities", "neighbours", "rank"} =>
       DOMAIN relations \subseteq Names(explored) /\ DOMAIN scores \subseteq Names(explored)

\* Names with scores have relations, one for each score.
ScoresPaired == \A v \in DOMAIN scores : v \in DOMAIN relations /\ Len(scores[v]) = Len(relations[v])

\* What is held of the exploration. Entities detected by predict are of any group and
\* two may have one name: then a hop may explore a name again.
GraphInv ==
  /\ GraphType
  /\ strategy.detection = "suggest" => Frontier
  /\ strategy.detection = "suggest" /\ ~ SameName => ScoresPaired

\* A sequence is one of its elements.
LEMMA OwnElements == ASSUME NEW T, NEW s \in Seq(T) PROVE s \in Seq(ToSet(s)) /\ ToSet(s) \subseteq T
BY DEF ToSet

\* The relations of an entity, from paths of the graph.
LEMMA MergedRelations ==
    ASSUME NEW ps, NEW paths \in Seq(ToSet(ps)), NEW v, NEW values
    PROVE  RelationsOf(MergedAt(paths, v, values), ps)
<1> DEFINE usable(p) == strategy.text \/ p.block # NoBlock
           listed(p) == p.src[1] = v \/ (p.dst[1] = v /\ p.src[1] \notin values)
           I == {i \in DOMAIN paths : usable(paths[i]) /\ listed(paths[i])}
           mine == Places(paths, I)
           P == ToSet(ps)
           w == MergedAt(paths, v, values)
<1>1. w = [k \in DOMAIN mine |->
             [path |-> paths[mine[k]], out |-> paths[mine[k]].src[1] = v,
              resource |-> ResourceAt(paths, mine[k])]]
  BY DEF MergedAt
<1> HIDE DEF I, P
<1>2. mine \in Seq(I \cap DOMAIN paths)
  BY PlacesAscend DEF P
<1> HIDE DEF mine, w
<1>3. DOMAIN mine = 1..Len(mine) /\ Len(mine) \in Nat /\ \A k \in 1..Len(mine) : mine[k] \in DOMAIN paths
  BY <1>2
<1>4. \A i \in DOMAIN paths : paths[i] \in P
  BY DEF P
<1>5. DOMAIN w = 1..Len(mine) /\ \A k \in 1..Len(mine) : w[k].path \in P
  BY <1>1, <1>3, <1>4
<1>6. w \in Seq(ToSet(w))
  <2>1. \A k \in 1..Len(mine) : w[k] \in ToSet(w)
    BY <1>5 DEF ToSet
  <2>2. w = [k \in 1..Len(mine) |-> w[k]]
    BY <1>1, <1>3
  <2>3. w \in [1..Len(mine) -> ToSet(w)]
    BY <2>1, <2>2
  <2> QED
    BY <1>3, <2>3
<1>7. \A rel \in ToSet(w) : rel.path \in P
  BY <1>5 DEF ToSet
<1> QED
  BY <1>6, <1>7 DEF RelationsOf, P, w

\* The relations of an entity that are ranked.
LEMMA RankedRelations ==
    ASSUME NEW ps, NEW rels, RelationsOf(rels, ps), NEW given, NEW kept
    PROVE  /\ RelationsOf(RankedAt(rels, given, kept), ps)
           /\ ToSet(RankedAt(rels, given, kept)) \subseteq ToSet(rels)
<1> DEFINE S == {rel \in ToSet(rels) : Triplet(rel) \in kept}
           B == {p \in ToSet(rels) \X ToSet(rels) : given[Triplet(p[1])] > given[Triplet(p[2])]}
           T == ToSet(rels)
           c == Chosen(rels, S)
           w == Sorted(c, B)
<1>1. RankedAt(rels, given, kept) = w
  BY DEF RankedAt
<1>2. rels \in Seq(T) /\ \A rel \in T : rel.path \in ToSet(ps)
  BY DEF RelationsOf
<1> HIDE DEF S, B, T
<1>3. c \in Seq(T)
  <2>1. c \in Seq(S \cap T)
    BY <1>2, ChosenSeq
  <2> HIDE DEF c
  <2> QED
    BY <2>1, SeqOfLarger
<1> HIDE DEF c
<1>4. w \in Seq(T)
  BY <1>3, SortedElements
<1> HIDE DEF w
<1>5. w \in Seq(ToSet(w)) /\ ToSet(w) \subseteq T
  BY <1>4, OwnElements
<1>6. RelationsOf(w, ps)
  BY <1>2, <1>5 DEF RelationsOf
<1> QED
  BY <1>1, <1>5, <1>6 DEF T

\* Neighbours are paths of the graph.
LEMMA NeighbourhoodPaths ==
    ASSUME StrategyOK(strategy)
    PROVE  Neighbourhood \in Seq(ToSet(strategy.paths))
<1> DEFINE ps == strategy.paths
           T == ToSet(ps)
           S == {p \in ToSet(strategy.paths) : Touches(p, explore) /\ ~ Touches(p, explored)}
<1>1. Neighbourhood = Chosen(ps, S)
  BY DEF Neighbourhood
<1>2. ps \in Seq(T)
  BY DEF StrategyOK
<1> HIDE DEF ps, T, S
<1>3. Chosen(ps, S) \in Seq(S \cap T)
  BY <1>2, ChosenSeq
<1>4. Chosen(ps, S) \in Seq(T)
  BY <1>3, SeqOfLarger
<1> QED
  BY <1>1, <1>4 DEF T, ps

\* What a hop adds to the relations.
LEMMA NewNames ==
    ASSUME NEW paths
    PROVE  DOMAIN NewRelations(paths) \subseteq Names(explore)
BY DEF NewRelations, Names, Empty

\* The relations of a graph with those of a hop.
LEMMA WithBoth ==
    ASSUME NEW new, NEW old, NEW ps, \A v \in DOMAIN new : RelationsOf(new[v], ps),
           \A v \in DOMAIN old : RelationsOf(old[v], ps)
    PROVE  /\ DOMAIN With(new, old) = DOMAIN new \cup DOMAIN old
           /\ \A v \in DOMAIN With(new, old) : RelationsOf(With(new, old)[v], ps)
           /\ \A v \in DOMAIN old : v \notin DOMAIN new => With(new, old)[v] = old[v]
<1> DEFINE w == With(new, old)
<1>1. DOMAIN w = DOMAIN new \cup DOMAIN old
  BY DEF With
<1>2. \A v \in DOMAIN w : w[v] = IF v \in DOMAIN new THEN new[v] ELSE old[v]
  BY DEF With
<1> HIDE DEF w
<1>3. ASSUME NEW v \in DOMAIN w PROVE RelationsOf(w[v], ps)
  <2>1. CASE v \in DOMAIN new
    BY <1>2, <2>1
  <2>2. CASE v \notin DOMAIN new
    BY <1>1, <1>2, <2>2
  <2> QED
    BY <2>1, <2>2
<1>4. \A v \in DOMAIN old : v \notin DOMAIN new => w[v] = old[v]
  BY <1>1, <1>2
<1> QED
  BY <1>1, <1>3, <1>4 DEF w

\* A name of an explored entity is not one of those to explore, without namesakes.
LEMMA NewEntities ==
    ASSUME Frontier, step = "neighbours", ~ SameName
    PROVE  Names(explore) \cap Names(explored) = {}
<1> SUFFICES ASSUME NEW m \in explore, NEW n \in explored, m[1] = n[1] PROVE FALSE
  BY DEF Names
<1>1. m \in Ends(strategy.paths) /\ n \in Ends(strategy.paths) /\ m # n
  BY DEF Frontier
<1> QED
  BY <1>1 DEF SameName

\* The end of a hop.
LEMMA HopEnds ==
    ASSUME GraphInv, step = "neighbours", NEW paths, NEW new, EndHop(paths, new),
           paths \in Seq(ToSet(strategy.paths)),
           \A v \in DOMAIN new : RelationsOf(new[v], strategy.paths),
           DOMAIN new \subseteq Names(explore)
    PROVE  GraphInv'
<1>1. /\ relations' = With(new, relations) /\ response' = paths
      /\ strategy' = strategy /\ hop' = hop /\ explore' = explore /\ scores' = scores
  BY DEF EndHop
<1>2. \/ step' = "build" /\ explored' = explored
      \/ step' = "rank" /\ explored' = explored \cup explore
  BY DEF EndHop
<1>3. GraphType
  BY DEF GraphInv
<1>4. /\ DOMAIN relations' = DOMAIN new \cup DOMAIN relations
      /\ \A v \in DOMAIN relations' : RelationsOf(relations'[v], strategy.paths)
      /\ \A v \in DOMAIN relations : v \notin DOMAIN new => relations'[v] = relations[v]
  BY <1>1, <1>3, WithBoth DEF GraphType
<1>5. GraphType'
  BY <1>1, <1>3, <1>4 DEF GraphType
<1>6. ASSUME strategy.detection = "suggest" PROVE Frontier'
  <2>1. Frontier
    BY <1>6 DEF GraphInv
  <2>2. Names(explored \cup explore) = Names(explored) \cup Names(explore)
    BY DEF Names
  <2>3. DOMAIN relations \subseteq Names(explored) /\ DOMAIN scores \subseteq Names(explored)
    BY <2>1 DEF Frontier
  <2>4. explore' \subseteq Ends(strategy'.paths) /\ explored' \subseteq Ends(strategy'.paths)
    BY <1>1, <1>2, <2>1 DEF Frontier
  <2>5. CASE step' = "build"
    BY <2>4, <2>5 DEF Frontier
  <2>6. CASE step' = "rank" /\ explored' = explored \cup explore
    <3>1. DOMAIN relations' \subseteq Names(explored') /\ DOMAIN scores' \subseteq Names(explored')
      BY <1>1, <1>4, <2>2, <2>3, <2>6
    <3> QED
      BY <2>4, <2>6, <3>1 DEF Frontier
  <2> QED
    BY <1>2, <2>5, <2>6
<1>7. ASSUME strategy.detection = "suggest", ~ SameName PROVE ScoresPaired'
  <2>1. Frontier /\ ScoresPaired
    BY <1>7 DEF GraphInv
  <2>2. Names(explore) \cap Names(explored) = {}
    BY <1>7, <2>1, NewEntities
  <2>3. DOMAIN scores \subseteq Names(explored)
    BY <2>1 DEF Frontier
  <2>4. ASSUME NEW v \in DOMAIN scores
        PROVE  v \in DOMAIN relations' /\ Len(scores[v]) = Len(relations'[v])
    <3>1. v \in DOMAIN relations /\ Len(scores[v]) = Len(relations[v])
      BY <2>1, <2>4 DEF ScoresPaired
    <3>2. v \notin DOMAIN new
      BY <2>2, <2>3, <2>4
    <3> QED
      BY <1>4, <3>1, <3>2
  <2> QED
    BY <1>1, <2>4 DEF ScoresPaired
<1>8. SameName' = SameName /\ strategy'.detection = strategy.detection
  BY <1>1 DEF SameName, Ends
<1> QED
  BY <1>5, <1>6, <1>7, <1>8 DEF GraphInv

\* find_graph_neighbours.
LEMMA NeighboursKeep == ASSUME GraphInv, FindNeighbours PROVE GraphInv'
<1> DEFINE paths == Neighbourhood
           new == NewRelations(paths)
<1>1. step = "neighbours" /\ EndHop(paths, new)
  BY DEF FindNeighbours
<1>2. paths \in Seq(ToSet(strategy.paths))
  BY NeighbourhoodPaths DEF GraphInv, GraphType
<1> HIDE DEF paths
<1>3. DOMAIN new \subseteq Names(explore)
  BY NewNames
<1>4. \A v \in DOMAIN new : RelationsOf(new[v], strategy.paths)
  <2> DEFINE values == {n[1] : n \in explore}
  <2>1. CASE MergeFails(paths)
    <3>1. DOMAIN new = {}
      BY <2>1 DEF NewRelations, Empty
    <3> QED
      BY <3>1
  <2>2. CASE ~ MergeFails(paths)
    <3>1. new = [v \in values |-> MergedAt(paths, v, values)]
      BY <2>2 DEF NewRelations
    <3> HIDE DEF values, new
    <3>2. ASSUME NEW v PROVE RelationsOf(MergedAt(paths, v, values), strategy.paths)
      BY <1>2, MergedRelations
    <3> QED
      BY <3>1, <3>2
  <2> QED
    BY <2>1, <2>2
<1> HIDE DEF new
<1> QED
  BY <1>1, <1>2, <1>3, <1>4, HopEnds

\* A graph search that fails.
LEMMA FailedNeighboursKeep == ASSUME GraphInv, FailNeighbours PROVE GraphInv'
<1>1. CASE hop = 0
  <2>1. /\ step' = "failed" /\ strategy' = strategy /\ hop' = hop /\ response' = response
        /\ explore' = explore /\ explored' = explored /\ relations' = relations /\ scores' = scores
    BY <1>1 DEF FailNeighbours
  <2>2. GraphType'
    BY <2>1 DEF GraphInv, GraphType
  <2>3. Frontier => Frontier'
    BY <2>1 DEF Frontier
  <2>4. ScoresPaired' = ScoresPaired
    BY <2>1 DEF ScoresPaired
  <2>5. SameName' = SameName
    BY <2>1 DEF SameName, Ends
  <2> QED
    BY <2>1, <2>2, <2>3, <2>4, <2>5 DEF GraphInv
<1>2. CASE hop # 0
  <2>1. step = "neighbours" /\ EndHop(response, Empty)
    BY <1>2 DEF FailNeighbours
  <2>2. DOMAIN Empty = {}
    BY DEF Empty
  <2>3. response \in Seq(ToSet(strategy.paths))
    BY DEF GraphInv, GraphType
  <2> QED
    BY <2>1, <2>2, <2>3, HopEnds
<1> QED
  BY <1>1, <1>2

\* find_entities.
LEMMA DetectKeeps == ASSUME GraphInv, DetectEntities PROVE GraphInv'
<1>1. /\ step = "entities" /\ hop = 0 /\ hop' = hop /\ strategy' = strategy /\ explored' = explored
      /\ response' = response /\ relations' = relations /\ scores' = scores
  BY DEF DetectEntities
<1>2. PICK nodes \in SUBSET Detectable : Explore(nodes)
  BY DEF DetectEntities
<1>3. explore' = nodes /\ step' \in {"build", "neighbours"}
  BY <1>2 DEF Explore
<1>4. GraphType'
  BY <1>1 DEF GraphInv, GraphType
<1>5. ASSUME strategy.detection = "suggest" PROVE Frontier'
  <2>1. Frontier
    BY <1>5 DEF GraphInv
  <2>2. Detectable = Ends(strategy.paths)
    BY <1>5 DEF Detectable
  <2>3. explored = {}
    BY <1>1, <2>1 DEF Frontier
  <2>4. explore' \subseteq Ends(strategy'.paths) /\ explored' \subseteq Ends(strategy'.paths)
    BY <1>1, <1>3, <2>1, <2>2 DEF Frontier
  <2>5. explore' \cap explored' = {}
    BY <1>1, <2>3
  <2>6. DOMAIN relations' \subseteq Names(explored') /\ DOMAIN scores' \subseteq Names(explored')
    BY <1>1, <2>1 DEF Frontier
  <2> QED
    BY <1>3, <2>4, <2>5, <2>6 DEF Frontier
<1>6. ScoresPaired' = ScoresPaired
  BY <1>1 DEF ScoresPaired
<1>7. SameName' = SameName
  BY <1>1 DEF SameName, Ends
<1> QED
  BY <1>1, <1>4, <1>5, <1>6, <1>7 DEF GraphInv

\* The ends of the paths of a graph's relations are in the graph.
LEMMA RelatedEnds ==
    ASSUME GraphType, NEW rel \in AllRelations(relations)
    PROVE  Related(rel) \in Ends(strategy.paths)
<1>1. PICK v \in DOMAIN relations : rel \in ToSet(relations[v])
  BY DEF AllRelations
<1>2. rel.path \in ToSet(strategy.paths)
  BY <1>1 DEF GraphType, RelationsOf
<1> QED
  BY <1>2 DEF Related, Ends

\* The entities of a later hop.
LEMMA FrontierKeeps == ASSUME GraphInv, NextFrontier PROVE GraphInv'
<1> DEFINE found == {Related(rel) : rel \in AllRelations(relations)}
<1>1. /\ step = "entities" /\ hop' = hop /\ strategy' = strategy /\ explored' = explored
      /\ response' = response /\ relations' = relations /\ scores' = scores
  BY DEF NextFrontier
<1>2. explore' = found \ explored /\ step' \in {"build", "neighbours"}
  BY DEF NextFrontier, Explore
<1>3. GraphType'
  BY <1>1 DEF GraphInv, GraphType
<1>4. found \subseteq Ends(strategy.paths)
  BY RelatedEnds DEF GraphInv
<1> HIDE DEF found
<1>5. Frontier => Frontier'
  BY <1>1, <1>2, <1>4 DEF Frontier
<1>6. ScoresPaired' = ScoresPaired
  BY <1>1 DEF ScoresPaired
<1>7. SameName' = SameName
  BY <1>1 DEF SameName, Ends
<1> QED
  BY <1>1, <1>3, <1>5, <1>6, <1>7 DEF GraphInv

\* The ranking of the relations of a hop gives each that it keeps its score.
LEMMA RankingKeeps == ASSUME GraphInv, RankRelations PROVE GraphInv'
<1> DEFINE triplets == {Triplet(rel) : rel \in AllRelations(relations)}
<1>1. /\ step = "rank" /\ hop' = hop + 1 /\ step' \in {"entities", "build"} /\ strategy' = strategy
      /\ explore' = explore /\ explored' = explored /\ response' = response
  BY DEF RankRelations
<1>2a. PICK given \in [triplets -> Scores] : \E top \in Best(given, RankedK) :
        LET kept == {t \in top : given[t] > 0}
            values == {v \in DOMAIN relations :
                         \E rel \in ToSet(relations[v]) : Triplet(rel) \in kept}
            ranked == [v \in values |-> RankedAt(relations[v], given, kept)]
        IN /\ relations' = ranked
           /\ scores' = [v \in values |-> [i \in DOMAIN ranked[v] |-> given[Triplet(ranked[v][i])]]]
  BY DEF RankRelations
<1>2. PICK top \in Best(given, RankedK) :
        LET kept == {t \in top : given[t] > 0}
            values == {v \in DOMAIN relations :
                         \E rel \in ToSet(relations[v]) : Triplet(rel) \in kept}
            ranked == [v \in values |-> RankedAt(relations[v], given, kept)]
        IN /\ relations' = ranked
           /\ scores' = [v \in values |-> [i \in DOMAIN ranked[v] |-> given[Triplet(ranked[v][i])]]]
  BY <1>2a
<1> DEFINE kept == {t \in top : given[t] > 0}
           values == {v \in DOMAIN relations :
                        \E rel \in ToSet(relations[v]) : Triplet(rel) \in kept}
           ranked == [v \in values |-> RankedAt(relations[v], given, kept)]
<1>3. /\ relations' = ranked
      /\ scores' = [v \in values |-> [i \in DOMAIN ranked[v] |-> given[Triplet(ranked[v][i])]]]
  BY <1>2
<1>4. values \subseteq DOMAIN relations
  OBVIOUS
<1>5. \A t \in triplets : given[t] \in Nat
  BY RequestsAssumption
<1>6. \A v \in values : \A rel \in ToSet(relations[v]) : Triplet(rel) \in triplets
  BY <1>4 DEF AllRelations
<1> HIDE DEF kept, triplets, values
<1>7. DOMAIN ranked = values /\ \A v \in values : ranked[v] = RankedAt(relations[v], given, kept)
  OBVIOUS
<1> HIDE DEF ranked
<1>8. GraphType
  BY DEF GraphInv
<1>9. \A v \in values : /\ RelationsOf(ranked[v], strategy.paths)
                        /\ ToSet(ranked[v]) \subseteq ToSet(relations[v])
  <2>1. \A v \in values : RelationsOf(relations[v], strategy.paths)
    BY <1>4, <1>8 DEF GraphType
  <2> QED
    BY <1>7, <2>1, RankedRelations
<1>10. ASSUME NEW v \in values
       PROVE  scores'[v] \in Seq(Nat) /\ Len(scores'[v]) = Len(ranked[v])
  <2> DEFINE r == ranked[v]
             given_(i) == given[Triplet(r[i])]
             c == [i \in DOMAIN r |-> given_(i)]
  <2>1. r \in Seq(ToSet(r)) /\ ToSet(r) \subseteq ToSet(relations[v])
    BY <1>9, <1>10 DEF RelationsOf
  <2>2. scores'[v] = c
    BY <1>3, <1>10
  <2> HIDE DEF r
  <2>3. DOMAIN r = 1..Len(r) /\ Len(r) \in Nat /\ \A i \in DOMAIN r : r[i] \in ToSet(r)
    BY <2>1 DEF ToSet
  <2>4. \A i \in DOMAIN r : given_(i) \in Nat
    <3>1. \A i \in DOMAIN r : Triplet(r[i]) \in triplets
      BY <1>6, <1>10, <2>1, <2>3
    <3> QED
      BY <1>5, <3>1
  <2> HIDE DEF given_
  <2>5. c \in [1..Len(r) -> Nat] /\ DOMAIN c = 1..Len(r)
    BY <2>3, <2>4
  <2> HIDE DEF c
  <2>6. c \in Seq(Nat) /\ Len(c) = Len(r)
    BY <2>3, <2>5
  <2> QED
    BY <2>2, <2>6 DEF r
<1>11. DOMAIN relations' = values /\ DOMAIN scores' = values
  BY <1>3, <1>7
<1>12. GraphType'
  <2>1. \A v \in DOMAIN relations' : RelationsOf(relations'[v], strategy.paths)
    BY <1>3, <1>9, <1>11
  <2>2. \A v \in DOMAIN scores' : scores'[v] \in Seq(Nat)
    BY <1>10, <1>11
  <2>3. hop' \in Nat
    BY <1>1, <1>8 DEF GraphType
  <2> QED
    BY <1>1, <1>8, <2>1, <2>2, <2>3 DEF GraphType
<1>13. Frontier => Frontier'
  <2> SUFFICES ASSUME Frontier PROVE Frontier'
    OBVIOUS
  <2>1. DOMAIN relations \subseteq Names(explored)
    BY <1>1 DEF Frontier
  <2>2. DOMAIN relations' \subseteq Names(explored') /\ DOMAIN scores' \subseteq Names(explored')
    BY <1>1, <1>4, <1>11, <2>1
  <2>3. hop' # 0
    BY <1>1, <1>8 DEF GraphType
  <2> QED
    BY <1>1, <2>2, <2>3 DEF Frontier
<1>14. ScoresPaired'
  BY <1>3, <1>10, <1>11 DEF ScoresPaired
<1>15. SameName' = SameName
  BY <1>1 DEF SameName, Ends
<1> QED
  BY <1>1, <1>12, <1>13, <1>14, <1>15 DEF GraphInv

\* A ranking that fails, and the end of the strategy.
LEMMA EndingsKeep == ASSUME GraphInv, FailRanking \/ BuildBlocks PROVE GraphInv'
<1>1. /\ hop' = hop /\ strategy' = strategy /\ step' \in {"build", "built"}
      /\ explore' = explore /\ explored' = explored /\ response' = response
  BY DEF FailRanking, BuildBlocks
<1>2. \/ relations' = relations /\ scores' = scores
      \/ DOMAIN relations' = {} /\ DOMAIN scores' = {}
  BY DEF FailRanking, BuildBlocks, Empty
<1>3. GraphType'
  BY <1>1, <1>2 DEF GraphInv, GraphType
<1>4. Frontier => Frontier'
  BY <1>1 DEF Frontier
<1>5. ScoresPaired => ScoresPaired'
  BY <1>2 DEF ScoresPaired
<1>6. SameName' = SameName
  BY <1>1 DEF SameName, Ends
<1> QED
  BY <1>1, <1>3, <1>4, <1>5, <1>6 DEF GraphInv

\* A strategy that begins has explored nothing.
LEMMA GraphInvInit == Init => GraphInv
<1> SUFFICES ASSUME Init PROVE GraphInv
  OBVIOUS
<1>1. request \in Requests /\ strategy = request.strategy /\ GraphInit
  BY DEF Init
<1>2. StrategyOK(strategy)
  BY <1>1, RequestParts
<1>3. /\ step = "entities" /\ hop = 0 /\ explore = {} /\ explored = {} /\ response = <<>>
      /\ DOMAIN relations = {} /\ DOMAIN scores = {}
  BY <1>1 DEF GraphInit, Empty
<1> QED
  BY <1>2, <1>3 DEF GraphInv, GraphType, Frontier, ScoresPaired

\* Every step of an ask keeps what is known of the exploration of the graph.
LEMMA GraphInvStep == GraphInv /\ [Next]_vars => GraphInv'
<1> SUFFICES ASSUME GraphInv, [Next]_vars PROVE GraphInv'
  OBVIOUS
<1>1. ASSUME graphVars' = graphVars PROVE GraphInv'
  <2>1. /\ strategy' = strategy /\ step' = step /\ hop' = hop /\ explore' = explore
        /\ explored' = explored /\ response' = response /\ relations' = relations
        /\ scores' = scores
    BY <1>1 DEF graphVars
  <2>2. GraphType' = GraphType
    BY <2>1 DEF GraphType
  <2>3. Frontier' = Frontier
    BY <2>1 DEF Frontier
  <2>4. ScoresPaired' = ScoresPaired
    BY <2>1 DEF ScoresPaired
  <2>5. SameName' = SameName
    BY <2>1 DEF SameName, Ends
  <2> QED
    BY <2>1, <2>2, <2>3, <2>4, <2>5 DEF GraphInv
<1>2. CASE Hop
  BY <1>2, DetectKeeps, FrontierKeeps, NeighboursKeep, FailedNeighboursKeep, RankingKeeps,
     EndingsKeep DEF Hop, GraphNext
<1>3. CASE UNCHANGED vars
  BY <1>1, <1>3 DEF vars
<1>4. CASE \E x \in {BlockResource[b] : b \in Blocks} : DeleteResource(x)
  BY <1>1, <1>4 DEF DeleteResource
<1>5. CASE ParseFind \/ FailFind \/ Retrieve \/ HydrateAndRerank \/ FailGraph \/ RerankGraph
  BY <1>1, <1>5 DEF ParseFind, FailFind, Fail, Retrieve, HydrateAndRerank, FailGraph, RerankGraph
<1> QED
  BY <1>2, <1>3, <1>4, <1>5 DEF Next

\* The exploration of the graph: what get_graph_results holds of it, hop by hop.
THEOREM GraphKept == Spec => []GraphInv
<1> QED
  BY GraphInvInit, GraphInvStep, PTL DEF Spec, vars

\* A relation that has a score keeps it through the hops that follow, as long as
\* entities come from the graph and no name is in two groups: what a hop of
\* get_graph_results puts in relations.entities is of names it has not explored.
THEOREM RelationsKeepScores == Spec => []ScoresFitRelations
<1>1. GraphInv => ScoresFitRelations
  BY DEF GraphInv, ScoresPaired, ScoresFitRelations
<1> QED
  BY <1>1, GraphKept, PTL

---------------------------------------------------------------------------
(***************************************************************************)
(* The sums of scores.                                                     *)
(***************************************************************************)

\* Items of the ids in D, with scores.
Rated(D) == [id : D, score : Nat]

\* What each item adds to the score of an id.
Shares(items, id) == [i \in DOMAIN items |-> IF items[i].id = id THEN items[i].score ELSE 0]

\* The score of an id is the sum of what each item adds to it.
LEMMA SharesSeq ==
    ASSUME NEW T, NEW items \in Seq(T), \A x \in T : x.score \in Nat, NEW id
    PROVE  /\ Shares(items, id) \in Seq(Nat) /\ Len(Shares(items, id)) = Len(items)
           /\ \A i \in 1..Len(items) :
                Shares(items, id)[i] = IF items[i].id = id THEN items[i].score ELSE 0
           /\ ScoreIn(items, id) = Total(Shares(items, id))
<1> DEFINE w == Shares(items, id)
<1>1. DOMAIN items = 1..Len(items) /\ Len(items) \in Nat /\ \A i \in DOMAIN items : items[i] \in T
  OBVIOUS
<1>2. \A i \in DOMAIN items : (IF items[i].id = id THEN items[i].score ELSE 0) \in Nat
  BY <1>1
<1>3. w = [i \in 1..Len(items) |-> IF items[i].id = id THEN items[i].score ELSE 0]
  BY <1>1 DEF Shares
<1>4. ScoreIn(items, id) = Total(w)
  BY DEF ScoreIn, Shares
<1> HIDE DEF w
<1>5. w \in [1..Len(items) -> Nat]
  BY <1>1, <1>2, <1>3
<1>6. w \in Seq(Nat) /\ Len(w) = Len(items)
  BY <1>1, <1>5
<1> QED
  BY <1>3, <1>4, <1>6 DEF w

\* The score of an id in one sequence after another.
LEMMA ScoreConcat ==
    ASSUME NEW T, NEW a \in Seq(T), NEW b \in Seq(T), \A x \in T : x.score \in Nat, NEW id
    PROVE  ScoreIn(a \o b, id) = ScoreIn(a, id) + ScoreIn(b, id)
<1> DEFINE c == a \o b
           p == Shares(a, id)
           q == Shares(b, id)
           r == Shares(c, id)
           n == Len(a)
<1>1. /\ c \in Seq(T) /\ Len(c) = n + Len(b) /\ n \in Nat /\ Len(b) \in Nat
      /\ (\A i \in 1..n : c[i] = a[i]) /\ \A i \in 1..Len(b) : c[n + i] = b[i]
  OBVIOUS
<1> HIDE DEF c
<1>2. /\ p \in Seq(Nat) /\ Len(p) = n /\ ScoreIn(a, id) = Total(p)
      /\ \A i \in 1..n : p[i] = IF a[i].id = id THEN a[i].score ELSE 0
  BY SharesSeq
<1>3. /\ q \in Seq(Nat) /\ Len(q) = Len(b) /\ ScoreIn(b, id) = Total(q)
      /\ \A i \in 1..Len(b) : q[i] = IF b[i].id = id THEN b[i].score ELSE 0
  BY SharesSeq
<1>4. /\ r \in Seq(Nat) /\ Len(r) = Len(c) /\ ScoreIn(c, id) = Total(r)
      /\ \A i \in 1..Len(c) : r[i] = IF c[i].id = id THEN c[i].score ELSE 0
  BY <1>1, SharesSeq
<1> HIDE DEF p, q, r, n
<1>5. r = p \o q
  <2> DEFINE w == p \o q
  <2>1. /\ w \in Seq(Nat) /\ Len(w) = n + Len(b)
        /\ (\A i \in 1..n : w[i] = p[i]) /\ \A i \in 1..Len(b) : w[n + i] = q[i]
    <3>1. p \in Seq(Nat) /\ q \in Seq(Nat) /\ Len(p) = n /\ Len(q) = Len(b)
      BY <1>2, <1>3
    <3>2. /\ w \in Seq(Nat) /\ Len(w) = Len(p) + Len(q)
          /\ (\A i \in 1..Len(p) : w[i] = p[i]) /\ \A i \in 1..Len(q) : w[Len(p) + i] = q[i]
      <4>1. ASSUME NEW u \in Seq(Nat), NEW v \in Seq(Nat)
            PROVE  /\ u \o v \in Seq(Nat) /\ Len(u \o v) = Len(u) + Len(v)
                   /\ \A i \in 1..Len(u) : (u \o v)[i] = u[i]
                   /\ \A i \in 1..Len(v) : (u \o v)[Len(u) + i] = v[i]
        OBVIOUS
      <4> QED
        BY <3>1, <4>1
    <3> HIDE DEF w
    <3> QED
      BY <3>1, <3>2
  <2> HIDE DEF w
  <2>2. ASSUME NEW i \in 1..(n + Len(b)) PROVE r[i] = w[i]
    <3>1. CASE i \in 1..n
      <4>1. r[i] = p[i]
        BY <1>1, <1>2, <1>4, <3>1
      <4> QED
        BY <2>1, <3>1, <4>1
    <3>2. CASE i \notin 1..n
      <4>1. i - n \in 1..Len(b) /\ n + (i - n) = i
        BY <1>1, <3>2
      <4> DEFINE k == i - n
      <4>2. k \in 1..Len(b) /\ i = n + k
        BY <4>1
      <4> HIDE DEF k
      <4>3. r[n + k] = q[k]
        BY <1>1, <1>3, <1>4, <4>2
      <4> QED
        BY <2>1, <4>2, <4>3
    <3> QED
      BY <3>1, <3>2
  <2>3. r = w
    <3>1. DOMAIN r = 1..(n + Len(b)) /\ DOMAIN w = 1..(n + Len(b))
      BY <1>1, <1>4, <2>1
    <3>2. r = [i \in 1..(n + Len(b)) |-> r[i]] /\ w = [i \in 1..(n + Len(b)) |-> w[i]]
      BY <1>4, <2>1, <3>1
    <3> QED
      BY <2>2, <3>2
  <2> QED
    BY <2>3 DEF w
<1>6. Total(p \o q) = Total(p) + Total(q)
  BY <1>2, <1>3, TotalConcat
<1> QED
  BY <1>2, <1>3, <1>4, <1>5, <1>6 DEF c

\* The scores of an id in each of several sequences.
ScoresOf(s, id) == [i \in DOMAIN s |-> ScoreIn(s[i], id)]

\* The score of an id in joined sequences is the sum of its scores in each.
LEMMA ScoreJoined ==
    ASSUME NEW T, NEW s \in Seq(Seq(T)), \A x \in T : x.score \in Nat, NEW id
    PROVE  ScoreIn(Joined(s), id) = Total(ScoresOf(s, id))
<1> DEFINE p(n) == SubSeq(s, 1, n)
           I == {n \in Nat : n <= Len(s) => ScoreIn(Joined(p(n)), id) = Total(ScoresOf(p(n), id))}
<1>0. \A t \in Seq(T) : ScoreIn(t, id) \in Nat
  <2>1. ASSUME NEW t \in Seq(T) PROVE ScoreIn(t, id) \in Nat
    <3> DEFINE w == Shares(t, id)
    <3>1. w \in Seq(Nat) /\ ScoreIn(t, id) = Total(w)
      BY SharesSeq
    <3> HIDE DEF w
    <3> QED
      BY <3>1, TotalNat
  <2> QED
    BY <2>1
<1>1. 0 \in I
  <2>1. p(0) = <<>>
    OBVIOUS
  <2>2. ScoresOf(<<>>, id) = <<>>
    BY DEF ScoresOf
  <2>3. ScoreIn(<<>>, id) = 0
    <3>1. ScoreIn(<<>>, id) = Total(<<>>)
      BY DEF ScoreIn
    <3> QED
      BY <3>1, TotalEmpty
  <2> QED
    BY <2>1, <2>2, <2>3, JoinedEmpty, TotalEmpty
<1>2. ASSUME NEW n \in Nat, n \in I PROVE n + 1 \in I
  <2> SUFFICES ASSUME n + 1 <= Len(s)
               PROVE  ScoreIn(Joined(p(n + 1)), id) = Total(ScoresOf(p(n + 1), id))
    OBVIOUS
  <2> DEFINE A == Seq(T)
             q == p(n)
             x == s[n + 1]
  <2>1. s \in Seq(A) /\ n < Len(s)
    OBVIOUS
  <2>2. ScoreIn(Joined(q), id) = Total(ScoresOf(q, id))
    BY <1>2
  <2> HIDE DEF A
  <2>3. p(n + 1) = Append(q, x) /\ q \in Seq(A) /\ x \in A
    BY <2>1, OneMore
  <2> HIDE DEF q, x
  <2>4. ScoresOf(q, id) \in Seq(Nat)
    <3>1. DOMAIN q = 1..Len(q) /\ Len(q) \in Nat /\ \A i \in DOMAIN q : q[i] \in A
      BY <2>3
    <3>2. \A i \in DOMAIN q : ScoreIn(q[i], id) \in Nat
      BY <1>0, <3>1 DEF A
    <3>3. ScoresOf(q, id) \in [1..Len(q) -> Nat]
      BY <3>1, <3>2 DEF ScoresOf
    <3> QED
      BY <3>1, <3>3
  <2>5. ScoresOf(Append(q, x), id) = Append(ScoresOf(q, id), ScoreIn(x, id))
    <3> DEFINE t == Append(q, x)
               u == ScoresOf(q, id)
               c == ScoreIn(x, id)
               v == Append(u, c)
    <3>1. /\ DOMAIN t = 1..(Len(q) + 1) /\ t[Len(q) + 1] = x /\ Len(q) \in Nat
          /\ \A i \in 1..Len(q) : t[i] = q[i]
      BY <2>3
    <3>2. DOMAIN u = 1..Len(q) /\ Len(u) = Len(q) /\ \A i \in 1..Len(q) : u[i] = ScoreIn(q[i], id)
      BY <2>3, <2>4 DEF ScoresOf
    <3> HIDE DEF t, u
    <3>3. u \in Seq(Nat)
      BY <2>4 DEF u
    <3>4. c \in Nat
      BY <1>0, <2>3 DEF A
    <3> HIDE DEF c
    <3>5. /\ v \in Seq(Nat) /\ DOMAIN v = 1..(Len(q) + 1) /\ v[Len(q) + 1] = c
          /\ \A i \in 1..Len(q) : v[i] = u[i]
      BY <3>2, <3>3, <3>4
    <3> HIDE DEF v
    <3>6. \A i \in 1..(Len(q) + 1) : ScoreIn(t[i], id) = v[i]
      <4>1. ASSUME NEW i \in 1..(Len(q) + 1) PROVE ScoreIn(t[i], id) = v[i]
        <5>1. CASE i = Len(q) + 1
          BY <3>1, <3>5, <5>1 DEF c
        <5>2. CASE i # Len(q) + 1
          <6>1. i \in 1..Len(q)
            BY <3>1, <5>2
          <6> QED
            BY <3>1, <3>2, <3>5, <6>1
        <5> QED
          BY <5>1, <5>2
      <4> QED
        BY <4>1
    <3>7. ScoresOf(t, id) = [i \in 1..(Len(q) + 1) |-> v[i]]
      BY <3>1, <3>6 DEF ScoresOf
    <3>8. v = [i \in 1..(Len(q) + 1) |-> v[i]]
      BY <3>5
    <3> QED
      BY <3>7, <3>8 DEF t, u, c, v
  <2>6. Joined(Append(q, x)) = Joined(q) \o x
    BY <2>3, JoinedAppend
  <2>7. Joined(q) \in Seq(T) /\ x \in Seq(T)
    BY <2>3, JoinedSeq DEF A
  <2>8. ScoreIn(Joined(q) \o x, id) = ScoreIn(Joined(q), id) + ScoreIn(x, id)
    BY <2>7, ScoreConcat
  <2>9. Total(Append(ScoresOf(q, id), ScoreIn(x, id))) = Total(ScoresOf(q, id)) + ScoreIn(x, id)
    <3>1. ScoreIn(x, id) \in Nat
      BY <1>0, <2>7
    <3> QED
      BY <2>4, <3>1, TotalAppend
  <2> QED
    BY <2>2, <2>3, <2>5, <2>6, <2>8, <2>9
<1>3. Nat \subseteq I
  <2> HIDE DEF I
  <2> QED
    BY <1>1, <1>2, Induction
<1>4. Len(s) \in Nat /\ p(Len(s)) = s
  OBVIOUS
<1>5. ScoreIn(Joined(p(Len(s))), id) = Total(ScoresOf(p(Len(s)), id))
  BY <1>3, <1>4
<1> HIDE DEF p
<1> QED
  BY <1>4, <1>5

---------------------------------------------------------------------------
(***************************************************************************)
(* The merge of weighted scores.                                           *)
(***************************************************************************)

\* The ids of items.
Ids(items) == {x.id : x \in ToSet(items)}

\* Items of which each id has one.
OncePerId(items) == \A i, j \in DOMAIN items : items[i].id = items[j].id => i = j

\* The items of a source times its weight.
LEMMA WeightedItems ==
    ASSUME NEW D, NEW T, NEW s, s.items \in Seq(T), s.weight \in Nat,
           \A x \in T : x.id \in D /\ x.score \in Nat
    PROVE  /\ Weighted(s) \in Seq(Rated(D)) /\ Ids(Weighted(s)) = Ids(s.items)
           /\ \A id : ScoreIn(Weighted(s), id) = ScoreIn(s.items, id) * s.weight
<1> DEFINE a == s.items
           w == Weighted(s)
           c == s.weight
<1>1. DOMAIN a = 1..Len(a) /\ Len(a) \in Nat /\ \A i \in DOMAIN a : a[i] \in T
  OBVIOUS
<1>2. w = [i \in DOMAIN a |-> Item(a[i].id, a[i].score * c)]
  BY DEF Weighted
<1>3. c \in Nat /\ \A i \in DOMAIN a : a[i].id \in D /\ a[i].score \in Nat
  BY <1>1
<1>4. \A m, n \in Nat : m * n \in Nat
  OBVIOUS
<1> HIDE DEF w, c
<1>5. /\ DOMAIN w = DOMAIN a
      /\ \A i \in DOMAIN a : /\ w[i] \in Rated(D) /\ w[i].id = a[i].id
                             /\ w[i].score = a[i].score * c
  BY <1>2, <1>3, <1>4 DEF Item, Rated
<1>6. w \in Seq(Rated(D)) /\ Len(w) = Len(a)
  <2>1. w = [i \in 1..Len(a) |-> w[i]]
    BY <1>1, <1>2
  <2>2. w \in [1..Len(a) -> Rated(D)]
    BY <1>1, <1>5, <2>1
  <2> QED
    BY <1>1, <2>2
<1>7. Ids(w) = Ids(a)
  <2>1. ToSet(w) = {w[i] : i \in DOMAIN a} /\ ToSet(a) = {a[i] : i \in DOMAIN a}
    BY <1>5 DEF ToSet
  <2> QED
    BY <1>5, <2>1 DEF Ids
<1>8. ASSUME NEW id PROVE ScoreIn(w, id) = ScoreIn(a, id) * c
  <2> DEFINE p == Shares(a, id)
             q == Shares(w, id)
  <2>1. /\ p \in Seq(Nat) /\ Len(p) = Len(a) /\ ScoreIn(a, id) = Total(p)
        /\ \A i \in 1..Len(a) : p[i] = IF a[i].id = id THEN a[i].score ELSE 0
    BY SharesSeq
  <2>2. \A x \in Rated(D) : x.score \in Nat
    BY DEF Rated
  <2>3. /\ q \in Seq(Nat) /\ Len(q) = Len(w) /\ ScoreIn(w, id) = Total(q)
        /\ \A i \in 1..Len(w) : q[i] = IF w[i].id = id THEN w[i].score ELSE 0
    BY <1>6, <2>2, SharesSeq
  <2> HIDE DEF p, q
  <2>4. ASSUME NEW i \in 1..Len(p) PROVE q[i] = p[i] * c
    <3>1. i \in DOMAIN a /\ i \in 1..Len(w) /\ i \in 1..Len(a)
      BY <1>1, <1>6, <2>1
    <3>2. CASE a[i].id = id
      BY <1>5, <2>1, <2>3, <3>1, <3>2
    <3>3. CASE a[i].id # id
      <4>1. p[i] = 0 /\ q[i] = 0
        BY <1>5, <2>1, <2>3, <3>1, <3>3
      <4>2. 0 * c = 0
        BY <1>3
      <4> QED
        BY <4>1, <4>2
    <3> QED
      BY <3>2, <3>3
  <2>5. Len(q) = Len(p)
    BY <1>6, <2>1, <2>3
  <2>6. Total(q) = Total(p) * c
    BY <1>3, <2>1, <2>3, <2>4, <2>5, TotalScaled
  <2> QED
    BY <2>1, <2>3, <2>6
<1> QED
  BY <1>6, <1>7, <1>8 DEF a, w, c

\* One item more among the merged.
LEMMA AccumulateOne ==
    ASSUME NEW D, NEW m \in Seq(Rated(D)), NEW x \in Rated(D)
    PROVE  Accumulate(m, x) \in Seq(Rated(D))
<1> DEFINE R == Rated(D)
           w == Accumulate(m, x)
<1>1. DOMAIN m = 1..Len(m) /\ Len(m) \in Nat /\ \A i \in DOMAIN m : m[i] \in R
  OBVIOUS
<1>2. CASE \E i \in DOMAIN m : m[i].id = x.id
  <2>1. w = [i \in DOMAIN m |->
               IF m[i].id = x.id THEN Item(x.id, m[i].score + x.score) ELSE m[i]]
    BY <1>2 DEF Accumulate
  <2>2. \A i \in DOMAIN m :
          (IF m[i].id = x.id THEN Item(x.id, m[i].score + x.score) ELSE m[i]) \in R
    BY <1>1 DEF Item, Rated
  <2> HIDE DEF w, R
  <2>3. w \in [1..Len(m) -> R]
    BY <1>1, <2>1, <2>2
  <2> QED
    BY <1>1, <2>3 DEF w, R
<1>3. CASE ~ \E i \in DOMAIN m : m[i].id = x.id
  <2>1. w = Append(m, x)
    BY <1>3 DEF Accumulate
  <2> QED
    BY <2>1
<1> QED
  BY <1>2, <1>3

\* f is the recursive function of a merge of all.
Merges(all, f) ==
  f = [n \in 0..Len(all) |-> IF n = 0 THEN <<>> ELSE Accumulate(f[n - 1], all[n])]

\* The steps f of a merge.
MergesIn(D, all, f) ==
  /\ f[0] = <<>>
  /\ \A n \in 1..Len(all) : f[n] = Accumulate(f[n - 1], all[n])
  /\ \A n \in 0..Len(all) : f[n] \in Seq(Rated(D))

\* The function of Merged, for all the items one after the other.
Merge(all) == CHOOSE f : Merges(all, f)

\* A merge goes item by item.
LEMMA MergeSteps ==
    ASSUME NEW D, NEW all \in Seq(Rated(D))
    PROVE  MergesIn(D, all, Merge(all))
<1> DEFINE R == Rated(D)
           A == Seq(R)
           G == [p \in A \X R |-> Accumulate(p[1], p[2])]
           g == Merge(all)
<1>1. \A a \in A, b \in R : Accumulate(a, b) \in A
  BY AccumulateOne
<1>2. \A a \in A, b \in R : G[<<a, b>>] = Accumulate(a, b)
  OBVIOUS
<1>3. <<>> \in A /\ all \in Seq(R) /\ (\A m \in 1..Len(all) : all[m] \in R) /\ Len(all) \in Nat
  OBVIOUS
<1> HIDE DEF A, G, R
<1>3a. \A a \in A, b \in R : G[<<a, b>>] \in A
  BY <1>1, <1>2
<1>4. PICK f : FoldsIn(A, G, <<>>, all, f)
  BY <1>3, <1>3a, FoldInto
<1>5. Merges(all, f)
  <2>1. ASSUME NEW m \in 0..Len(all)
        PROVE  (IF m = 0 THEN <<>> ELSE G[<<f[m - 1], all[m]>>])
                 = (IF m = 0 THEN <<>> ELSE Accumulate(f[m - 1], all[m]))
    <3>1. CASE m # 0
      <4>1. m - 1 \in 0..Len(all) /\ all[m] \in R
        BY <1>3, <3>1
      <4>2. f[m - 1] \in A
        BY <1>4, <4>1 DEF FoldsIn
      <4> QED
        BY <1>2, <4>1, <4>2
    <3> QED
      BY <3>1
  <2> QED
    BY <1>4, <2>1 DEF FoldsIn, FoldsOver, Merges
<1>6. Merges(all, g)
  BY <1>5 DEF Merge
<1> HIDE DEF g
<1>7. g[0] = <<>> /\ \A m \in 1..Len(all) : g[m] = Accumulate(g[m - 1], all[m])
  BY <1>3, <1>6 DEF Merges
<1>8. \A m \in 1..Len(all) : g[m - 1] \in A => g[m] \in A
  BY <1>1, <1>3, <1>7
<1>9. \A m \in 0..Len(all) : g[m] \in A
  BY <1>3, <1>7, <1>8, StepsKeep
<1> QED
  BY <1>7, <1>9 DEF MergesIn, A, R, g

\* What the first n items add to the score of an id.
Parts(all, id) == CHOOSE f : SumsOf(Shares(all, id), f)

\* What an id has got grows by the score of each item of that id.
LEMMA PartSteps ==
    ASSUME NEW D, NEW all \in Seq(Rated(D)), NEW id
    PROVE  /\ Parts(all, id)[0] = 0
           /\ \A n \in 1..Len(all) :
                Parts(all, id)[n] = Parts(all, id)[n - 1] + (IF all[n].id = id THEN all[n].score ELSE 0)
           /\ \A n \in 0..Len(all) : Parts(all, id)[n] \in Nat
           /\ ScoreIn(all, id) = Parts(all, id)[Len(all)]
<1> DEFINE p == Shares(all, id)
           f == Parts(all, id)
<1>1. \A x \in Rated(D) : x.score \in Nat
  BY DEF Rated
<1>2. /\ p \in Seq(Nat) /\ Len(p) = Len(all) /\ ScoreIn(all, id) = Total(p)
      /\ \A i \in 1..Len(all) : p[i] = IF all[i].id = id THEN all[i].score ELSE 0
  BY <1>1, SharesSeq
<1> HIDE DEF p
<1>3. \E g : SumsOf(p, g)
  BY <1>2, TotalSteps
<1>4. SumsOf(p, f)
  BY <1>3 DEF Parts, p
<1> HIDE DEF f
<1> QED
  BY <1>2, <1>4 DEF SumsOf, f

\* The ids of the first n items.
FirstIds(all, n) == {all[i].id : i \in 1..n}

\* An id none of them has gets nothing.
LEMMA PartOfNone ==
    ASSUME NEW D, NEW all \in Seq(Rated(D)), NEW id
    PROVE  \A n \in 0..Len(all) : id \notin FirstIds(all, n) => Parts(all, id)[n] = 0
<1> DEFINE f == Parts(all, id)
           I == {n \in Nat : n <= Len(all) => (id \notin FirstIds(all, n) => f[n] = 0)}
<1>1. f[0] = 0 /\ \A n \in 1..Len(all) : f[n] = f[n - 1] + (IF all[n].id = id THEN all[n].score ELSE 0)
  BY PartSteps
<1> HIDE DEF f
<1>2. 0 \in I
  BY <1>1
<1>3. ASSUME NEW n \in Nat, n \in I PROVE n + 1 \in I
  <2> SUFFICES ASSUME n + 1 <= Len(all), id \notin FirstIds(all, n + 1) PROVE f[n + 1] = 0
    OBVIOUS
  <2>1. n + 1 \in 1..Len(all) /\ (n + 1) - 1 = n
    OBVIOUS
  <2>2. 1..n \subseteq 1..(n + 1) /\ n + 1 \in 1..(n + 1)
    OBVIOUS
  <2>3. id \notin FirstIds(all, n) /\ all[n + 1].id # id
    BY <2>2 DEF FirstIds
  <2>4. f[n] = 0
    BY <1>3, <2>1, <2>3
  <2>5. f[n + 1] = f[n] + 0
    BY <1>1, <2>1, <2>3
  <2> QED
    BY <2>4, <2>5
<1>4. Nat \subseteq I
  <2> HIDE DEF I
  <2> QED
    BY <1>2, <1>3, Induction
<1> QED
  BY <1>4 DEF f

\* After n items the merged have each of their ids once, with what they add to its
\* score.
MergedUpTo(all, m, n) ==
  /\ OncePerId(m) /\ Ids(m) = FirstIds(all, n)
  /\ \A i \in DOMAIN m : m[i].score = Parts(all, m[i].id)[n]

\* So it is step by step.
LEMMA AccumulateKeeps ==
    ASSUME NEW D, NEW all \in Seq(Rated(D)), NEW n \in 1..Len(all), NEW m \in Seq(Rated(D)),
           MergedUpTo(all, m, n - 1)
    PROVE  MergedUpTo(all, Accumulate(m, all[n]), n)
<1> DEFINE x == all[n]
           w == Accumulate(m, x)
<1>1. /\ x \in Rated(D) /\ n - 1 \in 0..Len(all) /\ DOMAIN m = 1..Len(m) /\ Len(m) \in Nat
      /\ \A i \in DOMAIN m : m[i] \in Rated(D)
  OBVIOUS
<1>2. FirstIds(all, n) = FirstIds(all, n - 1) \cup {x.id}
  <2>1. 1..n = (1..(n - 1)) \cup {n}
    OBVIOUS
  <2> QED
    BY <2>1 DEF FirstIds
<1>3. \A id : /\ Parts(all, id)[n] = Parts(all, id)[n - 1] + (IF x.id = id THEN x.score ELSE 0)
              /\ Parts(all, id)[n - 1] \in Nat
  BY <1>1, PartSteps
<1>4. x.score \in Nat /\ \A i \in DOMAIN m : m[i].score \in Nat
  BY <1>1 DEF Rated
<1>5. \A id : x.id # id => Parts(all, id)[n] = Parts(all, id)[n - 1]
  BY <1>3
<1>6. Parts(all, x.id)[n] = Parts(all, x.id)[n - 1] + x.score
  BY <1>3
<1>7. Ids(m) = {m[i].id : i \in DOMAIN m}
  BY DEF Ids, ToSet
<1> HIDE DEF x
<1>8. CASE \E i \in DOMAIN m : m[i].id = x.id
  <2>1. w = [i \in DOMAIN m |->
               IF m[i].id = x.id THEN Item(x.id, m[i].score + x.score) ELSE m[i]]
    BY <1>8 DEF Accumulate
  <2> HIDE DEF w
  <2>2. DOMAIN w = DOMAIN m /\ \A i \in DOMAIN m : w[i].id = m[i].id
    BY <2>1 DEF Item
  <2>3. OncePerId(w)
    BY <2>2 DEF OncePerId, MergedUpTo
  <2>4. Ids(w) = Ids(m)
    BY <1>7, <2>2 DEF Ids, ToSet
  <2>5. x.id \in Ids(m)
    BY <1>7, <1>8
  <2>6. ASSUME NEW i \in DOMAIN w PROVE w[i].score = Parts(all, w[i].id)[n]
    <3>1. i \in DOMAIN m /\ m[i].score = Parts(all, m[i].id)[n - 1]
      BY <2>2, <2>6 DEF MergedUpTo
    <3>2. CASE m[i].id = x.id
      <4>1. w[i].score = m[i].score + x.score
        BY <2>1, <3>1, <3>2 DEF Item
      <4> QED
        BY <1>6, <2>2, <3>1, <3>2, <4>1
    <3>3. CASE m[i].id # x.id
      <4>1. w[i] = m[i]
        BY <2>1, <3>1, <3>3
      <4> QED
        BY <1>5, <3>1, <3>3, <4>1
    <3> QED
      BY <3>2, <3>3
  <2> QED
    BY <1>2, <2>3, <2>4, <2>5, <2>6 DEF MergedUpTo, w, x
<1>9. CASE ~ \E i \in DOMAIN m : m[i].id = x.id
  <2>1. w = Append(m, x)
    BY <1>9 DEF Accumulate
  <2> HIDE DEF w
  <2>2. /\ DOMAIN w = 1..(Len(m) + 1) /\ w[Len(m) + 1] = x
        /\ \A i \in 1..Len(m) : w[i] = m[i]
    BY <1>1, <2>1
  <2>3. x.id \notin Ids(m)
    BY <1>7, <1>9
  <2>4. ToSet(w) = ToSet(m) \cup {x}
    BY <1>1, <2>1, ToSetAppend
  <2>5. Ids(w) = Ids(m) \cup {x.id}
    BY <2>4 DEF Ids
  <2>6. ASSUME NEW i \in DOMAIN w, NEW j \in DOMAIN w, w[i].id = w[j].id PROVE i = j
    <3>1. i \in 1..Len(m) \/ i = Len(m) + 1
      BY <1>1, <2>2
    <3>2. j \in 1..Len(m) \/ j = Len(m) + 1
      BY <1>1, <2>2
    <3>3. CASE i \in 1..Len(m) /\ j \in 1..Len(m)
      BY <1>1, <2>2, <2>6, <3>3 DEF MergedUpTo, OncePerId
    <3>4. \A k \in 1..Len(m) : w[k].id # x.id
      BY <1>1, <1>9, <2>2
    <3>5. CASE i = Len(m) + 1 /\ j \in 1..Len(m)
      BY <2>2, <2>6, <3>4, <3>5
    <3>6. CASE j = Len(m) + 1 /\ i \in 1..Len(m)
      BY <2>2, <2>6, <3>4, <3>6
    <3> QED
      BY <3>1, <3>2, <3>3, <3>5, <3>6
  <2>7. ASSUME NEW i \in DOMAIN w PROVE w[i].score = Parts(all, w[i].id)[n]
    <3>1. CASE i \in 1..Len(m)
      <4>1. m[i].score = Parts(all, m[i].id)[n - 1] /\ m[i].id # x.id
        BY <1>1, <1>9, <3>1 DEF MergedUpTo
      <4> QED
        BY <1>5, <2>2, <3>1, <4>1
    <3>2. CASE i = Len(m) + 1
      <4>1. x.id \notin FirstIds(all, n - 1)
        BY <2>3 DEF MergedUpTo
      <4>2. Parts(all, x.id)[n - 1] = 0
        BY <1>1, <4>1, PartOfNone
      <4> QED
        BY <1>4, <1>6, <2>2, <3>2, <4>2
    <3> QED
      BY <1>1, <2>2, <3>1, <3>2
  <2> QED
    BY <1>2, <2>5, <2>6, <2>7 DEF MergedUpTo, OncePerId, w, x
<1> QED
  BY <1>8, <1>9

\* What a merge leaves: each id once, with the sum of its scores.
SumsById(m, all) ==
  /\ OncePerId(m) /\ Ids(m) = Ids(all)
  /\ \A x \in ToSet(m) : x.score = ScoreIn(all, x.id)

\* A merge leaves each id once, with the sum of its scores.
LEMMA MergeSums ==
    ASSUME NEW D, NEW all \in Seq(Rated(D))
    PROVE  /\ Merge(all)[Len(all)] \in Seq(Rated(D))
           /\ SumsById(Merge(all)[Len(all)], all)
<1> DEFINE f == Merge(all)
           I == {n \in Nat : n <= Len(all) => MergedUpTo(all, f[n], n)}
           N == Len(all)
<1>1. MergesIn(D, all, f)
  BY MergeSteps
<1> HIDE DEF f
<1>2. 0 \in I
  <2>1. f[0] = <<>> /\ ToSet(<<>>) = {} /\ DOMAIN <<>> = {}
    BY <1>1 DEF MergesIn, ToSet
  <2>2. 1..0 = {}
    OBVIOUS
  <2> QED
    BY <2>1, <2>2 DEF MergedUpTo, OncePerId, Ids, FirstIds
<1>3. ASSUME NEW n \in Nat, n \in I PROVE n + 1 \in I
  <2> SUFFICES ASSUME n + 1 <= Len(all) PROVE MergedUpTo(all, f[n + 1], n + 1)
    OBVIOUS
  <2> DEFINE k == n + 1
  <2>1. k \in 1..Len(all) /\ k - 1 = n /\ n \in 0..Len(all) /\ n <= Len(all)
    OBVIOUS
  <2> HIDE DEF k
  <2>2. f[k] = Accumulate(f[k - 1], all[k]) /\ f[k - 1] \in Seq(Rated(D))
    BY <1>1, <2>1 DEF MergesIn
  <2>3. MergedUpTo(all, f[k - 1], k - 1)
    BY <1>3, <2>1
  <2>4. MergedUpTo(all, f[k], k)
    BY <2>1, <2>2, <2>3, AccumulateKeeps
  <2> QED
    BY <2>4 DEF k
<1>4. Nat \subseteq I
  <2> HIDE DEF I
  <2> QED
    BY <1>2, <1>3, Induction
<1>5. N \in Nat /\ N \in 0..Len(all)
  OBVIOUS
<1>6. MergedUpTo(all, f[N], N) /\ f[N] \in Seq(Rated(D))
  BY <1>1, <1>4, <1>5 DEF MergesIn
<1>7. FirstIds(all, N) = Ids(all)
  BY DEF FirstIds, Ids, ToSet
<1>8. ASSUME NEW x \in ToSet(f[N]) PROVE x.score = ScoreIn(all, x.id)
  <2>1. PICK i \in DOMAIN f[N] : x = f[N][i]
    BY <1>8 DEF ToSet
  <2>2. x.score = Parts(all, x.id)[N]
    BY <1>6, <2>1 DEF MergedUpTo
  <2>3. ScoreIn(all, x.id) = Parts(all, x.id)[N]
    BY PartSteps
  <2> QED
    BY <2>2, <2>3
<1> QED
  BY <1>6, <1>7, <1>8 DEF SumsById, MergedUpTo, f

---------------------------------------------------------------------------
(***************************************************************************)
(* The order of the best matches.                                          *)
(***************************************************************************)

\* Items with scores.
Valued(items) == items \in Seq(ToSet(items)) /\ \A x \in ToSet(items) : x.score \in Nat

\* After a sort by score none is behind one with a smaller score.
LEMMA ByScoreOrders ==
    ASSUME NEW items, Valued(items)
    PROVE  /\ Valued(ByScore(items)) /\ ToSet(ByScore(items)) = ToSet(items)
           /\ \A i, j \in DOMAIN ByScore(items) :
                i < j => ByScore(items)[i].score >= ByScore(items)[j].score
           /\ OncePerId(items) => OncePerId(ByScore(items))
<1> DEFINE T == ToSet(items)
           B == Greater(items)
           w == ByScore(items)
<1>1. B = {p \in T \X T : p[1].score > p[2].score}
  BY DEF Greater
<1>2. w = Sorted(items, B) /\ items \in Seq(T) /\ \A x \in T : x.score \in Nat
  BY DEF ByScore, Valued
<1> HIDE DEF B, w
<1>3. \A x, y \in T : <<x, y>> \in B <=> x.score > y.score
  BY <1>1
<1>4. StrictOrder(B, T)
  BY <1>2, <1>3 DEF StrictOrder
<1>5. w \in Seq(T) /\ ToSet(w) = T
  BY <1>2, SortedElements
<1>6. \A i, j \in DOMAIN w : i < j => <<w[j], w[i]>> \notin B
  BY <1>2, <1>4, SortedOrder
<1>7. \A i \in DOMAIN w : w[i] \in T
  BY <1>5
<1>8. ASSUME NEW i \in DOMAIN w, NEW j \in DOMAIN w, i < j PROVE w[i].score >= w[j].score
  <2>1. w[i] \in T /\ w[j] \in T /\ <<w[j], w[i]>> \notin B
    BY <1>6, <1>7, <1>8
  <2>2. ~ (w[j].score > w[i].score)
    BY <1>3, <2>1
  <2>3. w[i].score \in Nat /\ w[j].score \in Nat
    BY <1>2, <2>1
  <2> QED
    BY <2>2, <2>3
<1>9. ASSUME OncePerId(items) PROVE OncePerId(w)
  <2>1. \A i, j \in DOMAIN items : items[i] = items[j] => i = j
    BY <1>9 DEF OncePerId
  <2>2. \A i, j \in DOMAIN w : w[i] = w[j] => i = j
    BY <1>2, <2>1, SortedOnce
  <2>3. \A x, y \in T : x.id = y.id => x = y
    BY <1>9 DEF OncePerId, ToSet
  <2> QED
    BY <1>7, <2>2, <2>3 DEF OncePerId
<1> QED
  BY <1>2, <1>5, <1>8, <1>9 DEF Valued, w

\* Where each id has one item its score is that of the item.
LEMMA OwnScore ==
    ASSUME NEW items, Valued(items), OncePerId(items), NEW x \in ToSet(items)
    PROVE  ScoreIn(items, x.id) = x.score
<1> DEFINE T == ToSet(items)
           id == x.id
           p == Shares(items, id)
<1>1. items \in Seq(T) /\ \A y \in T : y.score \in Nat
  BY DEF Valued
<1>2. PICK k \in DOMAIN items : x = items[k]
  BY DEF ToSet
<1>3. DOMAIN items = 1..Len(items) /\ k \in 1..Len(items)
  BY <1>1, <1>2
<1> HIDE DEF T
<1>4. /\ p \in Seq(Nat) /\ Len(p) = Len(items) /\ ScoreIn(items, id) = Total(p)
      /\ \A i \in 1..Len(items) : p[i] = IF items[i].id = id THEN items[i].score ELSE 0
  BY <1>1, SharesSeq
<1> HIDE DEF p
<1>5. \A i \in 1..Len(p) : i # k => p[i] = 0
  BY <1>2, <1>3, <1>4 DEF OncePerId
<1>6. Total(p) = p[k]
  BY <1>3, <1>4, <1>5, TotalSingle
<1> QED
  BY <1>2, <1>3, <1>4, <1>6

\* Sources with weights, each with one item of an id.
SourceOK(s) == s.weight \in Nat /\ Valued(s.items) /\ OncePerId(s.items)

\* The weighted score of an id: WeightedScore, of any sources.
ScoreOf(found, id) ==
  Total([i \in DOMAIN found |-> ScoreIn(found[i].items, id) * found[i].weight])

\* What the best matches of sources are.
BestOf(found, b) ==
  /\ Ids(b) = UNION {Ids(s.items) : s \in ToSet(found)}
  /\ \A i, j \in DOMAIN b :
       i < j => b[i].id # b[j].id /\ ScoreOf(found, b[i].id) >= ScoreOf(found, b[j].id)

\* The scores in sources are numbers.
LEMMA ScoresAreNumbers ==
    ASSUME NEW items, Valued(items), NEW id
    PROVE  ScoreIn(items, id) \in Nat
<1> DEFINE T == ToSet(items)
           p == Shares(items, id)
<1>1. items \in Seq(T) /\ \A y \in T : y.score \in Nat
  BY DEF Valued
<1> HIDE DEF T
<1>2. p \in Seq(Nat) /\ ScoreIn(items, id) = Total(p)
  BY <1>1, SharesSeq
<1> HIDE DEF p
<1> QED
  BY <1>2, TotalNat

\* Sources that are merged.
LEMMA MergedBest ==
    ASSUME NEW found, found \in Seq(ToSet(found)), \A s \in ToSet(found) : SourceOK(s)
    PROVE  /\ BestOf(found, ByScore(Merged(found)))
<1> DEFINE D == UNION {Ids(s.items) : s \in ToSet(found)}
           ws == [i \in DOMAIN found |-> Weighted(found[i])]
           all == Joined(ws)
           m == Merge(all)[Len(all)]
<1>1. DOMAIN found = 1..Len(found) /\ Len(found) \in Nat
  OBVIOUS
<1>2. ASSUME NEW i \in DOMAIN found
      PROVE  /\ Weighted(found[i]) \in Seq(Rated(D))
             /\ Ids(Weighted(found[i])) = Ids(found[i].items)
             /\ \A id : ScoreIn(Weighted(found[i]), id)
                          = ScoreIn(found[i].items, id) * found[i].weight
  <2> DEFINE s == found[i]
             T == ToSet(s.items)
  <2>1. s \in ToSet(found) /\ SourceOK(s)
    BY <1>2 DEF ToSet
  <2>2. s.weight \in Nat /\ s.items \in Seq(T) /\ \A x \in T : x.score \in Nat
    BY <2>1 DEF SourceOK, Valued
  <2>3. \A x \in T : x.id \in D
    BY <2>1 DEF Ids
  <2> HIDE DEF s, T, D
  <2>4. /\ Weighted(s) \in Seq(Rated(D)) /\ Ids(Weighted(s)) = Ids(s.items)
        /\ \A id : ScoreIn(Weighted(s), id) = ScoreIn(s.items, id) * s.weight
    BY <2>2, <2>3, WeightedItems
  <2> QED
    BY <2>4 DEF s
<1>3. Merged(found) = m
  BY DEF Merged, Merge, Merges
<1>4. ToSet(found) = {found[i] : i \in 1..Len(found)}
  BY <1>1 DEF ToSet
<1>5. D = UNION {Ids(found[i].items) : i \in 1..Len(found)}
  BY <1>4
<1>6. /\ ws \in Seq(Seq(Rated(D))) /\ Len(ws) = Len(found)
      /\ \A i \in 1..Len(found) : ws[i] = Weighted(found[i])
  <2> DEFINE R == Seq(Rated(D))
  <2>1. \A i \in 1..Len(found) : Weighted(found[i]) \in R
    BY <1>1, <1>2
  <2> HIDE DEF R
  <2>2. ws \in [1..Len(found) -> R] /\ \A i \in 1..Len(found) : ws[i] = Weighted(found[i])
    BY <1>1, <2>1
  <2> HIDE DEF ws
  <2>3. ws \in Seq(R) /\ Len(ws) = Len(found)
    BY <1>1, <2>2
  <2> QED
    BY <2>2, <2>3 DEF R
<1> HIDE DEF ws, D
<1>7. all \in Seq(Rated(D)) /\ ToSet(all) = Together(ws, Len(ws))
  BY <1>6, JoinedSeq, JoinedElements
<1>8. \A x \in Rated(D) : x.score \in Nat
  BY DEF Rated
<1>9. ASSUME NEW id PROVE ScoreIn(all, id) = ScoreOf(found, id)
  <2>1. ScoreIn(all, id) = Total(ScoresOf(ws, id))
    BY <1>6, <1>8, ScoreJoined
  <2>2. ScoresOf(ws, id) = [i \in DOMAIN found |-> ScoreIn(found[i].items, id) * found[i].weight]
    <3>1. DOMAIN ws = DOMAIN found
      BY <1>1, <1>6
    <3>2. \A i \in DOMAIN found : ScoreIn(ws[i], id) = ScoreIn(found[i].items, id) * found[i].weight
      BY <1>1, <1>2, <1>6
    <3> QED
      BY <3>1, <3>2 DEF ScoresOf
  <2> QED
    BY <2>1, <2>2 DEF ScoreOf
<1>10. Ids(all) = D
  <2>1. ToSet(all) = UNION {ToSet(ws[i]) : i \in 1..Len(found)}
    BY <1>6, <1>7 DEF Together
  <2>2. \A i \in 1..Len(found) : Ids(ws[i]) = Ids(found[i].items)
    BY <1>1, <1>2, <1>6
  <2>3. Ids(all) = UNION {Ids(ws[i]) : i \in 1..Len(found)}
    BY <2>1 DEF Ids
  <2> QED
    BY <1>5, <2>2, <2>3
<1> HIDE DEF all
<1>11. m \in Seq(Rated(D)) /\ SumsById(m, all)
  BY <1>7, MergeSums
<1> HIDE DEF m
<1>12. Valued(m)
  <2>1. ToSet(m) \subseteq Rated(D)
    BY <1>11 DEF ToSet
  <2>2. m \in Seq(ToSet(m))
    BY <1>11, OwnElements
  <2> QED
    BY <1>8, <2>1, <2>2 DEF Valued
<1> DEFINE b == ByScore(m)
<1>13. /\ Valued(b) /\ ToSet(b) = ToSet(m) /\ OncePerId(b)
       /\ \A i, j \in DOMAIN b : i < j => b[i].score >= b[j].score
  BY <1>11, <1>12, ByScoreOrders DEF SumsById
<1> HIDE DEF b
<1>14. Ids(b) = D
  BY <1>10, <1>11, <1>13 DEF Ids, SumsById
<1>15. \A i \in DOMAIN b : b[i].score = ScoreOf(found, b[i].id)
  <2>1. \A i \in DOMAIN b : b[i] \in ToSet(m)
    BY <1>13 DEF ToSet
  <2> QED
    BY <1>9, <1>11, <2>1 DEF SumsById
<1>16. \A i \in DOMAIN b : i \in Nat
  BY <1>13 DEF Valued
<1>17. ASSUME NEW i \in DOMAIN b, NEW j \in DOMAIN b, i < j
       PROVE  b[i].id # b[j].id /\ ScoreOf(found, b[i].id) >= ScoreOf(found, b[j].id)
  <2>1. i # j
    BY <1>16, <1>17
  <2> QED
    BY <1>13, <1>15, <1>17, <2>1 DEF OncePerId
<1> QED
  BY <1>3, <1>14, <1>17 DEF BestOf, b, D

\* The greater of two numbers has the greater multiple.
LEMMA Multiples ==
    ASSUME NEW a \in Nat, NEW b \in Nat, NEW c \in Nat, a >= b
    PROVE  a * c >= b * c
<1> DEFINE I == {n \in Nat : a * n >= b * n}
<1>1. 0 \in I
  OBVIOUS
<1>2. ASSUME NEW n \in Nat, n \in I PROVE n + 1 \in I
  <2>1. a * (n + 1) = a * n + a /\ b * (n + 1) = b * n + b
    OBVIOUS
  <2>2. a * n \in Nat /\ b * n \in Nat /\ a * n >= b * n
    BY <1>2
  <2> QED
    BY <2>1, <2>2
<1>3. Nat \subseteq I
  <2> HIDE DEF I
  <2> QED
    BY <1>1, <1>2, Induction
<1> QED
  BY <1>3

\* A source that alone has results.
LEMMA OnlyBest ==
    ASSUME NEW found, found \in Seq(ToSet(found)), \A s \in ToSet(found) : SourceOK(s),
           NEW k \in DOMAIN found, Filled(found) = {k}
    PROVE  BestOf(found, ByScore(found[k].items))
<1> DEFINE items == found[k].items
           c == found[k].weight
           b == ByScore(items)
<1>1. DOMAIN found = 1..Len(found) /\ Len(found) \in Nat
  OBVIOUS
<1>2. \A i \in DOMAIN found : SourceOK(found[i])
  BY DEF ToSet
<1>3. \A i \in DOMAIN found : i # k => found[i].items = <<>>
  BY DEF Filled
<1>4. Valued(items) /\ OncePerId(items) /\ c \in Nat
  BY <1>2 DEF SourceOK
<1> HIDE DEF c
<1>5. /\ Valued(b) /\ ToSet(b) = ToSet(items) /\ OncePerId(b)
      /\ \A i, j \in DOMAIN b : i < j => b[i].score >= b[j].score
  BY <1>4, ByScoreOrders
<1>6. ASSUME NEW id PROVE ScoreOf(found, id) = ScoreIn(items, id) * c
  <2> DEFINE p == [i \in DOMAIN found |-> ScoreIn(found[i].items, id) * found[i].weight]
  <2>1. \A i \in DOMAIN found : ScoreIn(found[i].items, id) \in Nat /\ found[i].weight \in Nat
    BY <1>2, ScoresAreNumbers DEF SourceOK
  <2>2. \A x, y \in Nat : x * y \in Nat
    OBVIOUS
  <2>3. p \in [1..Len(found) -> Nat]
    BY <1>1, <2>1, <2>2
  <2>4. p \in Seq(Nat) /\ Len(p) = Len(found)
    BY <1>1, <2>3
  <2>5. ASSUME NEW i \in 1..Len(p), i # k PROVE p[i] = 0
    <3>1. i \in DOMAIN found /\ found[i].items = <<>>
      BY <1>1, <1>3, <2>4, <2>5
    <3>2. ScoreIn(<<>>, id) = 0
      <4>1. ScoreIn(<<>>, id) = Total(<<>>)
        BY DEF ScoreIn
      <4> QED
        BY <4>1, TotalEmpty
    <3>3. 0 * found[i].weight = 0
      BY <2>1, <3>1
    <3> QED
      BY <3>1, <3>2, <3>3
  <2>6. p[k] = ScoreIn(items, id) * c
    BY DEF c
  <2>7. ScoreOf(found, id) = Total(p)
    BY DEF ScoreOf
  <2> HIDE DEF p, items
  <2>8. k \in 1..Len(p)
    BY <1>1, <2>4
  <2>9. Total(p) = p[k]
    BY <2>4, <2>5, <2>8, TotalSingle
  <2> QED
    BY <2>6, <2>7, <2>9
<1>7. Ids(b) = UNION {Ids(s.items) : s \in ToSet(found)}
  <2>1. Ids(b) = Ids(items)
    BY <1>5 DEF Ids
  <2>2. \A s \in ToSet(found) : s = found[k] \/ s.items = <<>>
    BY <1>3 DEF ToSet
  <2>3. found[k] \in ToSet(found)
    BY DEF ToSet
  <2>4. Ids(<<>>) = {}
    BY DEF Ids, ToSet
  <2> QED
    BY <2>1, <2>2, <2>3, <2>4
<1> HIDE DEF b
<1>8. \A i \in DOMAIN b : b[i] \in ToSet(items) /\ i \in Nat
  <2>1. b \in Seq(ToSet(b)) /\ ToSet(b) = ToSet(items)
    BY <1>5 DEF Valued
  <2> HIDE DEF items
  <2>2. b \in Seq(ToSet(items))
    BY <2>1
  <2> QED
    BY <2>2
<1>9. \A x \in ToSet(items) : ScoreIn(items, x.id) = x.score /\ x.score \in Nat
  BY <1>4, OwnScore DEF Valued
<1> HIDE DEF items
<1>10. ASSUME NEW i \in DOMAIN b, NEW j \in DOMAIN b, i < j
       PROVE  b[i].id # b[j].id /\ ScoreOf(found, b[i].id) >= ScoreOf(found, b[j].id)
  <2>1. i # j
    BY <1>8, <1>10
  <2>2. b[i].id # b[j].id
    BY <1>5, <2>1 DEF OncePerId
  <2>3. /\ ScoreOf(found, b[i].id) = b[i].score * c /\ ScoreOf(found, b[j].id) = b[j].score * c
        /\ b[i].score \in Nat /\ b[j].score \in Nat
    BY <1>6, <1>8, <1>9
  <2>4. b[i].score >= b[j].score
    BY <1>5, <1>10
  <2>5. b[i].score * c >= b[j].score * c
    BY <1>4, <2>3, <2>4, Multiples
  <2> QED
    BY <2>2, <2>3, <2>5
<1> QED
  BY <1>7, <1>10 DEF BestOf, b, items

\* compute_best_matches ranks the results of its sources.
LEMMA FuseBest ==
    ASSUME NEW found, found \in Seq(ToSet(found)), \A s \in ToSet(found) : SourceOK(s)
    PROVE  BestOf(found, Fuse(found))
<1> DEFINE F == Filled(found)
<1>1. F \subseteq DOMAIN found
  BY DEF Filled
<1>2. IsFiniteSet(F)
  <2>1. DOMAIN found = 1..Len(found) /\ 1 \in Int /\ Len(found) \in Int
    OBVIOUS
  <2>2. IsFiniteSet(DOMAIN found)
    BY <2>1, FS_Interval
  <2> QED
    BY <1>1, <2>2, FS_Subset
<1>3. CASE Cardinality(F) = 1
  <2>1. PICK k : F = {k}
    BY <1>2, <1>3, FS_Singleton
  <2>2. (CHOOSE i \in F : TRUE) = k /\ k \in DOMAIN found
    BY <1>1, <2>1
  <2>3. Fuse(found) = ByScore(found[k].items)
    BY <1>3, <2>2 DEF Fuse
  <2> QED
    BY <2>1, <2>2, <2>3, OnlyBest
<1>4. CASE Cardinality(F) # 1
  <2>1. Fuse(found) = ByScore(Merged(found))
    BY <1>4 DEF Fuse
  <2> QED
    BY <2>1, MergedBest
<1> QED
  BY <1>3, <1>4

---------------------------------------------------------------------------
(***************************************************************************)
(* The paragraphs of the graph strategy.                                   *)
(***************************************************************************)

\* Blocks in the order of Kept: both of their ends later.
Later == {p \in Hits \X Hits : /\ BlockStart[p[1].id] < BlockStart[p[2].id]
                               /\ BlockEnd[p[1].id] < BlockEnd[p[2].id]}

\* b is at least as long a part of the text as c, with at least its score.
Stands(b, c) ==
  BlockStart[b.id] <= BlockStart[c.id] /\ BlockEnd[c.id] <= BlockEnd[b.id] /\ b.score >= c.score

\* What is kept of the first n of sorted blocks: in order, each the place of one of
\* them, and one in the place of each.
KeptUpTo(w, kept, n) ==
  /\ kept \in Seq(Hits) /\ Pairwise(kept, Later)
  /\ \A b \in ToSet(kept) : \E i \in 1..n : b.id = w[i].id
  /\ \A i \in 1..n : \E b \in ToSet(kept) : Stands(b, w[i])

\* No block comes behind one it is before.
SpansSorted(w) ==
  \A i, j \in DOMAIN w : i < j =>
    /\ BlockStart[w[i].id] <= BlockStart[w[j].id]
    /\ BlockStart[w[i].id] = BlockStart[w[j].id] => BlockEnd[w[i].id] >= BlockEnd[w[j].id]

\* A block has an id, a score and a place in a text.
LEMMA BlockSpans ==
  \A x \in Hits : /\ x.id \in Blocks /\ x.score \in Nat
                  /\ BlockStart[x.id] \in Nat /\ BlockEnd[x.id] \in Nat
BY RequestsAssumption DEF Hits

\* One block more, behind those before it: it is kept, or stands in one that is.
LEMMA KeepKeeps ==
    ASSUME NEW w \in Seq(Hits), SpansSorted(w), NEW n \in 1..Len(w), NEW kept,
           KeptUpTo(w, kept, n - 1)
    PROVE  KeptUpTo(w, Keep(kept, w[n]), n)
<1> DEFINE m == w[n]
           l == Len(kept)
           e == kept[l]
           b == Block(e.id, IF m.score > e.score THEN m.score ELSE e.score)
           k2 == Keep(kept, m)
<1>1. /\ kept \in Seq(Hits) /\ l \in Nat /\ DOMAIN kept = 1..l /\ Pairwise(kept, Later)
      /\ \A i \in DOMAIN kept : kept[i] \in Hits
      /\ DOMAIN w = 1..Len(w) /\ \A i \in DOMAIN w : w[i] \in Hits
  BY DEF KeptUpTo
<1>2. m \in Hits /\ n \in DOMAIN w
  BY <1>1
<1>3. 1..n = (1..(n - 1)) \cup {n}
  OBVIOUS
<1>4. kept # <<>> => l \in DOMAIN kept /\ e \in Hits
  BY <1>1
\* The last one kept does not begin later.
<1>5. ASSUME kept # <<>>
      PROVE  /\ BlockStart[e.id] <= BlockStart[m.id]
             /\ BlockStart[e.id] = BlockStart[m.id] => BlockEnd[e.id] >= BlockEnd[m.id]
  <2>1. e \in ToSet(kept)
    BY <1>4, <1>5 DEF ToSet
  <2>2. PICK i \in 1..(n - 1) : e.id = w[i].id
    BY <2>1 DEF KeptUpTo
  <2>3. i \in DOMAIN w /\ i < n
    BY <1>1, <2>2
  <2> QED
    BY <1>2, <2>2, <2>3 DEF SpansSorted
<1> HIDE DEF m
<1>6. CASE kept # <<>> /\ BlockEnd[m.id] <= BlockEnd[e.id]
  <2>1. k2 = [kept EXCEPT ![l] = b]
    BY <1>6 DEF Keep, Last
  <2>2. b \in Hits /\ b.id = e.id /\ b.score >= e.score /\ b.score >= m.score
    BY <1>2, <1>4, <1>6, BlockSpans DEF Block, Hits
  <2> HIDE DEF k2, b
  <2>3. /\ k2 \in Seq(Hits) /\ DOMAIN k2 = DOMAIN kept /\ k2[l] = b
        /\ \A i \in DOMAIN kept : i # l => k2[i] = kept[i]
    BY <1>1, <1>4, <1>6, <2>1, <2>2
  <2>4. \A i \in DOMAIN kept : k2[i].id = kept[i].id /\ k2[i] \in Hits /\ k2[i].score >= kept[i].score
    <3>1. ASSUME NEW i \in DOMAIN kept
          PROVE  k2[i].id = kept[i].id /\ k2[i] \in Hits /\ k2[i].score >= kept[i].score
      <4>1. CASE i = l
        BY <1>6, <2>2, <2>3, <4>1
      <4>2. CASE i # l
        <5>1. k2[i] = kept[i] /\ kept[i].score \in Nat
          BY <1>1, <2>3, <4>2, BlockSpans
        <5> QED
          BY <1>1, <5>1
      <4> QED
        BY <4>1, <4>2
    <3> QED
      BY <3>1
  <2>5. Pairwise(k2, Later)
    <3>1. ASSUME NEW i \in DOMAIN k2, NEW j \in DOMAIN k2, i < j PROVE <<k2[i], k2[j]>> \in Later
      <4>1. <<kept[i], kept[j]>> \in Later
        BY <1>1, <2>3, <3>1 DEF Pairwise
      <4> QED
        BY <2>3, <2>4, <4>1 DEF Later
    <3> QED
      BY <3>1 DEF Pairwise
  <2>6. ASSUME NEW x \in ToSet(k2) PROVE \E i \in 1..n : x.id = w[i].id
    <3>1. PICK j \in DOMAIN kept : x = k2[j]
      BY <2>3, <2>6 DEF ToSet
    <3>2. kept[j] \in ToSet(kept)
      BY <3>1 DEF ToSet
    <3>3. PICK i \in 1..(n - 1) : kept[j].id = w[i].id
      BY <3>2 DEF KeptUpTo
    <3> QED
      BY <1>3, <2>4, <3>1, <3>3
  <2>7. ASSUME NEW i \in 1..n PROVE \E x \in ToSet(k2) : Stands(x, w[i])
    <3>1. CASE i = n
      <4>1. b \in ToSet(k2)
        BY <1>4, <1>6, <2>3 DEF ToSet
      <4>2. Stands(b, m)
        BY <1>5, <1>6, <2>2 DEF Stands
      <4> QED
        BY <3>1, <4>1, <4>2 DEF m
    <3>2. CASE i \in 1..(n - 1)
      <4>1. PICK x \in ToSet(kept) : Stands(x, w[i])
        BY <3>2 DEF KeptUpTo
      <4>2. PICK j \in DOMAIN kept : x = kept[j]
        BY <4>1 DEF ToSet
      <4>3. k2[j] \in ToSet(k2)
        BY <2>3, <4>2 DEF ToSet
      <4>4. k2[j].id = x.id /\ k2[j].score >= x.score /\ k2[j].score \in Nat /\ x.score \in Nat
        BY <1>1, <2>4, <4>2, BlockSpans
      <4>5. w[i].score \in Nat
        BY <1>1, BlockSpans
      <4>6. Stands(k2[j], w[i])
        BY <4>1, <4>4, <4>5 DEF Stands
      <4> QED
        BY <4>3, <4>6
    <3> QED
      BY <1>3, <3>1, <3>2
  <2> QED
    BY <2>3, <2>5, <2>6, <2>7 DEF KeptUpTo, k2, m
<1>7. CASE ~ (kept # <<>> /\ BlockEnd[m.id] <= BlockEnd[e.id])
  <2>1. k2 = Append(kept, m)
    BY <1>7 DEF Keep, Last
  <2> HIDE DEF k2
  <2>2. ToSet(k2) = ToSet(kept) \cup {m} /\ k2 \in Seq(Hits)
    BY <1>1, <1>2, <2>1, ToSetAppend
  <2>3. ASSUME NEW x \in ToSet(kept) PROVE <<x, m>> \in Later
    <3>1. PICK j \in DOMAIN kept : x = kept[j]
      BY <2>3 DEF ToSet
    <3>2. kept # <<>> /\ e \in Hits /\ l \in DOMAIN kept /\ x \in Hits
      BY <1>1, <1>4, <3>1
    <3>3. BlockEnd[e.id] < BlockEnd[m.id]
      BY <1>2, <1>7, <3>2, BlockSpans
    <3>4. BlockStart[e.id] < BlockStart[m.id]
      BY <1>2, <1>5, <3>2, <3>3, BlockSpans
    <3>5. j = l \/ j < l
      BY <1>1, <3>1
    <3>6. CASE j = l
      BY <1>2, <3>1, <3>2, <3>3, <3>4, <3>6 DEF Later
    <3>7. CASE j < l
      <4>1. <<x, e>> \in Later
        BY <1>1, <3>1, <3>2, <3>7 DEF Pairwise
      <4>2. BlockStart[x.id] < BlockStart[e.id] /\ BlockEnd[x.id] < BlockEnd[e.id]
        BY <4>1 DEF Later
      <4>3. BlockStart[x.id] < BlockStart[m.id] /\ BlockEnd[x.id] < BlockEnd[m.id]
        BY <1>2, <3>2, <3>3, <3>4, <4>2, BlockSpans
      <4> QED
        BY <1>2, <3>2, <4>3 DEF Later
    <3> QED
      BY <3>5, <3>6, <3>7
  <2>4. Pairwise(k2, Later)
    BY <1>1, <1>2, <2>1, <2>3, PairwiseAppend
  <2>5. \A x \in ToSet(k2) : \E i \in 1..n : x.id = w[i].id
    BY <1>3, <2>2 DEF KeptUpTo, m
  <2>6. ASSUME NEW i \in 1..n PROVE \E x \in ToSet(k2) : Stands(x, w[i])
    <3>1. CASE i = n
      <4>1. Stands(m, m)
        BY <1>2, BlockSpans DEF Stands
      <4> QED
        BY <2>2, <3>1, <4>1 DEF m
    <3>2. CASE i \in 1..(n - 1)
      BY <2>2, <3>2 DEF KeptUpTo
    <3> QED
      BY <1>3, <3>1, <3>2
  <2> QED
    BY <2>2, <2>4, <2>5, <2>6 DEF KeptUpTo, k2, m
<1> QED
  BY <1>6, <1>7

\* f is the recursive function of Kept(matches).
Keeps(w, f) == f = [n \in 0..Len(w) |-> IF n = 0 THEN <<>> ELSE Keep(f[n - 1], w[n])]

\* The function of Kept.
KeptSteps(w) == CHOOSE f : Keeps(w, f)

\* The blocks that are kept are blocks.
LEMMA KeepHits ==
    ASSUME NEW kept \in Seq(Hits), NEW m \in Hits
    PROVE  Keep(kept, m) \in Seq(Hits)
<1> DEFINE l == Len(kept)
           b == Block(kept[l].id, IF m.score > kept[l].score THEN m.score ELSE kept[l].score)
<1>1. CASE kept # <<>> /\ BlockEnd[m.id] <= BlockEnd[kept[l].id]
  <2>1. Keep(kept, m) = [kept EXCEPT ![l] = b]
    BY <1>1 DEF Keep, Last
  <2>2. l \in DOMAIN kept /\ kept[l] \in Hits
    BY <1>1
  <2>3. b \in Hits
    BY <2>2 DEF Block, Hits
  <2> HIDE DEF b
  <2> QED
    BY <2>1, <2>2, <2>3
<1>2. CASE ~ (kept # <<>> /\ BlockEnd[m.id] <= BlockEnd[kept[l].id])
  BY <1>2 DEF Keep, Last
<1> QED
  BY <1>1, <1>2

\* What is kept of sorted blocks, block by block.
LEMMA KeptByStep ==
    ASSUME NEW w \in Seq(Hits)
    PROVE  /\ KeptSteps(w)[0] = <<>>
           /\ \A n \in 1..Len(w) : KeptSteps(w)[n] = Keep(KeptSteps(w)[n - 1], w[n])
<1> DEFINE A == Seq(Hits)
           G == [p \in A \X Hits |-> Keep(p[1], p[2])]
           g == KeptSteps(w)
<1>1. \A a \in A, b \in Hits : Keep(a, b) \in A
  BY KeepHits
<1>2. \A a \in A, b \in Hits : G[<<a, b>>] = Keep(a, b)
  OBVIOUS
<1>3. <<>> \in A /\ (\A m \in 1..Len(w) : w[m] \in Hits) /\ Len(w) \in Nat
  OBVIOUS
<1> HIDE DEF A, G
<1>4. \A a \in A, b \in Hits : G[<<a, b>>] \in A
  BY <1>1, <1>2
<1>5. PICK f : FoldsIn(A, G, <<>>, w, f)
  BY <1>3, <1>4, FoldInto
<1>6. Keeps(w, f)
  <2>1. ASSUME NEW m \in 0..Len(w)
        PROVE  (IF m = 0 THEN <<>> ELSE G[<<f[m - 1], w[m]>>])
                 = (IF m = 0 THEN <<>> ELSE Keep(f[m - 1], w[m]))
    <3>1. CASE m # 0
      <4>1. m - 1 \in 0..Len(w) /\ w[m] \in Hits
        BY <1>3, <3>1
      <4>2. f[m - 1] \in A
        BY <1>5, <4>1 DEF FoldsIn
      <4> QED
        BY <1>2, <4>1, <4>2
    <3> QED
      BY <3>1
  <2> QED
    BY <1>5, <2>1 DEF FoldsIn, FoldsOver, Keeps
<1>7. Keeps(w, g)
  BY <1>6 DEF KeptSteps
<1> HIDE DEF g
<1> QED
  BY <1>3, <1>7 DEF Keeps, g

\* Sorted by span, no block comes behind one it is before.
LEMMA BySpanSorts ==
    ASSUME NEW ms \in Seq(Hits)
    PROVE  BySpan(ms) \in Seq(Hits) /\ ToSet(BySpan(ms)) = ToSet(ms) /\ SpansSorted(BySpan(ms))
<1> DEFINE T == ToSet(ms)
           B == SpanBefore(ms)
           w == BySpan(ms)
<1>1. B = {p \in T \X T : \/ BlockStart[p[1].id] < BlockStart[p[2].id]
                          \/ /\ BlockStart[p[1].id] = BlockStart[p[2].id]
                             /\ BlockEnd[p[1].id] > BlockEnd[p[2].id]}
  BY DEF SpanBefore
<1>2. w = Sorted(ms, B) /\ ms \in Seq(T) /\ T \subseteq Hits
  BY OwnElements DEF BySpan
<1> HIDE DEF B, w, T
<1>3. \A x, y \in T : <<x, y>> \in B <=> \/ BlockStart[x.id] < BlockStart[y.id]
                                         \/ /\ BlockStart[x.id] = BlockStart[y.id]
                                            /\ BlockEnd[x.id] > BlockEnd[y.id]
  BY <1>1
<1>4. \A x \in T : BlockStart[x.id] \in Nat /\ BlockEnd[x.id] \in Nat
  BY <1>2, BlockSpans
<1>5. StrictOrder(B, T)
  <2>1. \A x, y \in T : <<x, y>> \in B => <<y, x>> \notin B
    BY <1>3, <1>4
  <2>2. ASSUME NEW x \in T, NEW y \in T, NEW z \in T, <<x, y>> \in B, <<y, z>> \in B
        PROVE  <<x, z>> \in B
    <3>1. \/ BlockStart[x.id] < BlockStart[y.id]
          \/ BlockStart[x.id] = BlockStart[y.id] /\ BlockEnd[x.id] > BlockEnd[y.id]
      BY <1>3, <2>2
    <3>2. \/ BlockStart[y.id] < BlockStart[z.id]
          \/ BlockStart[y.id] = BlockStart[z.id] /\ BlockEnd[y.id] > BlockEnd[z.id]
      BY <1>3, <2>2
    <3>3. \/ BlockStart[x.id] < BlockStart[z.id]
          \/ BlockStart[x.id] = BlockStart[z.id] /\ BlockEnd[x.id] > BlockEnd[z.id]
      BY <1>4, <3>1, <3>2
    <3> QED
      BY <1>3, <3>3
  <2> QED
    BY <2>1, <2>2 DEF StrictOrder
<1>6. w \in Seq(T) /\ ToSet(w) = T
  BY <1>2, SortedElements DEF T
<1>7. \A i, j \in DOMAIN w : i < j => <<w[j], w[i]>> \notin B
  BY <1>2, <1>5, SortedOrder
<1>8. \A i \in DOMAIN w : w[i] \in T
  BY <1>6
<1>9. ASSUME NEW i \in DOMAIN w, NEW j \in DOMAIN w, i < j
      PROVE  /\ BlockStart[w[i].id] <= BlockStart[w[j].id]
             /\ BlockStart[w[i].id] = BlockStart[w[j].id] => BlockEnd[w[i].id] >= BlockEnd[w[j].id]
  <2>1. w[i] \in T /\ w[j] \in T /\ <<w[j], w[i]>> \notin B
    BY <1>7, <1>8, <1>9
  <2> QED
    BY <1>3, <1>4, <2>1
<1>10. w \in Seq(Hits)
  BY <1>2, <1>6, SeqOfLarger
<1> QED
  BY <1>6, <1>9, <1>10 DEF SpansSorted, w, T

\* What is kept of the blocks of a field: in order, each the place of one of them,
\* and one in the place of each.
StandFor(kept, ms) ==
  /\ kept \in Seq(Hits) /\ Pairwise(kept, Later)
  /\ \A b \in ToSet(kept) : \E m \in ToSet(ms) : b.id = m.id
  /\ \A m \in ToSet(ms) : \E b \in ToSet(kept) : Stands(b, m)

\* What is kept of the blocks of a field stands for all of them.
LEMMA KeptStands ==
    ASSUME NEW ms \in Seq(Hits)
    PROVE  StandFor(Kept(ms), ms)
<1> DEFINE w == BySpan(ms)
           f == KeptSteps(w)
           N == Len(w)
           I == {n \in Nat : n <= N => KeptUpTo(w, f[n], n)}
<1>1. Kept(ms) = f[N]
  BY DEF Kept, KeptSteps, Keeps
<1>2. w \in Seq(Hits) /\ ToSet(w) = ToSet(ms) /\ SpansSorted(w)
  BY BySpanSorts
<1> HIDE DEF w
<1>3. f[0] = <<>> /\ \A n \in 1..N : f[n] = Keep(f[n - 1], w[n])
  BY <1>2, KeptByStep
<1> HIDE DEF f
<1>4. N \in Nat /\ DOMAIN w = 1..N
  BY <1>2
<1>5. 0 \in I
  <2>1. ToSet(<<>>) = {} /\ DOMAIN <<>> = {} /\ <<>> \in Seq(Hits)
    BY DEF ToSet
  <2>2. 1..0 = {}
    OBVIOUS
  <2> QED
    BY <1>3, <2>1, <2>2 DEF KeptUpTo, Pairwise
<1>6. ASSUME NEW n \in Nat, n \in I PROVE n + 1 \in I
  <2> SUFFICES ASSUME n + 1 <= N PROVE KeptUpTo(w, f[n + 1], n + 1)
    OBVIOUS
  <2> DEFINE k == n + 1
  <2>1. k \in 1..N /\ k - 1 = n /\ n <= N
    BY <1>4
  <2> HIDE DEF k, N
  <2>2. f[k] = Keep(f[k - 1], w[k]) /\ KeptUpTo(w, f[k - 1], k - 1)
    BY <1>3, <1>6, <2>1
  <2>3. KeptUpTo(w, f[k], k)
    BY <1>2, <2>1, <2>2, KeepKeeps DEF N
  <2> QED
    BY <2>3 DEF k
<1>7. Nat \subseteq I
  <2> HIDE DEF I
  <2> QED
    BY <1>5, <1>6, Induction
<1>8. KeptUpTo(w, f[N], N)
  BY <1>4, <1>7
<1>9. \A m \in ToSet(ms) : \E i \in 1..N : m = w[i]
  BY <1>2, <1>4 DEF ToSet
<1>10. \A i \in 1..N : w[i] \in ToSet(ms)
  BY <1>2, <1>4 DEF ToSet
<1> HIDE DEF N
<1> QED
  BY <1>1, <1>8, <1>9, <1>10 DEF KeptUpTo, StandFor

---------------------------------------------------------------------------
(***************************************************************************)
(* The results of the graph strategy.                                      *)
(***************************************************************************)

\* The order of joined sequences, if each has it, and each and those behind it.
LEMMA JoinedOrdered ==
    ASSUME NEW T, NEW R, NEW s \in Seq(Seq(T)), \A i \in 1..Len(s) : Pairwise(s[i], R),
           \A i, j \in 1..Len(s) : i < j => \A x \in ToSet(s[i]), y \in ToSet(s[j]) : <<x, y>> \in R
    PROVE  Pairwise(Joined(s), R)
<1> DEFINE p(n) == SubSeq(s, 1, n)
           A == Seq(T)
           I == {n \in Nat : n <= Len(s) => Pairwise(Joined(p(n)), R)}
<1>0. s \in Seq(A)
  OBVIOUS
<1>1. 0 \in I
  <2>1. p(0) = <<>>
    OBVIOUS
  <2>2. Pairwise(<<>>, R)
    BY DEF Pairwise
  <2> QED
    BY <2>1, <2>2, JoinedEmpty
<1>2. ASSUME NEW n \in Nat, n \in I PROVE n + 1 \in I
  <2> SUFFICES ASSUME n + 1 <= Len(s) PROVE Pairwise(Joined(p(n + 1)), R)
    OBVIOUS
  <2> DEFINE q == p(n)
             x == s[n + 1]
  <2>1. n < Len(s) /\ n + 1 \in 1..Len(s)
    OBVIOUS
  <2>2. Pairwise(Joined(q), R) /\ Pairwise(x, R)
    BY <1>2, <2>1
  <2> HIDE DEF A
  <2>3. p(n + 1) = Append(q, x) /\ q \in Seq(A) /\ x \in A
    BY <1>0, <2>1, OneMore
  <2>4. Len(q) = n /\ \A i \in 1..n : q[i] = s[i]
    BY <1>0, <2>1
  <2> HIDE DEF q
  <2>5. Joined(Append(q, x)) = Joined(q) \o x
    BY <2>3, JoinedAppend
  <2>6. Joined(q) \in Seq(T) /\ x \in Seq(T)
    BY <2>3, JoinedSeq DEF A
  <2>7. ToSet(Joined(q)) = Together(q, n)
    BY <2>3, <2>4, JoinedElements DEF A
  <2>8. ASSUME NEW u \in ToSet(Joined(q)), NEW v \in ToSet(x) PROVE <<u, v>> \in R
    <3>1. PICK i \in 1..n : u \in ToSet(s[i])
      BY <2>4, <2>7, <2>8 DEF Together
    <3>2. i \in 1..Len(s) /\ i < n + 1
      BY <2>1
    <3> QED
      BY <2>1, <2>8, <3>1, <3>2
  <2>9. Pairwise(Joined(q) \o x, R)
    BY <2>2, <2>6, <2>8, PairwiseConcat
  <2> QED
    BY <2>3, <2>5, <2>9
<1>3. Nat \subseteq I
  <2> HIDE DEF I
  <2> QED
    BY <1>1, <1>2, Induction
<1>4. Len(s) \in Nat /\ p(Len(s)) = s
  OBVIOUS
<1>5. Pairwise(Joined(p(Len(s))), R)
  BY <1>3, <1>4
<1> HIDE DEF p
<1> QED
  BY <1>4, <1>5

\* The values of a function on the places of a sequence are finitely many.
LEMMA FiniteValues ==
    ASSUME NEW n \in Nat, NEW f, DOMAIN f = 1..n
    PROVE  IsFiniteSet({f[i] : i \in 1..n})
<1> DEFINE D == 1..n
           V == {f[i] : i \in D}
           g == [i \in D |-> f[i]]
<1>1. IsFiniteSet(D)
  <2>1. 1 \in Int /\ n \in Int
    OBVIOUS
  <2> QED
    BY <2>1, FS_Interval
<1>2. g \in [D -> V] /\ \A v \in V : \E i \in D : g[i] = v
  OBVIOUS
<1> HIDE DEF g, D, V
<1>3. g \in Surjection(D, V)
  BY <1>2 DEF Surjection
<1>4. IsFiniteSet(V)
  BY <1>1, <1>3, FS_Surjection
<1> QED
  BY <1>4 DEF V, D

\* The relations of the graph that have scores.
ScoredOK(ss) ==
  /\ ss \in Seq(ToSet(ss))
  /\ \A s \in ToSet(ss) : s.score \in Nat /\ s.rel.path.block \in Blocks \cup {NoBlock}

\* Their paragraphs: the paragraph of each is in one of them, with at least its
\* score, and none is in another.
LEMMA ParagraphsStand ==
    ASSUME NEW ss, ScoredOK(ss)
    PROVE  /\ ParagraphsOf(ss) \in Seq(Hits)
           /\ \A s \in ToSet(ss) :
                s.rel.path.block # NoBlock =>
                  \E b \in ToSet(ParagraphsOf(ss)) :
                    Covers(b.id, s.rel.path.block) /\ b.score >= s.score
           /\ \A i, j \in DOMAIN ParagraphsOf(ss) :
                i # j => ~ Covers(ParagraphsOf(ss)[i].id, ParagraphsOf(ss)[j].id)
<1> DEFINE S == {s \in ToSet(ss) : s.rel.path.block # NoBlock}
           located == Chosen(ss, S)
           matches_ == [i \in DOMAIN located |-> Block(located[i].rel.path.block, located[i].score)]
           F == {BlockField[m.id] : m \in ToSet(matches_)}
           fields == SetToSeq(F)
           of(i) == Chosen(matches_, {m \in ToSet(matches_) : BlockField[m.id] = fields[i]})
           parts == [i \in DOMAIN fields |-> Kept(of(i))]
           P == ParagraphsOf(ss)
<1>1. P = Joined(parts)
  BY DEF ParagraphsOf
<1> HIDE DEF P
<1>2. located \in Seq(S) /\ ToSet(located) = S
  <2>1. ss \in Seq(ToSet(ss))
    BY DEF ScoredOK
  <2>2. Chosen(ss, S) \in Seq(S \cap ToSet(ss)) /\ ToSet(Chosen(ss, S)) = ToSet(ss) \cap S
    BY <2>1, ChosenSeq, ChosenSet
  <2>3. S \cap ToSet(ss) = S /\ ToSet(ss) \cap S = S
    OBVIOUS
  <2> HIDE DEF S
  <2> QED
    BY <2>2, <2>3
<1>3. \A s \in S : s.score \in Nat /\ s.rel.path.block \in Blocks
  BY DEF ScoredOK
<1>4. \A s \in ToSet(ss) : s.rel.path.block # NoBlock => s \in S
  OBVIOUS
<1> HIDE DEF S, located
<1>5. /\ DOMAIN located = 1..Len(located) /\ Len(located) \in Nat
      /\ \A i \in DOMAIN located : located[i] \in S
  BY <1>2
<1>6. /\ matches_ \in Seq(Hits) /\ DOMAIN matches_ = 1..Len(located)
      /\ \A i \in 1..Len(located) : matches_[i] = Block(located[i].rel.path.block, located[i].score)
  <2>1. \A i \in 1..Len(located) : Block(located[i].rel.path.block, located[i].score) \in Hits
    BY <1>3, <1>5 DEF Block, Hits
  <2>2. /\ matches_ \in [1..Len(located) -> Hits]
        /\ \A i \in 1..Len(located) : matches_[i] = Block(located[i].rel.path.block, located[i].score)
    BY <1>5, <2>1
  <2> HIDE DEF matches_
  <2> QED
    BY <1>5, <2>2
<1>7. \A s \in S : \E m \in ToSet(matches_) : m.id = s.rel.path.block /\ m.score = s.score
  <2>1. ASSUME NEW s \in S PROVE \E m \in ToSet(matches_) : m.id = s.rel.path.block /\ m.score = s.score
    <3>1. PICK i \in 1..Len(located) : s = located[i]
      BY <1>2, <1>5, <2>1 DEF ToSet
    <3>2. matches_[i] = Block(s.rel.path.block, s.score)
      BY <1>6, <3>1
    <3> HIDE DEF matches_
    <3>3. matches_[i] \in ToSet(matches_)
      BY <1>6 DEF ToSet
    <3> QED
      BY <3>2, <3>3 DEF Block
  <2> QED
    BY <2>1
<1> HIDE DEF matches_
<1>8. F = {BlockField[matches_[i].id] : i \in 1..Len(located)}
  BY <1>6 DEF ToSet
<1>9. IsFiniteSet(F)
  <2> DEFINE f == [i \in 1..Len(located) |-> BlockField[matches_[i].id]]
  <2>1. DOMAIN f = 1..Len(located) /\ F = {f[i] : i \in 1..Len(located)}
    BY <1>8
  <2> HIDE DEF f, F
  <2> QED
    BY <1>5, <2>1, FiniteValues
<1>10. /\ fields \in Seq(F) /\ ToSet(fields) = F
       /\ \A i, j \in DOMAIN fields : fields[i] = fields[j] => i = j
  BY <1>9, SetToSeqLists
<1>11. \A m \in ToSet(matches_) : BlockField[m.id] \in F /\ m \in Hits
  BY <1>6 DEF ToSet
<1> HIDE DEF F, fields
<1>12. DOMAIN fields = 1..Len(fields) /\ Len(fields) \in Nat
  BY <1>10
<1>13. ASSUME NEW i \in 1..Len(fields)
       PROVE  /\ of(i) \in Seq(Hits)
              /\ \A m : m \in ToSet(of(i)) <=> m \in ToSet(matches_) /\ BlockField[m.id] = fields[i]
  <2> DEFINE M == {m \in ToSet(matches_) : BlockField[m.id] = fields[i]}
             o == Chosen(matches_, M)
  <2>1. \A m : m \in M <=> m \in ToSet(matches_) /\ BlockField[m.id] = fields[i]
    OBVIOUS
  <2>2. of(i) = o
    OBVIOUS
  <2> HIDE DEF M, of
  <2>3. o \in Seq(M \cap Hits) /\ ToSet(o) = ToSet(matches_) \cap M
    BY <1>6, ChosenSeq, ChosenSet
  <2> HIDE DEF o
  <2>4. o \in Seq(Hits)
    BY <2>3, SeqOfLarger
  <2> QED
    BY <2>1, <2>2, <2>3, <2>4
<1> HIDE DEF of
<1>14. \A i \in 1..Len(fields) : StandFor(Kept(of(i)), of(i))
  BY <1>13, KeptStands
<1>15. /\ DOMAIN parts = 1..Len(fields) /\ \A i \in 1..Len(fields) : parts[i] = Kept(of(i))
  BY <1>12
<1>16. parts \in Seq(Seq(Hits)) /\ Len(parts) = Len(fields)
  <2> DEFINE A == Seq(Hits)
  <2>1. \A i \in 1..Len(fields) : Kept(of(i)) \in A
    BY <1>14 DEF StandFor
  <2> HIDE DEF A
  <2>2. parts \in [1..Len(fields) -> A]
    BY <1>12, <2>1
  <2> HIDE DEF parts
  <2>3. parts \in Seq(A) /\ Len(parts) = Len(fields)
    BY <1>12, <2>2
  <2> QED
    BY <2>3 DEF A
<1> HIDE DEF parts
<1>17. P \in Seq(Hits) /\ ToSet(P) = Together(parts, Len(parts))
  BY <1>1, <1>16, JoinedSeq, JoinedElements
\* The blocks of a part are of its field.
<1>18. ASSUME NEW i \in 1..Len(fields), NEW b \in ToSet(parts[i])
       PROVE  BlockField[b.id] = fields[i] /\ b \in Hits
  <2>1. PICK m \in ToSet(of(i)) : b.id = m.id
    BY <1>14, <1>15, <1>18 DEF StandFor
  <2>2. Kept(of(i)) \in Seq(Hits)
    BY <1>14 DEF StandFor
  <2> QED
    BY <1>13, <1>15, <1>18, <2>1, <2>2 DEF ToSet
<1>19. ASSUME NEW s \in ToSet(ss), s.rel.path.block # NoBlock
       PROVE  \E b \in ToSet(P) : Covers(b.id, s.rel.path.block) /\ b.score >= s.score
  <2>1. PICK m \in ToSet(matches_) : m.id = s.rel.path.block /\ m.score = s.score
    BY <1>4, <1>7, <1>19
  <2>2. PICK i \in 1..Len(fields) : fields[i] = BlockField[m.id]
    BY <1>10, <1>11, <1>12 DEF ToSet
  <2>3. m \in ToSet(of(i))
    BY <1>13, <2>2
  <2>4. PICK b \in ToSet(parts[i]) : Stands(b, m)
    BY <1>14, <1>15, <2>3 DEF StandFor
  <2>5. b \in ToSet(P)
    BY <1>16, <1>17, <2>4 DEF Together
  <2>6. Covers(b.id, m.id) /\ b.score >= m.score
    BY <1>18, <2>2, <2>4 DEF Covers, Stands
  <2> QED
    BY <2>1, <2>5, <2>6
<1> DEFINE R == {p \in Hits \X Hits : ~ Covers(p[1].id, p[2].id) /\ ~ Covers(p[2].id, p[1].id)}
<1>20. \A x, y \in Hits : ~ Covers(x.id, y.id) /\ ~ Covers(y.id, x.id) => <<x, y>> \in R
  OBVIOUS
<1>21. \A i \in 1..Len(parts) : Pairwise(parts[i], R)
  <2>1. ASSUME NEW x, NEW y, <<x, y>> \in Later PROVE <<x, y>> \in R
    <3>1. /\ x \in Hits /\ y \in Hits
          /\ BlockStart[x.id] < BlockStart[y.id] /\ BlockEnd[x.id] < BlockEnd[y.id]
      BY <2>1 DEF Later
    <3>2. ~ Covers(x.id, y.id) /\ ~ Covers(y.id, x.id)
      BY <3>1, BlockSpans DEF Covers
    <3> QED
      BY <1>20, <3>1, <3>2
  <2> HIDE DEF R
  <2> QED
    BY <1>14, <1>15, <1>16, <2>1 DEF StandFor, Pairwise
<1>22. ASSUME NEW i \in 1..Len(parts), NEW j \in 1..Len(parts), i < j,
              NEW x \in ToSet(parts[i]), NEW y \in ToSet(parts[j])
       PROVE  <<x, y>> \in R
  <2>1. BlockField[x.id] = fields[i] /\ BlockField[y.id] = fields[j] /\ x \in Hits /\ y \in Hits
    BY <1>16, <1>18, <1>22
  <2>2. fields[i] # fields[j]
    <3>1. i # j
      BY <1>22
    <3> QED
      BY <1>10, <1>12, <1>16, <3>1
  <2> QED
    BY <1>20, <2>1, <2>2 DEF Covers
<1>23. Pairwise(P, R)
  <2> HIDE DEF R
  <2> QED
    BY <1>1, <1>16, <1>21, <1>22, JoinedOrdered
<1>24. ASSUME NEW i \in DOMAIN P, NEW j \in DOMAIN P, i # j PROVE ~ Covers(P[i].id, P[j].id)
  <2>1. i < j \/ j < i
    BY <1>17, <1>24
  <2>2. <<P[i], P[j]>> \in R \/ <<P[j], P[i]>> \in R
    BY <1>23, <2>1 DEF Pairwise
  <2> QED
    BY <2>2
<1> QED
  BY <1>17, <1>19, <1>24 DEF P

\* The texts of relations have scores.
LEMMA TextsValued ==
    ASSUME NEW ss, ScoredOK(ss)
    PROVE  Valued(TextsOf(ss))
<1> DEFINE X == {Triplet(s.rel) : s \in ToSet(ss)}
           triplets == SetToSeq(X)
           of(t) == Chosen(ss, {s \in ToSet(ss) : Triplet(s.rel) = t})
           P == TextsOf(ss)
           id(i) == IF Len(of(triplets[i])) = 1 /\ of(triplets[i])[1].rel.path.block # NoBlock
                    THEN of(triplets[i])[1].rel.path.block
                    ELSE RelationText(Last(of(triplets[i])).rel.resource, i)
<1>1. P = [i \in DOMAIN triplets |-> Block(id(i), of(triplets[i])[1].score)]
  BY DEF TextsOf
<1>2. DOMAIN ss = 1..Len(ss) /\ Len(ss) \in Nat /\ ss \in Seq(ToSet(ss))
  BY DEF ScoredOK
<1>3. IsFiniteSet(X)
  <2> DEFINE f == [i \in 1..Len(ss) |-> Triplet(ss[i].rel)]
  <2>1. DOMAIN f = 1..Len(ss) /\ X = {f[i] : i \in 1..Len(ss)}
    BY <1>2 DEF ToSet
  <2> HIDE DEF f, X
  <2> QED
    BY <1>2, <2>1, FiniteValues
<1>4. \A t \in X : \E s \in ToSet(ss) : Triplet(s.rel) = t
  OBVIOUS
<1> HIDE DEF X
<1>5. triplets \in Seq(X)
  BY <1>3, SetToSeqLists
<1> HIDE DEF triplets, P
<1>6. /\ DOMAIN triplets = 1..Len(triplets) /\ Len(triplets) \in Nat
      /\ \A i \in DOMAIN triplets : triplets[i] \in X
  BY <1>5
<1>7. ASSUME NEW t \in X PROVE of(t)[1].score \in Nat
  <2> DEFINE S == {s \in ToSet(ss) : Triplet(s.rel) = t}
             o == Chosen(ss, S)
  <2>1. of(t) = o /\ S # {}
    BY <1>4, <1>7
  <2>2. \A s \in S : s.score \in Nat
    BY DEF ScoredOK
  <2>3. S \subseteq ToSet(ss)
    OBVIOUS
  <2> HIDE DEF S
  <2>4. o \in Seq(S \cap ToSet(ss)) /\ ToSet(o) = ToSet(ss) \cap S
    BY <1>2, ChosenSeq, ChosenSet
  <2> HIDE DEF o
  <2>5. o # <<>>
    <3>1. ToSet(<<>>) = {}
      BY DEF ToSet
    <3> QED
      BY <2>1, <2>3, <2>4, <3>1
  <2>6. o[1] \in S \cap ToSet(ss)
    BY <2>4, <2>5
  <2> QED
    BY <2>1, <2>2, <2>6
<1> HIDE DEF of, id
<1>8. /\ DOMAIN P = 1..Len(triplets)
      /\ \A i \in 1..Len(triplets) : P[i] = Block(id(i), of(triplets[i])[1].score)
  BY <1>1, <1>6
<1>9. \A i \in 1..Len(triplets) : P[i].score \in Nat
  BY <1>6, <1>7, <1>8 DEF Block
<1>10. P \in Seq(ToSet(P))
  <2>1. \A i \in 1..Len(triplets) : P[i] \in ToSet(P)
    BY <1>8 DEF ToSet
  <2>2. P = [i \in 1..Len(triplets) |-> P[i]]
    BY <1>1, <1>6
  <2>3. P \in [1..Len(triplets) -> ToSet(P)]
    BY <2>1, <2>2
  <2> QED
    BY <1>6, <2>3
<1>11. \A x \in ToSet(P) : x.score \in Nat
  BY <1>8, <1>9 DEF ToSet
<1> QED
  BY <1>10, <1>11 DEF Valued, P

\* Blocks of the knowledge box with scores.
LEMMA HitsValued == ASSUME NEW s \in Seq(Hits) PROVE Valued(s)
<1>1. s \in Seq(ToSet(s)) /\ ToSet(s) \subseteq Hits
  BY OwnElements
<1> QED
  BY <1>1 DEF Valued, Hits

\* The relations that have scores are relations of the graph.
LEMMA ScoredRelations ==
    ASSUME GraphType, IsFiniteSet(DOMAIN relations)
    PROVE  ScoredOK(Scored)
<1> DEFINE V == DOMAIN relations \cap DOMAIN scores
           values == SetToSeq(V)
           R == UNION {ToSet(ScoredAt(v)) : v \in V}
           parts == [i \in DOMAIN values |-> ScoredAt(values[i])]
<1>1. Scored = Joined(parts)
  BY DEF Scored
<1>2. IsFiniteSet(V)
  BY FS_Subset
<1>3. V \subseteq DOMAIN relations /\ V \subseteq DOMAIN scores
  OBVIOUS
<1> HIDE DEF V
<1>4. values \in Seq(V)
  BY <1>2, SetToSeqLists
<1> HIDE DEF values
<1>5. ASSUME NEW v \in V
      PROVE  /\ ScoredAt(v) \in Seq(ToSet(ScoredAt(v)))
             /\ \A s \in ToSet(ScoredAt(v)) :
                  s.score \in Nat /\ s.rel.path.block \in Blocks \cup {NoBlock}
  <2> DEFINE n == IF Len(scores[v]) < Len(relations[v]) THEN Len(scores[v]) ELSE Len(relations[v])
             w == ScoredAt(v)
  <2>1. scores[v] \in Seq(Nat) /\ RelationsOf(relations[v], strategy.paths)
    BY <1>3, <1>5 DEF GraphType
  <2>2. /\ relations[v] \in Seq(ToSet(relations[v]))
        /\ \A rel \in ToSet(relations[v]) : rel.path \in ToSet(strategy.paths)
    BY <2>1 DEF RelationsOf
  <2>3. w = [i \in 1..n |-> [rel |-> relations[v][i], score |-> scores[v][i]]]
    BY DEF ScoredAt
  <2>4. /\ Len(scores[v]) \in Nat /\ Len(relations[v]) \in Nat
        /\ \A i \in 1..Len(scores[v]) : scores[v][i] \in Nat
    BY <2>1, <2>2
  <2>5. \A i \in 1..Len(relations[v]) : relations[v][i] \in ToSet(relations[v])
    BY <2>2 DEF ToSet
  <2>6. n \in Nat /\ n <= Len(scores[v]) /\ n <= Len(relations[v])
    BY <2>4
  <2> HIDE DEF n, w
  <2>7. /\ DOMAIN w = 1..n
        /\ \A i \in 1..n : w[i].score \in Nat /\ w[i].rel \in ToSet(relations[v])
    BY <2>3, <2>4, <2>5, <2>6
  <2>8. w \in Seq(ToSet(w))
    <3>1. \A i \in 1..n : w[i] \in ToSet(w)
      BY <2>7 DEF ToSet
    <3>2. w = [i \in 1..n |-> w[i]]
      BY <2>3
    <3>3. w \in [1..n -> ToSet(w)]
      BY <3>1, <3>2
    <3> QED
      BY <2>6, <3>3
  <2>9. \A p \in ToSet(strategy.paths) : p.block \in Blocks \cup {NoBlock}
    BY DEF GraphType, StrategyOK
  <2>10. \A s \in ToSet(w) : s.score \in Nat /\ s.rel \in ToSet(relations[v])
    BY <2>7 DEF ToSet
  <2> QED
    BY <2>2, <2>8, <2>9, <2>10 DEF w
<1>6. \A v \in V : ScoredAt(v) \in Seq(R)
  <2>1. \A v \in V : ToSet(ScoredAt(v)) \subseteq R
    OBVIOUS
  <2> HIDE DEF R
  <2> QED
    BY <1>5, <2>1, SeqOfLarger
<1>7. \A s \in R : s.score \in Nat /\ s.rel.path.block \in Blocks \cup {NoBlock}
  BY <1>5
<1> HIDE DEF R
<1>8. parts \in Seq(Seq(R))
  <2> DEFINE A == Seq(R)
  <2>1. DOMAIN values = 1..Len(values) /\ Len(values) \in Nat /\ \A i \in DOMAIN values : values[i] \in V
    BY <1>4
  <2>2. \A i \in DOMAIN values : ScoredAt(values[i]) \in A
    BY <1>6, <2>1
  <2> HIDE DEF A
  <2>3. parts \in [1..Len(values) -> A]
    BY <2>1, <2>2
  <2> HIDE DEF parts
  <2>4. parts \in Seq(A)
    BY <2>1, <2>3
  <2> QED
    BY <2>4 DEF A
<1> HIDE DEF parts
<1>9. Scored \in Seq(R)
  BY <1>1, <1>8, JoinedSeq
<1>10. Scored \in Seq(ToSet(Scored)) /\ ToSet(Scored) \subseteq R
  BY <1>9, OwnElements
<1> QED
  BY <1>7, <1>10 DEF ScoredOK

---------------------------------------------------------------------------
(***************************************************************************)
(* What the graph strategy builds.                                         *)
(***************************************************************************)

\* Entities and relations have the names of the graph, which are finitely many, and
\* what is built has scores and leaves no paragraph in another.
BlocksInv ==
  /\ Names(explore) \subseteq Names(Ends(strategy.paths))
  /\ DOMAIN relations \subseteq Names(Ends(strategy.paths))
  /\ Valued(blocks)
  /\ ContainedMerged

\* The names of a graph.
LEMMA FiniteNames ==
    ASSUME StrategyOK(strategy)
    PROVE  IsFiniteSet(Names(Ends(strategy.paths)))
<1> DEFINE ps == strategy.paths
           f == [i \in 1..Len(ps) |-> ps[i].src[1]]
           g == [i \in 1..Len(ps) |-> ps[i].dst[1]]
           A == {f[i] : i \in 1..Len(ps)}
           B == {g[i] : i \in 1..Len(ps)}
<1>1. DOMAIN ps = 1..Len(ps) /\ Len(ps) \in Nat
  BY DEF StrategyOK
<1>2. ToSet(ps) = {ps[i] : i \in 1..Len(ps)}
  BY <1>1 DEF ToSet
<1>3. Names(Ends(ps)) = A \cup B
  <2>1. ASSUME NEW x \in Names(Ends(ps)) PROVE x \in A \cup B
    <3>1. PICK e \in Ends(ps) : x = e[1]
      BY <2>1 DEF Names
    <3>2. PICK p \in ToSet(ps) : e = p.src \/ e = p.dst
      BY <3>1 DEF Ends
    <3>3. PICK i \in 1..Len(ps) : p = ps[i]
      BY <1>2, <3>2
    <3>4. f[i] \in A /\ g[i] \in B /\ f[i] = p.src[1] /\ g[i] = p.dst[1]
      BY <3>3
    <3> QED
      BY <3>1, <3>2, <3>4
  <2>2. ASSUME NEW i \in 1..Len(ps) PROVE f[i] \in Names(Ends(ps)) /\ g[i] \in Names(Ends(ps))
    <3>1. ps[i] \in ToSet(ps)
      BY <1>2
    <3>2. ps[i].src \in Ends(ps) /\ ps[i].dst \in Ends(ps)
      BY <3>1 DEF Ends
    <3> QED
      BY <3>2 DEF Names
  <2> QED
    BY <2>1, <2>2
<1>4. DOMAIN f = 1..Len(ps) /\ DOMAIN g = 1..Len(ps)
  OBVIOUS
<1> HIDE DEF f, g, ps
<1>5. IsFiniteSet(A) /\ IsFiniteSet(B)
  BY <1>1, <1>4, FiniteValues
<1> HIDE DEF A, B
<1>6. IsFiniteSet(A \cup B)
  BY <1>5, FS_Union
<1> QED
  BY <1>3, <1>6 DEF ps

\* The step that builds the paragraphs of the graph strategy.
LEMMA BuildKeeps == ASSUME GraphInv, BlocksInv, BuildBlocks PROVE BlocksInv'
<1>1. /\ step' = "built" /\ strategy' = strategy /\ explore' = explore /\ relations' = relations
      /\ scores' = scores
      /\ blocks' = IF strategy.text THEN TextsOf(Scored) ELSE ParagraphsOf(Scored)
  BY DEF BuildBlocks
<1>2. IsFiniteSet(DOMAIN relations)
  <2>1. IsFiniteSet(Names(Ends(strategy.paths)))
    BY FiniteNames DEF GraphInv, GraphType
  <2> QED
    BY <2>1, FS_Subset DEF BlocksInv
<1>3. ScoredOK(Scored)
  BY <1>2, ScoredRelations DEF GraphInv
<1>4. /\ Names(explore') \subseteq Names(Ends(strategy'.paths))
      /\ DOMAIN relations' \subseteq Names(Ends(strategy'.paths))
  BY <1>1 DEF BlocksInv
<1>5. Scored' = Scored
  BY <1>1 DEF Scored, ScoredAt
<1> DEFINE ss == Scored
<1>6. ScoredOK(ss)
  BY <1>3
<1> HIDE DEF ss
<1>7. CASE strategy.text
  <2>1. Valued(blocks')
    BY <1>1, <1>6, <1>7, TextsValued DEF ss
  <2>2. ContainedMerged'
    BY <1>1, <1>7 DEF ContainedMerged
  <2> QED
    BY <1>4, <2>1, <2>2 DEF BlocksInv
<1>8. CASE ~ strategy.text
  <2> DEFINE P == ParagraphsOf(ss)
  <2>1. blocks' = P
    BY <1>1, <1>8 DEF ss
  <2>2. /\ P \in Seq(Hits)
        /\ \A s \in ToSet(ss) :
             s.rel.path.block # NoBlock =>
               \E b \in ToSet(P) : Covers(b.id, s.rel.path.block) /\ b.score >= s.score
        /\ \A i, j \in DOMAIN P : i # j => ~ Covers(P[i].id, P[j].id)
    BY <1>6, ParagraphsStand
  <2> HIDE DEF P
  <2>3. Valued(blocks')
    BY <2>1, <2>2, HitsValued
  <2>4. Scored' = ss
    BY <1>5 DEF ss
  <2>5. ContainedMerged'
    BY <2>1, <2>2, <2>4 DEF ContainedMerged
  <2> QED
    BY <1>4, <2>3, <2>5 DEF BlocksInv
<1> QED
  BY <1>7, <1>8

\* The other steps of the strategy.
LEMMA NamesKeep ==
    ASSUME GraphInv, BlocksInv, GraphNext, ~ BuildBlocks
    PROVE  BlocksInv'
<1>1. strategy' = strategy /\ blocks' = blocks /\ step' # "built"
  BY DEF GraphNext, DetectEntities, NextFrontier, FindNeighbours, FailNeighbours, EndHop, Explore,
         RankRelations, FailRanking
<1>2. ContainedMerged' /\ Valued(blocks')
  BY <1>1 DEF ContainedMerged, BlocksInv
<1> DEFINE G == Names(Ends(strategy.paths))
<1>3. Names(explore) \subseteq G /\ DOMAIN relations \subseteq G /\ GraphType
  BY DEF BlocksInv, GraphInv
<1> SUFFICES Names(explore') \subseteq G /\ DOMAIN relations' \subseteq G
  BY <1>1, <1>2 DEF BlocksInv
<1>4. CASE DetectEntities
  <2>1. PICK nodes \in SUBSET Detectable : Explore(nodes)
    BY <1>4 DEF DetectEntities
  <2>2. explore' = nodes /\ relations' = relations
    BY <1>4, <2>1 DEF DetectEntities, Explore
  <2>3. Names(Detectable) \subseteq G
    BY DEF Detectable, Names
  <2> QED
    BY <1>3, <2>2, <2>3 DEF Names
<1>5. CASE NextFrontier
  <2>1. /\ explore' = {Related(rel) : rel \in AllRelations(relations)} \ explored
        /\ relations' = relations
    BY <1>5 DEF NextFrontier, Explore
  <2>2. \A rel \in AllRelations(relations) : Related(rel) \in Ends(strategy.paths)
    BY <1>3, RelatedEnds
  <2>3. explore' \subseteq Ends(strategy.paths)
    BY <2>1, <2>2
  <2> QED
    BY <1>3, <2>1, <2>3 DEF Names
<1>6. ASSUME NEW paths, NEW new, EndHop(paths, new), DOMAIN new \subseteq Names(explore)
      PROVE  Names(explore') \subseteq G /\ DOMAIN relations' \subseteq G
  <2>1. explore' = explore /\ relations' = With(new, relations)
    BY <1>6 DEF EndHop
  <2>2. DOMAIN relations' = DOMAIN new \cup DOMAIN relations
    BY <2>1 DEF With
  <2> QED
    BY <1>3, <1>6, <2>1, <2>2
<1>7. CASE FindNeighbours
  BY <1>6, <1>7, NewNames DEF FindNeighbours
<1>8. CASE FailNeighbours
  <2>1. DOMAIN Empty = {}
    BY DEF Empty
  <2>2. CASE hop = 0
    BY <1>3, <1>8, <2>2 DEF FailNeighbours
  <2>3. CASE hop # 0
    BY <1>6, <1>8, <2>1, <2>3 DEF FailNeighbours
  <2> QED
    BY <2>2, <2>3
<1>9. CASE RankRelations
  <2> DEFINE triplets == {Triplet(rel) : rel \in AllRelations(relations)}
  <2>1. explore' = explore
    BY <1>9 DEF RankRelations
  <2>2. PICK given \in [triplets -> Scores] : \E top \in Best(given, RankedK) :
          LET kept == {t \in top : given[t] > 0}
              values == {v \in DOMAIN relations :
                           \E rel \in ToSet(relations[v]) : Triplet(rel) \in kept}
              ranked == [v \in values |-> RankedAt(relations[v], given, kept)]
          IN /\ relations' = ranked
             /\ scores' = [v \in values |-> [i \in DOMAIN ranked[v] |-> given[Triplet(ranked[v][i])]]]
    BY <1>9 DEF RankRelations
  <2>3. DOMAIN relations' \subseteq DOMAIN relations
    BY <2>2
  <2> QED
    BY <1>3, <2>1, <2>3
<1>10. CASE FailRanking
  <2>1. explore' = explore /\ DOMAIN relations' = {}
    BY <1>10 DEF FailRanking, Empty
  <2> QED
    BY <1>3, <2>1
<1> QED
  BY <1>4, <1>5, <1>7, <1>8, <1>9, <1>10 DEF GraphNext

\* Every step of an ask keeps what is known of these paragraphs.
LEMMA BlocksStep == GraphInv /\ BlocksInv /\ [Next]_vars => BlocksInv'
<1> SUFFICES ASSUME GraphInv, BlocksInv, [Next]_vars PROVE BlocksInv'
  OBVIOUS
<1>1. ASSUME graphVars' = graphVars PROVE BlocksInv'
  <2>1. /\ strategy' = strategy /\ step' = step /\ explore' = explore /\ relations' = relations
        /\ scores' = scores /\ blocks' = blocks
    BY <1>1 DEF graphVars
  <2>2. ContainedMerged' = ContainedMerged
    BY <2>1 DEF ContainedMerged, Scored, ScoredAt
  <2>3. Valued(blocks')
    BY <2>1 DEF BlocksInv
  <2> QED
    BY <2>1, <2>2, <2>3 DEF BlocksInv
<1>2. CASE Hop
  BY <1>2, BuildKeeps, NamesKeep DEF Hop
<1>3. CASE UNCHANGED vars
  BY <1>1, <1>3 DEF vars
<1>4. CASE \E x \in {BlockResource[b] : b \in Blocks} : DeleteResource(x)
  BY <1>1, <1>4 DEF DeleteResource
<1>5. CASE ParseFind \/ FailFind \/ Retrieve \/ HydrateAndRerank \/ FailGraph \/ RerankGraph
  BY <1>1, <1>5 DEF ParseFind, FailFind, Fail, Retrieve, HydrateAndRerank, FailGraph, RerankGraph
<1> QED
  BY <1>2, <1>3, <1>4, <1>5 DEF Next

\* An ask that begins has none of them.
LEMMA BlocksInit == Init => BlocksInv
<1> SUFFICES ASSUME Init PROVE BlocksInv
  OBVIOUS
<1>1. step = "entities" /\ explore = {} /\ DOMAIN relations = {} /\ blocks = <<>>
  BY DEF Init, GraphInit, Empty
<1>2. Valued(<<>>)
  BY DEF Valued, ToSet
<1> QED
  BY <1>1, <1>2 DEF BlocksInv, ContainedMerged, Names

\* Paragraphs of the graph strategy have scores, and cover the paragraphs of the
\* relations that were scored, none of them inside another.
THEOREM BlocksKept == Spec => []BlocksInv
<1> QED
  BY BlocksInit, BlocksStep, GraphKept, PTL DEF Spec, vars

\* get_paragraph_info_from_relations loses no paragraph of a scored relation, and
\* leaves none that is in another: one pass over the blocks of a field, in the order
\* of their starts and the longer first, is enough.
THEOREM NoParagraphInAnother == Spec => []ContainedMerged
<1>1. BlocksInv => ContainedMerged
  BY DEF BlocksInv
<1> QED
  BY <1>1, BlocksKept, PTL

---------------------------------------------------------------------------
(***************************************************************************)
(* The best matches.                                                       *)
(***************************************************************************)

\* Items picked from others.
LEMMA PickedValued ==
    ASSUME NEW items, Valued(items), NEW I
    PROVE  Valued(Picked(items, I)) /\ ToSet(Picked(items, I)) \subseteq ToSet(items)
<1> DEFINE T == ToSet(items)
           w == Picked(items, I)
<1>1. items \in Seq(T) /\ \A x \in T : x.score \in Nat
  BY DEF Valued
<1> HIDE DEF T
<1>2. w \in Seq(T)
  BY <1>1, PickedElements
<1> HIDE DEF w
<1>3. w \in Seq(ToSet(w)) /\ ToSet(w) \subseteq T
  BY <1>2, OwnElements
<1> QED
  BY <1>1, <1>3 DEF Valued, w, T

\* The first of them.
LEMMA FirstValued ==
    ASSUME NEW items, Valued(items), NEW n \in Nat
    PROVE  Valued(FirstN(items, n)) /\ ToSet(FirstN(items, n)) \subseteq ToSet(items)
<1> DEFINE T == ToSet(items)
           m == IF n < Len(items) THEN n ELSE Len(items)
           w == FirstN(items, n)
<1>1. items \in Seq(T) /\ \A x \in T : x.score \in Nat
  BY DEF Valued
<1> HIDE DEF T
<1>2. m \in Int /\ m <= Len(items)
  BY <1>1
<1>3. w = SubSeq(items, 1, m)
  BY DEF FirstN
<1> HIDE DEF m, w
<1>4. w \in Seq(T)
  BY <1>1, <1>2, <1>3, PartSeq
<1>5. w \in Seq(ToSet(w)) /\ ToSet(w) \subseteq T
  BY <1>4, OwnElements
<1> QED
  BY <1>1, <1>5 DEF Valued, w, T

\* The windows of the rerankers.
LEMMA WindowNat == ASSUME NEW q, FindOK(q) PROVE RerankWindow(q) \in Nat
<1>1. q.topK \in Nat /\ q.window \in Nat /\ MaxWindow \in Nat
  BY RequestsAssumption DEF FindOK
<1> QED
  BY <1>1 DEF RerankWindow, SmallerOf, LargerOf

\* What a reranker leaves.
LEMMA PredictValued ==
    ASSUME NEW items, Valued(items), NEW n \in Nat,
           NEW given \in [{x.id : x \in ToSet(items)} -> Scores \ {0}]
    PROVE  Valued(PredictRerank(items, n, given))
<1> DEFINE first == FirstN(items, n)
           cut == OneOfEach(first)
           w == [i \in DOMAIN cut |-> Item(cut[i].id, given[cut[i].id])]
<1>1. Valued(first) /\ ToSet(first) \subseteq ToSet(items)
  BY FirstValued
<1>2. PredictRerank(items, n, given) = ByScore(w)
  BY DEF PredictRerank
<1> HIDE DEF first
<1>3. Valued(cut) /\ ToSet(cut) \subseteq ToSet(first)
  BY <1>1, PickedValued DEF OneOfEach
<1> HIDE DEF cut
<1>4. DOMAIN cut = 1..Len(cut) /\ Len(cut) \in Nat /\ \A i \in DOMAIN cut : cut[i] \in ToSet(items)
  BY <1>1, <1>3 DEF Valued
<1>5. \A i \in 1..Len(cut) : given[cut[i].id] \in Nat
  <2>1. \A i \in 1..Len(cut) : given[cut[i].id] \in Scores
    BY <1>4
  <2> QED
    BY <2>1, RequestsAssumption
<1>6. \A i \in 1..Len(cut) : w[i].score \in Nat
  BY <1>4, <1>5 DEF Item
<1>7. w = [i \in 1..Len(cut) |-> w[i]] /\ DOMAIN w = 1..Len(cut)
  BY <1>4
<1> HIDE DEF w
<1>8. w \in Seq(ToSet(w))
  <2>1. \A i \in 1..Len(cut) : w[i] \in ToSet(w)
    BY <1>7 DEF ToSet
  <2>2. w \in [1..Len(cut) -> ToSet(w)]
    BY <1>7, <2>1
  <2> QED
    BY <1>4, <2>2
<1>9. Valued(w)
  BY <1>6, <1>7, <1>8 DEF Valued, ToSet
<1> QED
  BY <1>2, <1>9, ByScoreOrders

\* In the results each block is once.
LEMMA ShownOnce ==
    ASSUME NEW items, Valued(items), NEW present
    PROVE  Valued(Shown(items, present)) /\ OncePerId(Shown(items, present))
<1> DEFINE T == ToSet(items)
           I == {i \in DOMAIN items : /\ items[i].id \in present
                                      /\ \A j \in (i + 1)..Len(items) : items[j].id # items[i].id}
           w == Picked(items, I)
<1>1. Shown(items, present) = w
  BY DEF Shown
<1>2. items \in Seq(T) /\ DOMAIN items = 1..Len(items) /\ Len(items) \in Nat
  BY DEF Valued
<1>3. \A k, l \in I : k < l => items[k].id # items[l].id
  BY <1>2
<1>4. I \subseteq DOMAIN items /\ I \subseteq Nat
  BY <1>2
<1> HIDE DEF I, T
<1>5. Valued(w)
  BY PickedValued
<1>6. \A i, j \in DOMAIN w : i # j => TwoPlaces(items, I \cap DOMAIN items, w[i], w[j])
  BY <1>2, PickedElements
<1> HIDE DEF w
<1>7. ASSUME NEW i \in DOMAIN w, NEW j \in DOMAIN w, w[i].id = w[j].id, i # j PROVE FALSE
  <2>1. PICK k \in I, l \in I : k # l /\ w[i] = items[k] /\ w[j] = items[l]
    BY <1>6, <1>7 DEF TwoPlaces
  <2>2. k < l \/ l < k
    BY <1>4, <2>1
  <2> QED
    BY <1>3, <1>7, <2>1, <2>2
<1> QED
  BY <1>1, <1>5, <1>7 DEF OncePerId

\* hydrate_and_rerank leaves a source with one item of each block.
LEMMA HydratedOnce ==
    ASSUME NEW items, Valued(items), NEW q, FindOK(q), NEW topK \in Nat,
           NEW found \in Hydrated(items, q, topK)
    PROVE  Valued(found) /\ OncePerId(found)
<1> DEFINE ids == {x.id : x \in ToSet(items)}
           window == RerankWindow(q)
           ranks == IF q.reranker = "noop" THEN {NoopRerank(items)}
                    ELSE {FailedRerank(items, window)}
                         \cup {PredictRerank(items, window, given) : given \in [ids -> Scores \ {0}]}
<1>1. PICK ranking \in ranks : found = Shown(BestBlocks(ranking, topK), Present(ids))
  BY DEF Hydrated
<1>2. window \in Nat
  BY WindowNat
<1>3. Valued(ranking)
  <2>1. CASE ranking = NoopRerank(items)
    BY <2>1 DEF NoopRerank
  <2>2. CASE ranking = FailedRerank(items, window)
    BY <1>2, <2>2, FirstValued, ByScoreOrders DEF FailedRerank
  <2>3. ASSUME NEW given \in [ids -> Scores \ {0}], ranking = PredictRerank(items, window, given)
        PROVE  Valued(ranking)
    BY <1>2, <2>3, PredictValued
  <2>4. \/ ranking = NoopRerank(items) \/ ranking = FailedRerank(items, window)
        \/ \E given \in [ids -> Scores \ {0}] : ranking = PredictRerank(items, window, given)
    BY <1>1
  <2> QED
    BY <2>1, <2>2, <2>3, <2>4
<1>4. Valued(BestBlocks(ranking, topK))
  BY <1>3, FirstValued, ByScoreOrders DEF BestBlocks
<1> QED
  BY <1>1, <1>4, ShownOnce

\* Each source has one item of a block, and the best matches are those of all of them.
SourcesInv ==
  /\ \A s \in ToSet(sources) : SourceOK(s)
  /\ stage = "done" => BestOf(sources, best)

\* compute_best_matches.
LEMMA JudgeBest ==
    ASSUME NEW found, found \in Seq(ToSet(found)), \A s \in ToSet(found) : SourceOK(s),
           Judge(found), sources' = found
    PROVE  SourcesInv'
<1>1. ASSUME stage' = "done" PROVE best' = Fuse(found)
  BY <1>1 DEF Judge, Goto
<1>2. stage' = "done" => BestOf(sources', best')
  BY <1>1, FuseBest
<1> QED
  BY <1>2 DEF SourcesInv

\* Every step of an ask keeps what is known of its sources and of its best matches.
LEMMA SourcesStep ==
    CourseInv /\ FoundInv /\ BlocksInv /\ SourcesInv /\ [Next]_vars => SourcesInv'
<1> SUFFICES ASSUME CourseInv, FoundInv, BlocksInv, SourcesInv, [Next]_vars PROVE SourcesInv'
  OBVIOUS
<1>0. ASSUME sources' = sources, stage' # "done" \/ (stage' = stage /\ best' = best)
      PROVE  SourcesInv'
  BY <1>0 DEF SourcesInv
<1>1. CASE UNCHANGED vars
  BY <1>0, <1>1 DEF vars, kbVars
<1>2. ASSUME NEW x \in {BlockResource[b] : b \in Blocks}, DeleteResource(x) PROVE SourcesInv'
  BY <1>0, <1>2 DEF DeleteResource
<1>3. CASE ParseFind \/ FailFind \/ Retrieve \/ FailGraph
  BY <1>0, <1>3 DEF ParseFind, FailFind, Fail, Retrieve, FailGraph, Goto
<1>4. CASE HydrateAndRerank
  <2>1. PICK items \in Hydrated(matches, Query, Query.topK) :
          LET source == Source(request.weights[Len(sources) + 1], items)
              found == IF IsMain THEN <<source>> \o sources ELSE Append(sources, source)
          IN /\ sources' = found
             /\ IF ~ IsMain THEN Goto("parse") /\ UNCHANGED best
                ELSE IF request.graph THEN Goto("graph") /\ UNCHANGED best
                ELSE Judge(found)
    BY <1>4 DEF HydrateAndRerank
  <2> DEFINE source == Source(request.weights[Len(sources) + 1], items)
             found == IF IsMain THEN <<source>> \o sources ELSE Append(sources, source)
  <2>2. /\ sources' = found
        /\ IF ~ IsMain THEN Goto("parse") /\ UNCHANGED best
           ELSE IF request.graph THEN Goto("graph") /\ UNCHANGED best
           ELSE Judge(found)
    BY <2>1
  <2>3. stage = "rerank"
    BY <1>4 DEF HydrateAndRerank
  <2>4. /\ Len(request.queries) \in Nat /\ Len(sources) \in Nat /\ Len(sources) < Len(request.queries)
        /\ request.weights[Len(sources) + 1] \in Nat
    <3>1. Len(request.queries) \in Nat /\ Len(sources) \in Nat /\ Len(sources) < Len(request.queries)
      BY <2>3, RequestParts DEF CourseInv
    <3>2. Len(sources) + 1 \in 1..Len(request.queries)
      BY <3>1
    <3> QED
      BY <3>1, <3>2, RequestParts DEF CourseInv
  <2>5. FindOK(Query) /\ Query.topK \in Nat
    BY <2>3, QueryOK DEF FindOK
  <2>6. Valued(matches)
    BY HitsValued DEF FoundInv
  <2>7. Valued(items) /\ OncePerId(items)
    BY <2>5, <2>6, HydratedOnce
  <2>8. SourceOK(source)
    BY <2>4, <2>7 DEF Source, SourceOK
  <2> HIDE DEF source
  <2>9. found \in Seq(ToSet(found)) /\ ToSet(found) = ToSet(sources) \cup {source}
    BY OneSourceMore DEF CourseInv
  <2> HIDE DEF found
  <2>10. \A s \in ToSet(found) : SourceOK(s)
    BY <2>8, <2>9 DEF SourcesInv
  <2>11. CASE Judge(found)
    BY <2>2, <2>9, <2>10, <2>11, JudgeBest
  <2>12. CASE stage' \in {"parse", "graph"}
    BY <2>2, <2>10, <2>12 DEF SourcesInv
  <2> QED
    BY <2>2, <2>11, <2>12 DEF Goto
<1>5. CASE Hop
  BY <1>0, <1>5 DEF Hop, kbVars
<1>6. CASE RerankGraph
  <2>1. PICK items \in Hydrated(blocks, MainQuery, strategy.topK) :
          LET found == Append(sources, Source(strategy.weight, items))
          IN sources' = found /\ Judge(found)
    BY <1>6 DEF RerankGraph
  <2> DEFINE source == Source(strategy.weight, items)
             found == Append(sources, source)
  <2>2. sources' = found /\ Judge(found)
    BY <2>1
  <2>3. FindOK(MainQuery) /\ strategy.topK \in Nat /\ strategy.weight \in Nat
    <3>1. StrategyOK(strategy)
      BY RequestParts DEF CourseInv
    <3>2. Len(request.queries) \in 1..Len(request.queries)
      BY RequestParts DEF CourseInv
    <3>3. FindOK(MainQuery)
      BY <3>2, RequestParts DEF CourseInv, MainQuery
    <3> QED
      BY <3>1, <3>3 DEF StrategyOK
  <2>4. Valued(items) /\ OncePerId(items)
    BY <2>3, HydratedOnce DEF BlocksInv
  <2>5. SourceOK(source)
    BY <2>3, <2>4 DEF Source, SourceOK
  <2> HIDE DEF source
  <2>6. found \in Seq(ToSet(found)) /\ ToSet(found) = ToSet(sources) \cup {source}
    BY OneSourceMore DEF CourseInv
  <2> HIDE DEF found
  <2>7. \A s \in ToSet(found) : SourceOK(s)
    BY <2>5, <2>6 DEF SourcesInv
  <2> QED
    BY <2>2, <2>6, <2>7, JudgeBest
<1> QED
  BY <1>1, <1>2, <1>3, <1>4, <1>5, <1>6 DEF Next

\* What a source is: each of its paragraphs once, with a score and its weight.
THEOREM SourcesKept == Spec => []SourcesInv
<1>1. Init => SourcesInv
  <2>1. Init => sources = <<>> /\ stage = "parse"
    BY DEF Init
  <2>2. ToSet(<<>>) = {}
    BY DEF ToSet
  <2> QED
    BY <2>1, <2>2 DEF SourcesInv
<1> QED
  BY <1>1, SourcesStep, Course, Found, BlocksKept, PTL DEF Spec, vars

\* compute_best_matches leaves out no paragraph, has each once, and puts none before
\* one whose weighted scores sum up to more: for any number of sources, weights and
\* scores, and also where a source that is alone with results is not weighted.
THEOREM RankedBest == Spec => []BestMatchesRanked
<1>1. SourcesInv => BestMatchesRanked
  <2> SUFFICES ASSUME SourcesInv, stage = "done" PROVE BestMatchesRanked
    BY DEF BestMatchesRanked
  <2>1. BestOf(sources, best)
    BY DEF SourcesInv
  <2>2. \A id : WeightedScore(id) = ScoreOf(sources, id)
    BY DEF WeightedScore, ScoreOf
  <2> QED
    BY <2>1, <2>2 DEF BestOf, BestMatchesRanked, Ids
<1> QED
  BY <1>1, SourcesKept, PTL
=============================================================================
