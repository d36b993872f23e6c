---------------------------- MODULE GraphStrategy ----------------------------
(***************************************************************************)
(* get_graph_results of ask/search/graph_strategy.py: hop by hop, from the *)
(* entities of the query, the paths of the knowledge graph around what was *)
(* found are fetched and their relations ranked, and the paragraphs the    *)
(* relations come from are the results.  The graph, the search in it and   *)
(* the models that rank are external.                                      *)
(*                                                                         *)
(* A node is a pair of a value and a group; a relation is a path seen from *)
(* one of its ends.                                                        *)
(***************************************************************************)
EXTENDS TextBlocks, Naturals, Sequences, FiniteSets, SequencesExt, Subsequences

CONSTANTS
  NoBlock,       \* a path without metadata
  NoGroup,       \* the group of an entity that predict detects: any
  Scores,        \* the scores of a ranking; 0 is one that is not above the threshold
  MaxEval        \* max_rels_to_eval

Path(src, label, dst, block) == [src |-> src, label |-> label, dst |-> dst, block |-> block]

VARIABLES
  strategy,  \* the GraphStrategy of the request, and the graph it finds
  step,      \* entities, neighbours, rank, build, built or failed
  hop,
  explore,   \* entities_to_explore
  explored,  \* explored_entities
  response,  \* graph_response: that of the last call that did not fail
  relations, \* value -> its relations
  scores,    \* value -> their scores
  blocks     \* the text blocks to hydrate

graphVars == <<strategy, step, hop, explore, explored, response, relations, scores, blocks>>

Empty == <<>>

GraphInit ==
  /\ step = "entities" /\ hop = 0
  /\ explore = {} /\ explored = {}
  /\ response = <<>>
  /\ relations = Empty /\ scores = Empty
  /\ blocks = <<>>

Ends(paths) == {p.src : p \in ToSet(paths)} \cup {p.dst : p \in ToSet(paths)}

(***************************************************************************)
(* The entities of a hop.  A failure to detect any is as good as none.     *)
(***************************************************************************)
Detectable ==
  IF strategy.detection = "suggest" THEN Ends(strategy.paths)
  ELSE {<<n[1], NoGroup>> : n \in Ends(strategy.paths)}

Explore(nodes) ==
  /\ explore' = nodes
  /\ step' = IF nodes = {} THEN "build" ELSE "neighbours"

DetectEntities ==
  /\ step = "entities" /\ hop = 0
  /\ \E nodes \in SUBSET Detectable : Explore(nodes)
  /\ UNCHANGED <<strategy, hop, explored, response, relations, scores, blocks>>

Related(rel) == IF rel.out THEN rel.path.dst ELSE rel.path.src
AllRelations(rels) == UNION {ToSet(rels[v]) : v \in DOMAIN rels}

\* Mutant: the entities that were explored are explored again.
NextFrontierAgain ==
  /\ step = "entities" /\ hop > 0
  /\ Explore({Related(rel) : rel \in AllRelations(relations)})
  /\ UNCHANGED <<strategy, hop, explored, response, relations, scores, blocks>>

NextFrontier ==
  /\ step = "entities" /\ hop > 0
  /\ Explore({Related(rel) : rel \in AllRelations(relations)} \ explored)
  /\ UNCHANGED <<strategy, hop, explored, response, relations, scores, blocks>>

(***************************************************************************)
(* find_graph_neighbours and merge_relations_results                       *)
(***************************************************************************)
IsNode(node, pattern) == node[1] = pattern[1] /\ pattern[2] \in {NoGroup, node[2]}

Touches(path, patterns) ==
  \E pattern \in patterns : IsNode(path.src, pattern) \/ IsNode(path.dst, pattern)

Neighbourhood ==
  Chosen(strategy.paths,
         {p \in ToSet(strategy.paths) : Touches(p, explore) /\ ~ Touches(p, explored)})

\* The resource of a path without metadata is that of the path before it.
ResourceAt(paths, i) ==
  LET known == {j \in 1..i : paths[j].block # NoBlock}
  IN BlockResource[paths[CHOOSE j \in known : \A k \in known : k <= j].block]

\* A path is listed with its source if the source was asked for, else with its
\* destination.
MergedAt(paths, v, values) ==
  LET usable(p) == strategy.text \/ p.block # NoBlock
      listed(p) == p.src[1] = v \/ (p.dst[1] = v /\ p.src[1] \notin values)
      mine == Places(paths, {i \in DOMAIN paths : usable(paths[i]) /\ listed(paths[i])})
  IN [k \in DOMAIN mine |->
        [path |-> paths[mine[k]], out |-> paths[mine[k]].src[1] = v,
         resource |-> ResourceAt(paths, mine[k])]]

MergeFails(paths) == strategy.text /\ paths # <<>> /\ paths[1].block = NoBlock

NewRelations(paths) ==
  LET values == {n[1] : n \in explore}
  IN IF MergeFails(paths) THEN Empty ELSE [v \in values |-> MergedAt(paths, v, values)]

\* The relations of a hop take the place of earlier ones of the same name.
With(new, old) ==
  [v \in DOMAIN new \cup DOMAIN old |-> IF v \in DOMAIN new THEN new[v] ELSE old[v]]

\* With nothing new around the hop is the last, and its relations are not ranked.
EndHop(paths, new) ==
  /\ relations' = With(new, relations)
  /\ response' = paths
  /\ IF Ends(paths) \subseteq explore \cup explored
     THEN step' = "build" /\ UNCHANGED explored
     ELSE step' = "rank" /\ explored' = explored \cup explore
  /\ UNCHANGED <<strategy, hop, explore, scores, blocks>>

FindNeighbours ==
  /\ step = "neighbours"
  /\ EndHop(Neighbourhood, NewRelations(Neighbourhood))

\* The handler goes on with graph_response, which in the first hop is unbound.
FailNeighbours ==
  /\ step = "neighbours"
  /\ IF hop = 0
     THEN step' = "failed"
            /\ UNCHANGED <<strategy, hop, explore, explored, response, relations, scores, blocks>>
     ELSE EndHop(response, Empty)

(***************************************************************************)
(* rank_relations_reranker and rank_relations_generative: a triplet is     *)
(* scored once, and its score is that of each relation it stands for.      *)
(***************************************************************************)
Triplet(rel) == <<rel.path.src[1], rel.path.label, rel.path.dst[1]>>

CountRelations(rels) ==
  LET values == SetToSeq(DOMAIN rels) IN Total([i \in DOMAIN values |-> Len(rels[values[i]])])

RankedK ==
  IF strategy.ranking = "generative" /\ CountRelations(relations) > MaxEval
  THEN MaxEval ELSE strategy.topK

Best(given, k) ==
  {kept \in SUBSET DOMAIN given :
     /\ Cardinality(kept) = (IF k < Cardinality(DOMAIN given) THEN k ELSE Cardinality(DOMAIN given))
     /\ \A t \in kept, u \in DOMAIN given \ kept : given[t] >= given[u]}

RankedAt(rels, given, kept) ==
  Sorted(Chosen(rels, {rel \in ToSet(rels) : Triplet(rel) \in kept}),
         {p \in ToSet(rels) \X ToSet(rels) : given[Triplet(p[1])] > given[Triplet(p[2])]})

RankRelations ==
  /\ step = "rank"
  /\ \E given \in [{Triplet(rel) : rel \in AllRelations(relations)} -> Scores] :
     \E top \in Best(given, RankedK) :
       LET kept == {t \in top : given[t] > 0}
           values == {v \in DOMAIN relations :
                        \E rel \in ToSet(relations[v]) : Triplet(rel) \in kept}
           ranked == [v \in values |-> RankedAt(relations[v], given, kept)]
       IN /\ relations' = ranked
          /\ scores' = [v \in values |-> [i \in DOMAIN ranked[v] |-> given[Triplet(ranked[v][i])]]]
  /\ hop' = hop + 1
  /\ step' = IF hop' < strategy.hops THEN "entities" ELSE "build"
  /\ UNCHANGED <<strategy, explore, explored, response, blocks>>

FailRanking ==
  /\ step = "rank"
  /\ step' = "build"
  /\ relations' = Empty /\ scores' = Empty
  /\ UNCHANGED <<strategy, hop, explore, explored, response, blocks>>

(***************************************************************************)
(* build_graph_response.  Only relations with a score are of use.          *)
(***************************************************************************)
\* zip(scores[ent], subgraph.related_to)
ScoredAt(v) ==
  LET n == IF Len(scores[v]) < Len(relations[v]) THEN Len(scores[v]) ELSE Len(relations[v])
  IN [i \in 1..n |-> [rel |-> relations[v][i], score |-> scores[v][i]]]

Scored ==
  LET values == SetToSeq(DOMAIN relations \cap DOMAIN scores)
  IN Joined([i \in DOMAIN values |-> ScoredAt(values[i])])

Block(id, score) == [id |-> id, score |-> score]
Covers(b, c) ==
  BlockField[b] = BlockField[c] /\ BlockStart[b] <= BlockStart[c] /\ BlockEnd[c] <= BlockEnd[b]

\* Mutant: of two blocks that start together the shorter is first.
BySpanShortest(matches) ==
  Sorted(matches, {p \in ToSet(matches) \X ToSet(matches) :
                     \/ BlockStart[p[1].id] < BlockStart[p[2].id]
                     \/ /\ BlockStart[p[1].id] = BlockStart[p[2].id]
                        /\ BlockEnd[p[1].id] < BlockEnd[p[2].id]})

SpanBefore(matches) ==
  {p \in ToSet(matches) \X ToSet(matches) :
     \/ BlockStart[p[1].id] < BlockStart[p[2].id]
     \/ /\ BlockStart[p[1].id] = BlockStart[p[2].id]
        /\ BlockEnd[p[1].id] > BlockEnd[p[2].id]}

BySpan(matches) == Sorted(matches, SpanBefore(matches))

\* get_paragraph_info_from_relations: of the blocks of a field in the order of
\* their starts one that ends no later than the last one kept is merged with it.
Keep(kept, m) ==
  IF kept # <<>> /\ BlockEnd[m.id] <= BlockEnd[Last(kept).id]
  THEN [kept EXCEPT ![Len(kept)] = Block(@.id, IF m.score > @.score THEN m.score ELSE @.score)]
  ELSE Append(kept, m)

Kept(matches) ==
  LET sorted == BySpan(matches)
      kept[n \in 0..Len(sorted)] == IF n = 0 THEN <<>> ELSE Keep(kept[n - 1], sorted[n])
  IN  kept[Len(sorted)]

ParagraphsOf(scored) ==
  LET located == Chosen(scored, {s \in ToSet(scored) : s.rel.path.block # NoBlock})
      matches == [i \in DOMAIN located |-> Block(located[i].rel.path.block, located[i].score)]
      fields == SetToSeq({BlockField[m.id] : m \in ToSet(matches)})
  IN Joined([i \in DOMAIN fields |->
               Kept(Chosen(matches, {m \in ToSet(matches) : BlockField[m.id] = fields[i]}))])

\* build_text_blocks_from_relations: a triplet keeps the paragraph of its only
\* relation; the id of any other is made up, to hydrate the resource.
RelationText(resource, i) == <<"relation", resource, i>>

TextsOf(scored) ==
  LET triplets == SetToSeq({Triplet(s.rel) : s \in ToSet(scored)})
      of(t) == Chosen(scored, {s \in ToSet(scored) : Triplet(s.rel) = t})
  IN [i \in DOMAIN triplets |->
        LET ss == of(triplets[i])
        IN Block(IF Len(ss) = 1 /\ ss[1].rel.path.block # NoBlock THEN ss[1].rel.path.block
                 ELSE RelationText(Last(ss).rel.resource, i),
                 ss[1].score)]

BuildBlocks ==
  /\ step = "build"
  /\ blocks' = IF strategy.text THEN TextsOf(Scored) ELSE ParagraphsOf(Scored)
  /\ step' = "built"
  /\ UNCHANGED <<strategy, hop, explore, explored, response, relations, scores>>

GraphNext ==
  \/ DetectEntities \/ NextFrontier \/ FindNeighbours \/ FailNeighbours
  \/ RankRelations \/ FailRanking \/ BuildBlocks

(***************************************************************************)
(* Properties                                                              *)
(***************************************************************************)
SameName == \E m, n \in Ends(strategy.paths) : m # n /\ m[1] = n[1]

\* relations.entities.update puts the relations of a hop in the place of those
\* an earlier one has ranked for the same name, and the scores are only paired
\* with relations by their place: as long as entities are suggested from the
\* graph, with their groups, and no name is in two groups, a later hop disturbs
\* no relation that has a score.  (graph_strategy.py:447, 881-883.)
ScoresFitRelations ==
  strategy.detection = "suggest" /\ ~ SameName =>
    \A v \in DOMAIN scores : v \in DOMAIN relations /\ Len(scores[v]) = Len(relations[v])

\* "Removes paragraphs contained entirely within others", and only those: the
\* paragraph of each scored relation is in one of the results, with at least
\* its score, and no result is in another.  (graph_strategy.py:865-933.)
ContainedMerged ==
  step = "built" /\ ~ strategy.text =>
    /\ \A s \in ToSet(Scored) :
         s.rel.path.block # NoBlock =>
           \E b \in ToSet(blocks) : Covers(b.id, s.rel.path.block) /\ b.score >= s.score
    /\ \A i, j \in DOMAIN blocks : i # j => ~ Covers(blocks[i].id, blocks[j].id)

=============================================================================
