------------------------------- MODULE Ranking -------------------------------
(***************************************************************************)
(* The order of results (ask/search/rerankers.py, rank_fusion.py, and      *)
(* hydrate_and_rerank and compute_best_matches, which use them).  An item  *)
(* is a text block with its last score.                                    *)
(***************************************************************************)
EXTENDS Naturals, Sequences, SequencesExt, FiniteSets, Subsequences

Item(id, score) == [id |-> id, score |-> score]

Greater(items) == {p \in ToSet(items) \X ToSet(items) : p[1].score > p[2].score}
ByScore(items) == Sorted(items, Greater(items))

FirstN(s, n) == SubSeq(s, 1, IF n < Len(s) THEN n ELSE Len(s))

(***************************************************************************)
(* Reranker.rerank.  The items beyond the window are dropped before any is *)
(* looked at.  When predict fails they keep the scores they have.          *)
(***************************************************************************)
NoopRerank(items) == items

\* One item of each id: predict is sent a dictionary.
OneOfEach(items) ==
  Picked(items, {i \in DOMAIN items : \A j \in 1..(i - 1) : items[j].id # items[i].id})

PredictRerank(items, window, given) ==
  LET cut == OneOfEach(FirstN(items, window))
  IN ByScore([i \in DOMAIN cut |-> Item(cut[i].id, given[cut[i].id])])

FailedRerank(items, window) == ByScore(FirstN(items, window))

\* hydrate_and_rerank: what the reranker leaves, cut to the results asked for.
BestBlocks(reranked, topK) == ByScore(FirstN(reranked, topK))

\* compose_find_resources: a block is in the results once, with the last score it
\* was given, if its resource is still there.
Shown(items, present) ==
  Picked(items, {i \in DOMAIN items :
                   /\ items[i].id \in present
                   /\ \A j \in (i + 1)..Len(items) : items[j].id # items[i].id})

(***************************************************************************)
(* RankFusionAlgorithm.fuse with WeightedCombSum.  A source is a record of *)
(* a weight and its items.  Scores are kept times the total of the         *)
(* weights, which compute_best_matches divides by.                         *)
(***************************************************************************)
Weighted(source) ==
  [i \in DOMAIN source.items |-> Item(source.items[i].id, source.items[i].score * source.weight)]

\* Mutant: an item of a later source is one more match.
AccumulateAgain(merged, item) == Append(merged, item)

Accumulate(merged, item) ==
  IF \E i \in DOMAIN merged : merged[i].id = item.id
  THEN [i \in DOMAIN merged |->
          IF merged[i].id = item.id THEN Item(item.id, merged[i].score + item.score) ELSE merged[i]]
  ELSE Append(merged, item)

Merged(sources) ==
  LET all == Joined([i \in DOMAIN sources |-> Weighted(sources[i])])
      merged[n \in 0..Len(all)] == IF n = 0 THEN <<>> ELSE Accumulate(merged[n - 1], all[n])
  IN  merged[Len(all)]

\* A source that is alone with results is not weighted.
Filled(sources) == {i \in DOMAIN sources : sources[i].items # <<>>}

Fuse(sources) ==
  ByScore(IF Cardinality(Filled(sources)) = 1
          THEN sources[CHOOSE i \in Filled(sources) : TRUE].items ELSE Merged(sources))

\* Mutant: main_query_weight is left out.
TotalOfPrequeries(sources) == Total([i \in 1..(Len(sources) - 1) |-> sources[i + 1].weight])

TotalWeight(sources) == Total([i \in DOMAIN sources |-> sources[i].weight])

=============================================================================
