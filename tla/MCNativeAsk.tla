---------------------------- MODULE MCNativeAsk ----------------------------
(***************************************************************************)
(* TLC instances of NativeAsk.                                             *)
(***************************************************************************)
EXTENDS NativeAsk, TLC

CONSTANTS a1, a2, r1, r2, w1, w2

MCWords == <<w1, w2>>

Everything == [kind |-> "expression", scope |-> Resources]

\* What the queries search by: the parts of the main query and of its prequeries
\* overlap, so that either writes in the audit what the other leaves alone.
Parts(main) ==
  [q \in Queries |->
     CASE q = Main -> main
       [] q = 1 -> {"semantic", "security"}
       [] OTHER -> {"keyword"}]

\* An ask that generates an answer from what one query finds, and one that
\* only retrieves.
Plain ==
  [filters |-> [q \in Queries |-> Everything], parts |-> Parts({"keyword", "semantic"}),
   prefilters |-> {}, plain |-> {}, graph |-> FALSE, resource |-> NoResource,
   fullResource |-> FALSE, sync |-> FALSE, generate |-> TRUE]

Retrieving == [Plain EXCEPT !.generate = FALSE, !.sync = TRUE]

\* add_resource_filter makes of the first one of the older kind.
Filters == {Unfiltered, [kind |-> "expression", scope |-> {r1}]}

OfKnowledgeBox ==
  {[Retrieving EXCEPT !.filters = [q \in Queries |-> IF q = Main THEN f ELSE Everything],
                      !.parts = Parts({IF f = Unfiltered THEN "semantic" ELSE "keyword"}),
                      !.prefilters = split, !.plain = Prequeries \ split, !.graph = g] :
     f \in Filters, split \in SUBSET Prequeries, g \in BOOLEAN}

OfResource ==
  {[Retrieving EXCEPT !.filters = [q \in Queries |-> f], !.prefilters = split,
                      !.plain = {1, 2} \ split, !.resource = r1, !.fullResource = full] :
     f \in {[kind |-> "expression", scope |-> {r2}], [kind |-> "legacy", scope |-> {r1, r2}]},
     split \in {{}, {1}}, full \in BOOLEAN}

OneAsk ==
  {(a1 :> o) : o \in OfKnowledgeBox \cup OfResource
                       \cup {[Plain EXCEPT !.sync = sync, !.fullResource = sync] : sync \in BOOLEAN}}

\* Two asks whose audit requests meet in the queue.
TwoAsks ==
  {(a1 :> [Retrieving EXCEPT !.sync = sync]) @@ (a2 :> [Retrieving EXCEPT !.sync = FALSE]) :
     sync \in BOOLEAN}

AllWorkloads == OneAsk \cup TwoAsks

=============================================================================
