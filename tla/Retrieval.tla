----------------------------- MODULE Retrieval -----------------------------
(***************************************************************************)
(* The retrieval of an ask (ask/search/ask.py, ask/search/retrieval.py):   *)
(* the prefilter queries, the other prequeries, the main query and the     *)
(* graph strategy, each group of prequeries as concurrent tasks that share *)
(* a semaphore.  The search engine is external: a query finds any subset   *)
(* of the resources its filters select.                                    *)
(***************************************************************************)
EXTENDS Naturals, Sequences, FiniteSets, FiniteSetsExt

CONSTANTS
  Asks,          \* the ask requests
  Resources,     \* the resources of the knowledge box
  NoResource,    \* an ask of the whole knowledge box
  Prequeries,    \* the prequeries a request may have, in the order it lists them
  MaxConcurrent, \* MAX_CONCURRENT_PREQUERIES
  Workloads      \* the requests there may be: functions from some of Asks to AskOptions

Main == 0
Queries == {Main} \cup Prequeries

\* A query's own filters: none, a filter expression or the older key filters,
\* and the resources they select.
Unfiltered == [kind |-> "none", scope |-> Resources]

Filter == {Unfiltered} \cup [kind : {"expression", "legacy"}, scope : SUBSET Resources]

AskOptions ==
  [filters : [Queries -> Filter],
   parts : [Queries -> SUBSET {"keyword", "semantic", "security"}],
   prefilters : SUBSET Prequeries,    \* its prequeries with prefilter set
   plain : SUBSET Prequeries,         \* its other prequeries
   graph : BOOLEAN,                   \* is the graph strategy asked for?
   resource : Resources \cup {NoResource},
   fullResource : BOOLEAN,            \* is the full_resource strategy?
   sync : BOOLEAN,                    \* X-Synchronous
   generate : BOOLEAN]                \* generate_answer

ASSUME RetrievalAssumption ==
  /\ IsFiniteSet(Prequeries) /\ Prequeries \subseteq 1..Cardinality(Prequeries)
  /\ MaxConcurrent \in Nat \ {0}
  /\ NoResource \notin Resources
  /\ \A w \in Workloads :
       /\ DOMAIN w \subseteq Asks
       /\ \A a \in DOMAIN w : w[a] \in AskOptions /\ w[a].prefilters \cap w[a].plain = {}

VARIABLES
  stage,   \* ask -> where its coroutine stands
  filter,  \* ask -> query -> the filter the query is run with
  task,    \* ask -> prequery -> its task
  found,   \* ask -> query -> the resources of its results
  related, \* ask -> the resources of the graph strategy's results
  search,  \* ask -> what its audit request tells of the searches
  options  \* ask -> the request

retrievalVars == <<stage, filter, task, found, related, search, options>>

\* Stages: idle, prefilters, prequeries, main, graph, then retrieved, empty (there
\* is not enough context to answer) or failed (an error response).
NoQuery == Main + Cardinality(Prequeries) + 1

\* What audit.retrieve writes of a search: each field tells of the last query
\* that wrote it, and the vectors are those of all.
SearchFields == {"top_k", "body", "min_score", "vectorset", "filter", "security"}

AuditSearch == [told : [SearchFields -> Queries \cup {NoQuery}], vectors : Seq(Queries)]

NoSearch == [told |-> [f \in SearchFields |-> NoQuery], vectors |-> <<>>]

TaskStates == {"none", "waiting", "running", "done", "failed"}

RetrievalInit ==
  /\ options \in Workloads
  /\ stage = [a \in Asks |-> "idle"]
  /\ filter = [a \in DOMAIN options |-> options[a].filters]
  /\ task = [a \in Asks |-> [p \in Prequeries |-> "none"]]
  /\ found = [a \in Asks |-> [q \in Queries |-> {}]]
  /\ related = [a \in Asks |-> {}]
  /\ search = [a \in Asks |-> NoSearch]

GotoStage(a, s) == stage' = [stage EXCEPT ![a] = s]

(***************************************************************************)
(* add_resource_filter: joined to a filter expression with an And, but put *)
(* in the place of the older resource filters.                             *)
(***************************************************************************)
\* Mutant: either filter suffices.
AddResourceFilterOr(f, resources) ==
  IF resources = {} THEN f
  ELSE IF f.kind = "expression" THEN [f EXCEPT !.scope = @ \cup resources]
  ELSE [kind |-> "legacy", scope |-> resources]

AddResourceFilter(f, resources) ==
  IF resources = {} THEN f
  ELSE IF f.kind = "expression" THEN [f EXCEPT !.scope = @ \cap resources]
  ELSE [kind |-> "legacy", scope |-> resources]

ScopeTo(a, queries, resources) ==
  filter' = [filter EXCEPT ![a] =
               [q \in Queries |->
                  IF q \in queries THEN AddResourceFilter(@[q], resources) ELSE @[q]]]

\* run_prequeries creates a task for each prequery of the group.
Spawn(a, group) ==
  task' = [task EXCEPT ![a] = [p \in Prequeries |-> IF p \in group THEN "waiting" ELSE @[p]]]

(***************************************************************************)
(* The beginning of retrieval_in_kb and of retrieval_in_resource           *)
(***************************************************************************)
FirstStage(a) ==
  IF options[a].prefilters # {} THEN "prefilters"
  ELSE IF options[a].plain # {} THEN "prequeries" ELSE "main"

FirstGroup(a) ==
  IF options[a].prefilters # {} THEN options[a].prefilters ELSE options[a].plain

\* The full_resource strategy in an ask of one resource needs no retrieval.
ReadsWhole(a) == options[a].resource # NoResource /\ options[a].fullResource

\* Before it the query may be rephrased, which may fail.
BeginRetrieval(a) ==
  /\ a \in DOMAIN options
  /\ stage[a] = "idle"
  /\ UNCHANGED <<found, related, search, options>>
  /\ \/ GotoStage(a, "failed") /\ UNCHANGED <<filter, task>>
     \/ /\ options[a].resource = NoResource
        /\ GotoStage(a, FirstStage(a))
        /\ Spawn(a, FirstGroup(a))
        /\ UNCHANGED filter
     \/ /\ options[a].resource # NoResource
        /\ IF ReadsWhole(a)
           THEN GotoStage(a, "retrieved") /\ UNCHANGED <<filter, task>>
           ELSE IF options[a].prefilters # {}   \* InvalidQueryError
           THEN GotoStage(a, "failed") /\ UNCHANGED <<filter, task>>
           ELSE /\ ScopeTo(a, {Main} \cup options[a].plain, {options[a].resource})
                /\ GotoStage(a, FirstStage(a))
                /\ Spawn(a, FirstGroup(a))

(***************************************************************************)
(* run_prequeries.  The semaphore lets the tasks in in the order they were *)
(* created.  The first exception ends the gather and the request; the      *)
(* other tasks go on without anybody waiting for them.                     *)
(***************************************************************************)
InState(a, s) == {p \in Prequeries : task[a][p] = s}

BeginFind(a) ==
  /\ InState(a, "waiting") # {}
  /\ Cardinality(InState(a, "running")) < MaxConcurrent
  /\ task' = [task EXCEPT ![a][Min(InState(a, "waiting"))] = "running"]
  /\ UNCHANGED <<stage, filter, found, related, search, options>>

\* The fields that a find of query q writes.
Writes(a, q) ==
  LET parts == options[a].parts[q] IN
  {"top_k"}
    \cup (IF "keyword" \in parts THEN {"body", "min_score"} ELSE {})
    \cup (IF "semantic" \in parts THEN {"min_score", "vectorset"} ELSE {})
    \cup (IF filter[a][q] # Unfiltered THEN {"filter"} ELSE {})
    \cup (IF "security" \in parts THEN {"security"} ELSE {})

\* audit.retrieve, as the find of query q returns: what it has is merged into
\* what the finds before it have told.
AuditRetrieve(a, q) ==
  search' = [search EXCEPT ![a] =
    [told |-> [f \in SearchFields |-> IF f \in Writes(a, q) THEN q ELSE @.told[f]],
     vectors |-> IF "semantic" \in options[a].parts[q] THEN Append(@.vectors, q)
                 ELSE @.vectors]]

FinishFind(a, p) ==
  /\ task[a][p] = "running"
  /\ task' = [task EXCEPT ![a][p] = "done"]
  /\ \E results \in SUBSET filter[a][p].scope : found' = [found EXCEPT ![a][p] = results]
  /\ AuditRetrieve(a, p)
  /\ UNCHANGED <<stage, filter, related, options>>

FailFind(a, p) ==
  /\ task[a][p] = "running"
  /\ task' = [task EXCEPT ![a][p] = "failed"]
  /\ IF stage[a] \in {"prefilters", "prequeries"}
     THEN GotoStage(a, "failed")
     ELSE UNCHANGED stage
  /\ UNCHANGED <<filter, found, related, search, options>>

(***************************************************************************)
(* get_find_results                                                        *)
(***************************************************************************)
Matching(a) == UNION {found[a][p] : p \in options[a].prefilters}

\* Mutant: only the main query gets the filter.
EndPrefiltersMainOnly(a) ==
  /\ stage[a] = "prefilters"
  /\ options[a].prefilters \subseteq InState(a, "done")
  /\ IF Matching(a) = {}
     THEN GotoStage(a, "empty") /\ UNCHANGED <<filter, task>>
     ELSE /\ ScopeTo(a, {Main}, Matching(a))
          /\ Spawn(a, options[a].plain)
          /\ GotoStage(a, IF options[a].plain # {} THEN "prequeries" ELSE "main")
  /\ UNCHANGED <<found, related, search, options>>

EndPrefilters(a) ==
  /\ stage[a] = "prefilters"
  /\ options[a].prefilters \subseteq InState(a, "done")
  /\ IF Matching(a) = {}
     THEN GotoStage(a, "empty") /\ UNCHANGED <<filter, task>>
     ELSE /\ ScopeTo(a, {Main} \cup options[a].plain, Matching(a))
          /\ Spawn(a, options[a].plain)
          /\ GotoStage(a, IF options[a].plain # {} THEN "prequeries" ELSE "main")
  /\ UNCHANGED <<found, related, search, options>>

\* Mutant: the first task that is done ends the wait.
EndPrequeriesEarly(a) ==
  /\ stage[a] = "prequeries"
  /\ options[a].plain \cap InState(a, "done") # {}
  /\ GotoStage(a, "main")
  /\ UNCHANGED <<filter, task, found, related, search, options>>

EndPrequeries(a) ==
  /\ stage[a] = "prequeries"
  /\ options[a].plain \subseteq InState(a, "done")
  /\ GotoStage(a, "main")
  /\ UNCHANGED <<filter, task, found, related, search, options>>

\* Nothing found by any query: NoRetrievalResultsError.
Judged(a, results) == IF results = {} THEN "empty" ELSE "retrieved"

FoundBy(a, queries) == UNION {found[a][q] : q \in queries}

MainQuery(a) ==
  /\ stage[a] = "main"
  /\ \/ \E results \in SUBSET filter[a][Main].scope :
          /\ found' = [found EXCEPT ![a][Main] = results]
          /\ AuditRetrieve(a, Main)
          /\ GotoStage(a, IF options[a].graph /\ options[a].resource = NoResource
                          THEN "graph"
                          ELSE Judged(a, results \cup FoundBy(a, Prequeries)))
     \/ GotoStage(a, "failed") /\ UNCHANGED <<found, search>>
  /\ UNCHANGED <<filter, task, related, options>>

\* get_graph_results looks in the graph of the whole knowledge box, and may
\* fail.
GraphQuery(a) ==
  /\ stage[a] = "graph"
  /\ \/ \E results \in SUBSET Resources :
          /\ related' = [related EXCEPT ![a] = results]
          /\ GotoStage(a, Judged(a, results \cup FoundBy(a, Queries)))
     \/ GotoStage(a, "failed") /\ UNCHANGED related
  /\ UNCHANGED <<filter, task, found, search, options>>

RetrievalStep(a) ==
  \/ BeginRetrieval(a) \/ BeginFind(a) \/ EndPrefilters(a) \/ EndPrequeries(a)
  \/ MainQuery(a) \/ GraphQuery(a)
  \/ \E p \in Prequeries : FinishFind(a, p) \/ FailFind(a, p)

(***************************************************************************)
(* Properties                                                              *)
(***************************************************************************)
\* What the main query and the plain prequeries find matches the prefilter,
\* whatever the filters of the request and the order the tasks end in.
\* (retrieval.py:149-162.)
FindsMatchPrefilter ==
  \A a \in DOMAIN options :
    options[a].prefilters # {} =>
      FoundBy(a, {Main} \cup options[a].plain) \subseteq Matching(a)

\* Everything an ask of one resource finds is of that resource, or of none
\* when its own filter expression leaves the resource out.  (ask.py:998-1007.)
ResourceAskStays ==
  \A a \in DOMAIN options :
    options[a].resource # NoResource =>
      FoundBy(a, Queries) \cup related[a] \subseteq {options[a].resource}

\* A request goes on to its answer only with the results of every query it
\* asked for; tasks nobody waits for belong to requests that failed.
\* (retrieval.py:366-372.)
NoFindLeftBehind ==
  \A a \in DOMAIN options :
    InState(a, "waiting") \cup InState(a, "running") # {} =>
      stage[a] \in {"prefilters", "prequeries", "failed"}

\* "This is important to avoid returning results that don't match the
\* prefilter", says retrieval.py:157: nothing that is returned is outside
\* what the prefilter queries matched.
ResultsMatchPrefilter ==
  \A a \in DOMAIN options :
    stage[a] = "retrieved" /\ options[a].prefilters # {} =>
      FoundBy(a, Queries) \cup related[a] \subseteq Matching(a)

=============================================================================
