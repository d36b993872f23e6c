---------------------------- MODULE NucliaDBAgent ----------------------------
(***************************************************************************)
(* The agent that queries knowledge bases for a flow                       *)
(* (hyperforge_nucliadb_agentic/agent.py).  A call of one of its functions *)
(* chooses sources and works on each in a task of its own, or on one after *)
(* the other; the calls share the agent and what it caches.  The choice of *)
(* sources, the models, the search endpoints and the flow's memory are     *)
(* external.                                                               *)
(*                                                                         *)
(* A filter expression is the set of the resources it selects.             *)
(***************************************************************************)
EXTENDS Naturals, Sequences, FiniteSets, SequencesExt

CONSTANTS
  Calls,
  Resources,      \* the resources of all the knowledge boxes
  SourceOf,       \* resource -> the source whose knowledge box it is in
  ResourceLabels, \* resource -> its labels, pairs of a label set and a value
  ResourceWords,  \* resource -> the words in it
  Synonyms,       \* source -> word -> the synonyms its knowledge box has
  DriverFilter,   \* source -> what the filters of its driver select
  DriverCatalog,  \* source -> what its catalog filter selects
  SearchConfig,   \* the filter expression of the agent's search configuration
  NoFilter,       \* a request without one
  NotALabel,      \* a label without a slash
  Configs,        \* the lists of sources the agent may be configured with
  Workloads       \* the requests there may be: functions from Calls to Request

Sources == {SourceOf[r] : r \in Resources}
Labels == UNION {ResourceLabels[r] : r \in Resources}
Words == UNION {ResourceWords[r] : r \in Resources}

Asking == {"question", "ask"}
Parallel == Asking \cup {"facets", "count", "catalog"}
Images == {"images", "all_images"}
Titles == {"title"} \cup Images
Kinds == Parallel \cup Titles \cup {"retrieve", "labels"}

Request ==
  [kind : Kinds,
   keywords : SUBSET Words,                    \* keyword_filters
   labels : Seq(Labels \cup {NotALabel}),      \* labels of an ask, filters of a title
   filter : {NoFilter} \cup SUBSET Resources,  \* of the public ask, or the catalog's
   source : Sources,                           \* of a retrieve
   fallback : BOOLEAN,                         \* does the agent have a fallback?
   strategies : BOOLEAN]                       \* has the public ask, or the search configuration,
                                               \* prequeries or the graph as rag_strategies?

ASSUME AgentAssumption ==
  /\ NotALabel \notin Labels
  /\ \A w \in Workloads : \A c \in Calls : w[c] \in Request

VARIABLES
  requests,
  sources,  \* config.sources
  stage,    \* call -> idle, running, done or failed
  chosen,   \* call -> the sources it works on, in order
  task,     \* call -> source -> none, prepare, search, save, done or failed
  wanted,   \* call -> source -> what the filters of its searches select
  context,  \* call -> source -> the context it leads to
  synonyms, \* the sources whose synonyms are cached
  missing   \* call -> the sources _get_question_context hands on

agentVars == <<requests, sources, stage, chosen, task, wanted, context, synonyms, missing>>

\* A context shows resources, and its summary rests on these and on others
\* beside them.
NoContext == [resources |-> {}, beside |-> {}, summary |-> FALSE, missing |-> FALSE]

Init ==
  /\ requests \in Workloads
  /\ sources \in Configs
  /\ stage = [c \in Calls |-> "idle"]
  /\ chosen = [c \in Calls |-> <<>>]
  /\ task = [c \in Calls |-> [s \in Sources |-> "none"]]
  /\ wanted = [c \in Calls |-> [s \in Sources |-> {}]]
  /\ context = [c \in Calls |-> [s \in Sources |-> NoContext]]
  /\ synonyms = {}
  /\ missing = [c \in Calls |-> {}]

Is(c, kinds) == requests[c].kind \in kinds
ResourcesOf(s) == {r \in Resources : SourceOf[r] = s}
HasLabel(l) == {r \in Resources : l \in ResourceLabels[r]}
HasWord(w) == {r \in Resources : w \in ResourceWords[r]}

And(es) == {r \in Resources : \A e \in es : r \in e}
AnyOf(es) == IF es = {} THEN Resources ELSE UNION es

(***************************************************************************)
(* ask_agent: the labels by their label sets.  A label that cannot be      *)
(* split is counted as the one before it once more, and fails the call if  *)
(* it is the first.                                                        *)
(***************************************************************************)
LabelError(ls) == ls # <<>> /\ ls[1] = NotALabel

SplitLabel(ls, i) ==
  ls[CHOOSE j \in 1..i : ls[j] # NotALabel /\ \A k \in (j + 1)..i : ls[k] = NotALabel]

\* labels_dict[labelset]: where the labels of the label set of the i-th label are.
SameSet(ls, i) == {j \in DOMAIN ls : SplitLabel(ls, j)[1] = SplitLabel(ls, i)[1]}

AndFilters(ls) == {SplitLabel(ls, i) : i \in {j \in DOMAIN ls : SameSet(ls, j) = {j}}}

\* or_filters is assigned by each label set with several labels, in the order in
\* which they come in.
OrFilters(ls) ==
  LET several == {i \in DOMAIN ls : SameSet(ls, i) # {i} /\ \A j \in SameSet(ls, i) : i <= j}
      last    == {i \in several : \A j \in several : j <= i}
  IN  {SplitLabel(ls, j) : j \in UNION {SameSet(ls, i) : i \in last}}

(***************************************************************************)
(* build_filter_expression and build_catalog_filter_expression             *)
(***************************************************************************)
WithSynonyms(s, w) == {w} \cup Synonyms[s][w]

KeywordFilter(s, ws) == AnyOf({HasWord(v) : v \in UNION {WithSynonyms(s, w) : w \in ws}})

Given(e) == IF e = NoFilter THEN Resources ELSE e

\* Mutant: the labels to have and those to choose from are alternatives.
LabelFilterAny(ls) == AnyOf({HasLabel(l) : l \in AndFilters(ls) \cup OrFilters(ls)})

LabelFilter(ls) ==
  And({HasLabel(l) : l \in AndFilters(ls)}) \cap AnyOf({HasLabel(l) : l \in OrFilters(ls)})

\* prepare_ask_request: what the request sets itself stands before what the
\* search configuration sets.
AskFilter(r) == IF r.filter # NoFilter THEN r.filter ELSE SearchConfig

\* Mutant: a filter of the request replaces that of the driver.
OverriddenFilter(r, s, given) ==
  And({ResourcesOf(s), KeywordFilter(s, r.keywords), LabelFilter(r.labels)})
    \cap (IF given # NoFilter THEN given ELSE DriverFilter[s])

BuildFilterExpression(r, s, given) ==
  And({ResourcesOf(s), KeywordFilter(s, r.keywords), LabelFilter(r.labels),
       Given(given), DriverFilter[s]})

BuildCatalogFilter(s, own, given) == And({ResourcesOf(s), own, Given(given), DriverCatalog[s]})

AllLabels(ls) == And({HasLabel(l) : l \in ToSet(ls) \ {NotALabel}})

(***************************************************************************)
(* The beginning of a call: choose_sources                                 *)
(***************************************************************************)
Fail(c) == stage' = [stage EXCEPT ![c] = "failed"]

Start(c, ss) ==
  /\ stage' = [stage EXCEPT ![c] = "running"]
  /\ chosen' = [chosen EXCEPT ![c] = ss]
  /\ task' = [task EXCEPT ![c] = [s \in Sources |-> IF s \in ToSet(ss) THEN "prepare" ELSE "none"]]

SourceChoices ==
  IF Len(sources) = 1 THEN {sources}
  ELSE UNION {SetToSeqs(ss) : ss \in SUBSET ToSet(sources)}

Begin(c) ==
  /\ stage[c] = "idle" /\ ~ Is(c, {"labels"})
  /\ \/ Is(c, Parallel) /\ ~ (Is(c, {"ask"}) /\ LabelError(requests[c].labels))
          /\ \E ss \in SourceChoices : Start(c, ss)
     \/ Is(c, Titles) /\ Start(c, sources)
     \/ Is(c, {"retrieve"}) /\ Start(c, <<requests[c].source>>)
  /\ UNCHANGED <<requests, sources, wanted, context, synonyms, missing>>

FailBegin(c) ==
  /\ stage[c] = "idle"
  /\ \/ Is(c, {"ask"}) /\ LabelError(requests[c].labels)
     \/ Is(c, Parallel) /\ Len(sources) > 1
     \/ Is(c, {"labels"})
  /\ Fail(c)
  /\ UNCHANGED <<requests, sources, chosen, task, wanted, context, synonyms, missing>>

\* ask_labels and ask_labels_list, of an agent of one source.  The cache is
\* looked up by the source and holds label sets, so it is always filled again.
AskLabels(c) ==
  /\ stage[c] = "idle" /\ Is(c, {"labels"})
  /\ Len(sources) = 1
  /\ stage' = [stage EXCEPT ![c] = "done"]
  /\ UNCHANGED <<requests, sources, chosen, task, wanted, context, synonyms, missing>>

(***************************************************************************)
(* The work on a source, up to the search                                  *)
(***************************************************************************)
\* gather: a failed call does not stop its tasks.  The functions that look up
\* titles go through the sources one after the other, those that look for images
\* first for the titles and then for the images.
MayRun(c, s, at) ==
  /\ task[c][s] = at
  /\ Is(c, Titles) =>
       /\ stage[c] = "running"
       /\ \A i, j \in DOMAIN chosen[c] :
            chosen[c][i] = s =>
              /\ j < i => task[c][chosen[c][j]] \notin
                             (IF Is(c, Images) THEN {at} ELSE {"prepare", "search"})
              /\ Is(c, Images) /\ at = "search" => task[c][chosen[c][j]] # "prepare"

MoveTask(c, s, to) == task' = [task EXCEPT ![c][s] = to]

FailTask(c, s) ==
  /\ MayRun(c, s, "prepare") \/ MayRun(c, s, "search") \/ MayRun(c, s, "save")
  /\ MoveTask(c, s, "failed")
  /\ Fail(c)
  /\ UNCHANGED <<requests, sources, chosen, wanted, context, synonyms, missing>>

\* inner_rag and retrieve
PrepareAsk(c, s) ==
  /\ Is(c, Asking \cup {"retrieve"})
  /\ LET r == requests[c]
         given == IF Is(c, Asking) THEN AskFilter(r) ELSE r.filter
     IN wanted' = [wanted EXCEPT ![c][s] = BuildFilterExpression(r, s, given)]
  /\ synonyms' = IF requests[c].keywords = {} THEN synonyms ELSE synonyms \cup {s}
  /\ MoveTask(c, s, "search") /\ UNCHANGED context

\* search_by_title
PrepareTitle(c, s) ==
  /\ Is(c, {"title"})
  /\ wanted' = [wanted EXCEPT ![c][s] =
                  BuildCatalogFilter(s, AllLabels(requests[c].labels), requests[c].filter)]
  /\ MoveTask(c, s, "search") /\ UNCHANGED <<context, synonyms>>

\* search_images and all_images_by_title search for the title, without any filter
\* of the request.  For each resource found there is then a find, whose filter is
\* that resource and images (or the resource is read): no filter of the driver is
\* merged into these.
PrepareImages(c, s) ==
  /\ Is(c, Images)
  /\ \E titled \in SUBSET BuildCatalogFilter(s, Resources, NoFilter) :
       wanted' = [wanted EXCEPT ![c][s] = titled]
  /\ MoveTask(c, s, "search") /\ UNCHANGED <<context, synonyms>>

\* inner_facets_search: the model selects labels, or no label set.
PrepareFacets(c, s) ==
  /\ Is(c, {"facets"})
  /\ UNCHANGED synonyms
  /\ \/ /\ context' = [context EXCEPT ![c][s].missing = TRUE]
        /\ MoveTask(c, s, "done") /\ UNCHANGED wanted
     \/ /\ \E ls \in SUBSET Labels :
             wanted' = [wanted EXCEPT ![c][s] =
                          BuildCatalogFilter(s, AnyOf({HasLabel(l) : l \in ls}), NoFilter)]
        /\ MoveTask(c, s, "search") /\ UNCHANGED context

\* inner_facets counts in the whole knowledge box.
PrepareCount(c, s) ==
  /\ Is(c, {"count"})
  /\ wanted' = [wanted EXCEPT ![c][s] = ResourcesOf(s)]
  /\ MoveTask(c, s, "search") /\ UNCHANGED <<context, synonyms>>

\* inner_catalog_search filters with what parse_selected_filters leaves of the
\* model's answer: with nothing, if that cannot be parsed.
PrepareCatalog(c, s) ==
  /\ Is(c, {"catalog"})
  /\ \E e \in SUBSET ResourcesOf(s) : wanted' = [wanted EXCEPT ![c][s] = e]
  /\ MoveTask(c, s, "search") /\ UNCHANGED <<context, synonyms>>

Prepare(c, s) ==
  /\ MayRun(c, s, "prepare")
  /\ PrepareAsk(c, s) \/ PrepareTitle(c, s) \/ PrepareImages(c, s) \/ PrepareFacets(c, s)
     \/ PrepareCount(c, s) \/ PrepareCatalog(c, s)
  /\ UNCHANGED <<requests, sources, stage, chosen, missing>>

(***************************************************************************)
(* The search.  A search engine finds some of what the filter selects.  An *)
(* ask that is answered leaves a summary, one without context the question *)
(* that is missing, one that ends in another error neither.  Beside what   *)
(* the filter selects, the strategies of the ask may bring any resource of *)
(* the knowledge box to its summary: the context lists what the main query *)
(* found, and a citation of anything else raises KeyError.                 *)
(***************************************************************************)
Outcomes(c) ==
  IF Is(c, Asking) THEN {<<TRUE, FALSE>>, <<FALSE, TRUE>>, <<FALSE, FALSE>>}
  ELSE {<<Is(c, {"facets"}), FALSE>>}

Beside(c, s) ==
  IF Is(c, Asking) /\ requests[c].strategies THEN SUBSET ResourcesOf(s) ELSE {{}}

Search(c, s) ==
  /\ MayRun(c, s, "search")
  /\ \E found \in SUBSET wanted[c][s], beside \in Beside(c, s), o \in Outcomes(c) :
       context' = [context EXCEPT ![c][s] =
                     [resources |-> found, beside |-> beside, summary |-> o[1], missing |-> o[2]]]
  /\ MoveTask(c, s, IF Is(c, {"question"}) THEN "save" ELSE "done")
  /\ UNCHANGED <<requests, sources, stage, chosen, wanted, synonyms, missing>>

\* rag: without a fallback a context without summary is not saved.  Otherwise it
\* is, and the flow says whether the question is still missing.
Save(c, s) ==
  /\ MayRun(c, s, "save")
  /\ LET skipped == ~ requests[c].fallback /\ ~ context[c][s].summary
     IN \E m \in (IF skipped THEN {TRUE} ELSE BOOLEAN) :
          context' = [context EXCEPT ![c][s].missing = m]
  /\ MoveTask(c, s, "done")
  /\ UNCHANGED <<requests, sources, stage, chosen, wanted, synonyms, missing>>

\* The end of the gather.  One source that is not missing anything is enough.
Finish(c) ==
  /\ stage[c] = "running"
  /\ \A s \in ToSet(chosen[c]) : task[c][s] = "done"
  /\ stage' = [stage EXCEPT ![c] = "done"]
  /\ missing' = [missing EXCEPT ![c] =
       IF Is(c, {"question"}) /\ \A s \in ToSet(chosen[c]) : context[c][s].missing
       THEN ToSet(chosen[c]) ELSE {}]
  /\ UNCHANGED <<requests, sources, chosen, task, wanted, context, synonyms>>

Next ==
  \E c \in Calls :
    \/ Begin(c) \/ FailBegin(c) \/ AskLabels(c) \/ Finish(c)
    \/ \E s \in Sources : Prepare(c, s) \/ Search(c, s) \/ Save(c, s) \/ FailTask(c, s)

Spec == Init /\ [][Next]_agentVars

(***************************************************************************)
(* Properties                                                              *)
(***************************************************************************)
\* The filters "configured at the driver level" are merged into the question that
\* is asked and into the search for titles, whatever the request and the search
\* configuration filter: no context of an ask or a retrieve shows a resource that
\* the filter excludes, and nothing else is in the summary unless prequeries or
\* the graph are asked for.  Titles, images and facets are bound by the catalog
\* filter only: the find of search_images may show what the other one excludes.
\* inner_facets and inner_catalog_search ("count" and "catalog") do without both.
\* (agent.py:847-850, 566-584, 956-966, 1404-1497, 1525-1619.)
DriverFiltersHold ==
  \A c \in Calls, s \in Sources :
    LET k == context[c][s] IN
    /\ Is(c, Asking \cup {"retrieve"}) =>
         k.resources \cup (IF requests[c].strategies THEN {} ELSE k.beside)
           \subseteq DriverFilter[s]
    /\ Is(c, Titles \cup {"facets"}) => k.resources \subseteq DriverCatalog[s]

Valued(ls, set) == {l \in ToSet(ls) : l[1] = set}

\* An ask for labels shows resources with one of the labels of each label set:
\* but of several label sets that are named more than once only the last counts,
\* and nothing is promised when a label cannot be split, which counts as one more
\* of the label before it.  (agent.py:757-768.)
LabelsHold ==
  \A c \in Calls, s \in Sources :
    LET ls == requests[c].labels
        several == {ls[i][1] : i \in {j \in DOMAIN ls : \E k \in DOMAIN ls :
                                       k # j /\ ls[j][1] = ls[k][1]}}
    IN Is(c, {"ask"}) /\ NotALabel \notin ToSet(ls) =>
         \A r \in context[c][s].resources, set \in {l[1] : l \in ToSet(ls)} :
           \/ ResourceLabels[r] \cap Valued(ls, set) # {}
           \/ set \in several /\ Cardinality(several) > 1

=============================================================================
