------------------------ MODULE NucliaDBAgentProofs ------------------------
(***************************************************************************)
(* What the contexts of an agent show is inside the filters of the driver  *)
(* (DriverFiltersHold) and has the labels that were asked for              *)
(* (LabelsHold), whatever is configured, requested, chosen and found.      *)
(***************************************************************************)
EXTENDS NucliaDBAgent, SequenceLemmas

---------------------------------------------------------------------------
(***************************************************************************)
(* The filters.                                                            *)
(***************************************************************************)

\* And selects what all of its operands do.
LEMMA AndSelects == \A es : \A e \in es : And(es) \subseteq e /\ And(es) \subseteq Resources
BY DEF And

\* Or selects by one of its operands, if it has any.
LEMMA AnyOfSelects ==
    ASSUME NEW es, es # {}, NEW r \in AnyOf(es)
    PROVE  \E e \in es : r \in e
BY DEF AnyOf

\* build_filter_expression (agent.py:837-923) leaves what the driver's filter and
\* the labels select.
LEMMA FilterBuilt ==
    ASSUME NEW r, NEW s, NEW given
    PROVE  /\ BuildFilterExpression(r, s, given) \subseteq Resources
           /\ BuildFilterExpression(r, s, given) \subseteq DriverFilter[s]
           /\ BuildFilterExpression(r, s, given) \subseteq LabelFilter(r.labels)
BY AndSelects DEF BuildFilterExpression

\* build_catalog_filter_expression (agent.py:925-972) what the driver's catalog
\* filter selects.
LEMMA CatalogFilterBuilt ==
    ASSUME NEW s, NEW own, NEW given
    PROVE  /\ BuildCatalogFilter(s, own, given) \subseteq Resources
           /\ BuildCatalogFilter(s, own, given) \subseteq DriverCatalog[s]
BY AndSelects DEF BuildCatalogFilter

---------------------------------------------------------------------------
(***************************************************************************)
(* What a call may show.                                                   *)
(***************************************************************************)

\* What a call may search for and show of a source, whatever else restricts it.
Allowed(c, s) ==
  {r \in Resources :
     /\ Is(c, Asking \cup {"retrieve"}) => r \in DriverFilter[s]
     /\ Is(c, Titles \cup {"facets"}) => r \in DriverCatalog[s]
     /\ Is(c, {"ask"}) => r \in LabelFilter(requests[c].labels)}

\* The contexts there may be.
Contexts ==
  [resources : SUBSET Resources, beside : SUBSET Resources, summary : BOOLEAN, missing : BOOLEAN]

\* What is asked for and what is shown is allowed, and a summary rests on other
\* resources only in an ask with prequeries or the graph: of the locals of a task
\* these are all that its search and its context depend on.
FiltersInv ==
  /\ wanted \in [Calls -> [Sources -> SUBSET Resources]]
  /\ context \in [Calls -> [Sources -> Contexts]]
  /\ \A c \in Calls, s \in Sources :
       /\ wanted[c][s] \subseteq Allowed(c, s)
       /\ context[c][s].resources \subseteq Allowed(c, s)
       /\ ~ (Is(c, Asking) /\ requests[c].strategies) => context[c][s].beside = {}

\* A filter that is prepared for a source, if it is allowed, keeps the invariant.
LEMMA WantedKeeps ==
    ASSUME FiltersInv, NEW c \in Calls, NEW s \in Sources, NEW e \in SUBSET Resources,
           e \subseteq Allowed(c, s), wanted' = [wanted EXCEPT ![c][s] = e],
           UNCHANGED <<context, requests>>
    PROVE  FiltersInv'
<1>1. wanted' \in [Calls -> [Sources -> SUBSET Resources]]
  BY DEF FiltersInv
<1>2. \A d \in Calls, t \in Sources : Allowed(d, t)' = Allowed(d, t)
  BY DEF Allowed, Is
<1>3. ASSUME NEW d \in Calls, NEW t \in Sources PROVE wanted'[d][t] \subseteq Allowed(d, t)
  BY DEF FiltersInv
<1> QED
  BY <1>1, <1>2, <1>3 DEF FiltersInv, Is

\* So does a context of resources that are allowed.
LEMMA ContextKeeps ==
    ASSUME FiltersInv, NEW c \in Calls, NEW s \in Sources, NEW k \in Contexts,
           k.resources \subseteq Allowed(c, s),
           ~ (Is(c, Asking) /\ requests[c].strategies) => k.beside = {},
           context' = [context EXCEPT ![c][s] = k],
           UNCHANGED <<wanted, requests>>
    PROVE  FiltersInv'
<1>1. context' \in [Calls -> [Sources -> Contexts]]
  BY DEF FiltersInv
<1>2. \A d \in Calls, t \in Sources : Allowed(d, t)' = Allowed(d, t)
  BY DEF Allowed, Is
<1>3. ASSUME NEW d \in Calls, NEW t \in Sources
      PROVE  /\ context'[d][t].resources \subseteq Allowed(d, t)
             /\ ~ (Is(d, Asking) /\ requests[d].strategies) => context'[d][t].beside = {}
  BY DEF FiltersInv
<1> QED
  BY <1>1, <1>2, <1>3 DEF FiltersInv, Is

\* The steps that touch neither.
LEMMA OthersKeep ==
    ASSUME FiltersInv, UNCHANGED <<wanted, context, requests>>
    PROVE  FiltersInv'
BY DEF FiltersInv, Allowed, Is

\* What each of the functions that prepare a search asks for is allowed.
LEMMA PrepareKeeps ==
    ASSUME FiltersInv, NEW c \in Calls, NEW s \in Sources, Prepare(c, s)
    PROVE  FiltersInv'
<1>1. CASE PrepareAsk(c, s)
  <2> DEFINE r     == requests[c]
             given == IF Is(c, Asking) THEN AskFilter(r) ELSE r.filter
             e     == BuildFilterExpression(r, s, given)
  <2>1. wanted' = [wanted EXCEPT ![c][s] = e] /\ UNCHANGED <<context, requests>>
    BY <1>1 DEF PrepareAsk, Prepare
  <2>2. e \subseteq Resources /\ e \subseteq DriverFilter[s] /\ e \subseteq LabelFilter(r.labels)
    BY FilterBuilt
  <2>3. Is(c, Asking \cup {"retrieve"})
    BY <1>1 DEF PrepareAsk
  <2>4. ~ Is(c, Titles \cup {"facets"})
    BY <2>3 DEF Is, Asking, Titles, Images
  <2>5. e \in SUBSET Resources /\ e \subseteq Allowed(c, s)
    BY <2>2, <2>4 DEF Allowed
  <2> QED
    BY <2>1, <2>5, WantedKeeps
<1>2. ASSUME NEW own, NEW given, Is(c, Titles \cup {"facets"}),
             wanted' = [wanted EXCEPT ![c][s] = BuildCatalogFilter(s, own, given)],
             UNCHANGED <<context, requests>>
      PROVE  FiltersInv'
  <2> DEFINE e == BuildCatalogFilter(s, own, given)
  <2>1. e \subseteq Resources /\ e \subseteq DriverCatalog[s]
    BY CatalogFilterBuilt
  <2>2. ~ Is(c, Asking \cup {"retrieve"}) /\ ~ Is(c, {"ask"})
    BY <1>2 DEF Is, Asking, Titles, Images
  <2>3. e \in SUBSET Resources /\ e \subseteq Allowed(c, s)
    BY <2>1, <2>2 DEF Allowed
  <2> QED
    BY <1>2, <2>3, WantedKeeps
<1>3. CASE PrepareTitle(c, s)
  <2>1. Is(c, Titles \cup {"facets"}) /\ UNCHANGED <<context, requests>>
    BY <1>3 DEF PrepareTitle, Prepare, Is, Titles
  <2> QED
    BY <1>2, <1>3, <2>1 DEF PrepareTitle
<1>4. CASE PrepareFacets(c, s)
  <2>1. Is(c, Titles \cup {"facets"}) /\ requests' = requests
    BY <1>4 DEF PrepareFacets, Prepare, Is
  <2>2. CASE /\ context' = [context EXCEPT ![c][s].missing = TRUE]
             /\ UNCHANGED wanted
    <3> DEFINE k == [context[c][s] EXCEPT !.missing = TRUE]
    <3>1. context[c][s] \in Contexts /\ context[c][s].resources \subseteq Allowed(c, s)
          /\ (~ (Is(c, Asking) /\ requests[c].strategies) => context[c][s].beside = {})
      BY DEF FiltersInv
    <3>2. /\ k \in Contexts /\ k.resources \subseteq Allowed(c, s)
          /\ ~ (Is(c, Asking) /\ requests[c].strategies) => k.beside = {}
      BY <3>1 DEF Contexts
    <3>3. context' = [context EXCEPT ![c][s] = k]
      BY <2>2 DEF FiltersInv
    <3> QED
      BY <2>1, <2>2, <3>2, <3>3, ContextKeeps
  <2>3. CASE /\ \E ls \in SUBSET Labels :
                  wanted' = [wanted EXCEPT ![c][s] =
                               BuildCatalogFilter(s, AnyOf({HasLabel(l) : l \in ls}), NoFilter)]
             /\ UNCHANGED context
    BY <1>2, <2>1, <2>3
  <2> QED
    BY <1>4, <2>2, <2>3 DEF PrepareFacets
<1>5. CASE PrepareCount(c, s) \/ PrepareCatalog(c, s)
  <2>1. PICK e \in SUBSET Resources :
          wanted' = [wanted EXCEPT ![c][s] = e] /\ UNCHANGED <<context, requests>>
    BY <1>5 DEF PrepareCount, PrepareCatalog, Prepare, ResourcesOf
  <2>2. e \subseteq Allowed(c, s)
    BY <1>5 DEF PrepareCount, PrepareCatalog, Allowed, Is, Asking, Titles, Images
  <2> QED
    BY <2>1, <2>2, WantedKeeps
<1>6. CASE PrepareImages(c, s)
  <2>1. PICK titled \in SUBSET BuildCatalogFilter(s, Resources, NoFilter) :
          wanted' = [wanted EXCEPT ![c][s] = titled] /\ UNCHANGED <<context, requests>>
    BY <1>6 DEF PrepareImages, Prepare
  <2>2. titled \subseteq Resources /\ titled \subseteq DriverCatalog[s]
    BY CatalogFilterBuilt
  <2>3. ~ Is(c, Asking \cup {"retrieve"}) /\ ~ Is(c, {"ask"})
    BY <1>6 DEF PrepareImages, Is, Asking, Images
  <2>4. titled \in SUBSET Resources /\ titled \subseteq Allowed(c, s)
    BY <2>2, <2>3 DEF Allowed
  <2> QED
    BY <2>1, <2>4, WantedKeeps
<1> QED
  BY <1>1, <1>3, <1>4, <1>5, <1>6 DEF Prepare

\* What a search finds is some of what was wanted.
LEMMA SearchKeeps ==
    ASSUME FiltersInv, NEW c \in Calls, NEW s \in Sources, Search(c, s)
    PROVE  FiltersInv'
<1>1. PICK found \in SUBSET wanted[c][s], beside \in Beside(c, s), o \in Outcomes(c) :
        context' = [context EXCEPT ![c][s] =
                      [resources |-> found, beside |-> beside,
                       summary |-> o[1], missing |-> o[2]]]
  BY DEF Search
<1> DEFINE k == [resources |-> found, beside |-> beside, summary |-> o[1], missing |-> o[2]]
<1>2. o[1] \in BOOLEAN /\ o[2] \in BOOLEAN
  <2>1. Is(c, {"facets"}) \in BOOLEAN
    BY SMT DEF Is
  <2>2. o \in BOOLEAN \X BOOLEAN
    <3>1. <<Is(c, {"facets"}), FALSE>> \in BOOLEAN \X BOOLEAN
      BY <2>1
    <3>2. /\ <<TRUE, FALSE>> \in BOOLEAN \X BOOLEAN
          /\ <<FALSE, TRUE>> \in BOOLEAN \X BOOLEAN
          /\ <<FALSE, FALSE>> \in BOOLEAN \X BOOLEAN
      OBVIOUS
    <3> QED
      BY <3>1, <3>2, Zenon DEF Outcomes
  <2> QED
    BY <2>2
<1>3. found \subseteq Resources /\ found \subseteq Allowed(c, s)
  BY DEF FiltersInv
<1>4. beside \subseteq Resources /\ (~ (Is(c, Asking) /\ requests[c].strategies) => beside = {})
  BY DEF Beside, ResourcesOf
<1>5. /\ k \in Contexts /\ k.resources \subseteq Allowed(c, s)
      /\ ~ (Is(c, Asking) /\ requests[c].strategies) => k.beside = {}
  BY <1>2, <1>3, <1>4 DEF Contexts
<1>6. UNCHANGED <<wanted, requests>>
  BY DEF Search
<1> QED
  BY <1>1, <1>5, <1>6, ContextKeeps

\* Saving a context changes what is missing only.
LEMMA SaveKeeps ==
    ASSUME FiltersInv, NEW c \in Calls, NEW s \in Sources, Save(c, s)
    PROVE  FiltersInv'
<1>1. PICK m \in BOOLEAN : context' = [context EXCEPT ![c][s].missing = m]
  BY DEF Save
<1> DEFINE k == [context[c][s] EXCEPT !.missing = m]
<1>2. /\ context[c][s] \in Contexts /\ context[c][s].resources \subseteq Allowed(c, s)
      /\ ~ (Is(c, Asking) /\ requests[c].strategies) => context[c][s].beside = {}
  BY DEF FiltersInv
<1>3. /\ k \in Contexts /\ k.resources \subseteq Allowed(c, s)
      /\ ~ (Is(c, Asking) /\ requests[c].strategies) => k.beside = {}
  BY <1>2 DEF Contexts
<1>4. context' = [context EXCEPT ![c][s] = k]
  BY <1>1 DEF FiltersInv
<1>5. UNCHANGED <<wanted, requests>>
  BY DEF Save
<1> QED
  BY <1>3, <1>4, <1>5, ContextKeeps

\* Of every call and every source, what is searched for and what is shown is inside
\* the filter of the driver and the labels of the call for an ask or a retrieve, and
\* inside the driver's catalog filter for titles, images and facets, whose searches
\* merge no other filter of the driver (agent.py:418-1645).  Only prequeries and the
\* graph bring other resources into a summary.
THEOREM FiltersInvariant == Spec => []FiltersInv
<1>1. Init => FiltersInv
  <2> SUFFICES ASSUME Init PROVE FiltersInv
    OBVIOUS
  <2>1. NoContext \in Contexts /\ NoContext.resources = {} /\ NoContext.beside = {}
    BY DEF NoContext, Contexts
  <2> HIDE DEF NoContext
  <2> QED
    BY <2>1 DEF Init, FiltersInv
<1>2. ASSUME FiltersInv, [Next]_agentVars PROVE FiltersInv'
  <2>1. ASSUME NEW c \in Calls, Begin(c) \/ FailBegin(c) \/ AskLabels(c) \/ Finish(c)
        PROVE  FiltersInv'
    BY <1>2, <2>1, OthersKeep DEF Begin, FailBegin, AskLabels, Finish
  <2>2. ASSUME NEW c \in Calls, NEW s \in Sources, FailTask(c, s) PROVE FiltersInv'
    BY <1>2, <2>2, OthersKeep DEF FailTask
  <2>3. CASE UNCHANGED agentVars
    BY <1>2, <2>3, OthersKeep DEF agentVars
  <2> QED
    BY <1>2, <2>1, <2>2, <2>3, PrepareKeeps, SearchKeeps, SaveKeeps DEF Next
<1> QED
  BY <1>1, <1>2, PTL DEF Spec

\* No ask and no retrieve shows a resource that the driver's filter excludes, or
\* without prequeries and the graph rests a summary on one, and no search for a
\* title, images or facets shows one that its catalog filter excludes, whatever the
\* request and the search configuration filter (agent.py:847-850, 566-584, 956-966).
\* What search_images shows may be excluded by the other filter of the driver;
\* inner_facets and inner_catalog_search do without both.
THEOREM DriverFiltersBind == Spec => []DriverFiltersHold
<1>1. FiltersInv => DriverFiltersHold
  <2> SUFFICES ASSUME FiltersInv, NEW c \in Calls, NEW s \in Sources
               PROVE  LET k == context[c][s] IN
                      /\ Is(c, Asking \cup {"retrieve"}) =>
                           k.resources \cup (IF requests[c].strategies THEN {} ELSE k.beside)
                             \subseteq DriverFilter[s]
                      /\ Is(c, Titles \cup {"facets"}) => k.resources \subseteq DriverCatalog[s]
    BY DEF DriverFiltersHold
  <2> QED
    BY DEF FiltersInv, Allowed
<1> QED
  BY <1>1, FiltersInvariant, PTL

---------------------------------------------------------------------------
(***************************************************************************)
(* The labels of an ask.                                                   *)
(***************************************************************************)

\* A label that can be split is itself.
LEMMA SplitItself ==
    ASSUME NEW T, NEW ls \in Seq(T), NotALabel \notin ToSet(ls)
    PROVE  \A i \in DOMAIN ls : SplitLabel(ls, i) = ls[i]
<1> SUFFICES ASSUME NEW i \in DOMAIN ls PROVE SplitLabel(ls, i) = ls[i]
  OBVIOUS
<1> DEFINE P(j) == ls[j] # NotALabel /\ \A k \in (j + 1)..i : ls[k] = NotALabel
<1>1. i \in Nat /\ i \in 1..i /\ \A j \in 1..i : j \in DOMAIN ls
  OBVIOUS
<1>2. \A j \in DOMAIN ls : ls[j] # NotALabel
  BY DEF ToSet
<1>3. P(i)
  BY <1>1, <1>2
<1>4. ASSUME NEW j \in 1..i, P(j) PROVE j = i
  <2> SUFFICES ASSUME j # i PROVE FALSE
    OBVIOUS
  <2>1. i \in (j + 1)..i
    BY <1>1
  <2> QED
    BY <1>1, <1>2, <1>4, <2>1
<1>5. (CHOOSE j \in 1..i : P(j)) = i
  <2> HIDE DEF P
  <2> QED
    BY <1>1, <1>3, <1>4
<1> QED
  BY <1>5 DEF SplitLabel

\* ask_agent: of label sets at most one of which is named more than once, the
\* filter selects by each: it is one of several values of that one, and the only
\* value of each other.
LEMMA LabelsSelect ==
    ASSUME NEW T, NEW ls \in Seq(T), NotALabel \notin ToSet(ls),
           NEW r \in LabelFilter(ls), NEW set \in {l[1] : l \in ToSet(ls)},
           \A i, j, m, n \in DOMAIN ls :
             /\ i # j /\ ls[i][1] = ls[j][1] /\ ls[i][1] = set
             /\ m # n /\ ls[m][1] = ls[n][1]
             => ls[m][1] = set
    PROVE  ResourceLabels[r] \cap Valued(ls, set) # {}
<1> DEFINE D == DOMAIN ls
<1>1. \A i \in D : SplitLabel(ls, i) = ls[i]
  BY SplitItself
<1>2. \A i \in D : SameSet(ls, i) = {j \in D : ls[j][1] = ls[i][1]}
  BY <1>1 DEF SameSet
<1>3. PICK a \in D : ls[a][1] = set
  BY DEF ToSet
<1>4. /\ r \in And({HasLabel(l) : l \in AndFilters(ls)})
      /\ r \in AnyOf({HasLabel(l) : l \in OrFilters(ls)})
  BY DEF LabelFilter
<1>5. ASSUME NEW l, r \in HasLabel(l), NEW j \in D, l = ls[j], ls[j][1] = set
      PROVE  l \in ResourceLabels[r] \cap Valued(ls, set)
  BY <1>5 DEF HasLabel, Valued, ToSet
<1>6. CASE SameSet(ls, a) = {a}
  <2>1. ls[a] \in AndFilters(ls)
    BY <1>1, <1>6 DEF AndFilters
  <2>2. r \in HasLabel(ls[a])
    BY <1>4, <2>1 DEF And
  <2> QED
    BY <1>3, <1>5, <2>2
<1>7. CASE SameSet(ls, a) # {a}
  <2> DEFINE several == {i \in D : SameSet(ls, i) # {i} /\ \A j \in SameSet(ls, i) : i <= j}
             last    == {i \in several : \A j \in several : j <= i}
  <2>1. PICK b \in D : b # a /\ ls[b][1] = set
    BY <1>2, <1>3, <1>7
  <2>2. SameSet(ls, a) \subseteq Nat /\ a \in SameSet(ls, a)
    BY <1>2
  <2>3. PICK first \in SameSet(ls, a) : \A j \in SameSet(ls, a) : first <= j
    BY <2>2, LeastNatural
  <2>4. first \in D /\ ls[first][1] = set /\ SameSet(ls, first) = SameSet(ls, a)
    BY <1>2, <1>3, <2>3, ZenonT(30)
  <2>5. a \in SameSet(ls, first) /\ b \in SameSet(ls, first)
    BY <1>2, <1>3, <2>1, <2>4
  <2>6. first \in several
    BY <2>1, <2>3, <2>4, <2>5
  <2>7. ASSUME NEW i \in several PROVE i = first
    <3>1. PICK k \in D : k # i /\ ls[k][1] = ls[i][1]
      <4>1. SameSet(ls, i) # {i} /\ i \in SameSet(ls, i)
        BY <1>2
      <4> QED
        BY <1>2, <4>1
    <3>2. ls[i][1] = set
      BY <1>3, <2>1, <3>1
    <3>3. i \in SameSet(ls, a) /\ first \in SameSet(ls, i)
      BY <1>2, <1>3, <2>4, <3>2
    <3>4. first <= i /\ i <= first
      BY <2>3, <3>3
    <3> QED
      BY <2>4, <3>4
  <2>8. last = {first}
    BY <2>4, <2>6, <2>7
  <2>9. OrFilters(ls) = {SplitLabel(ls, j) : j \in SameSet(ls, first)}
    <3>1. OrFilters(ls) = {SplitLabel(ls, j) : j \in UNION {SameSet(ls, i) : i \in last}}
      BY DEF OrFilters
    <3>2. UNION {SameSet(ls, i) : i \in last} = SameSet(ls, first)
      <4> HIDE DEF last
      <4> QED
        BY <2>8
    <3> QED
      BY <3>1, <3>2
  <2>10. PICK l \in OrFilters(ls) : r \in HasLabel(l)
    <3> DEFINE es == {HasLabel(l) : l \in OrFilters(ls)}
    <3>1. es # {}
      BY <2>5, <2>9
    <3>2. r \in AnyOf(es)
      BY <1>4
    <3>3. PICK e \in es : r \in e
      <4> HIDE DEF es
      <4> QED
        BY <3>1, <3>2, AnyOfSelects
    <3> QED
      BY <3>3
  <2>11. PICK j \in D : l = ls[j] /\ ls[j][1] = set
    BY <1>1, <1>2, <2>4, <2>9
  <2> QED
    BY <1>5, <2>10, <2>11
<1> QED
  BY <1>6, <1>7

\* A set with two elements or none of which is known to be finite.
LEMMA AtMostOne ==
    ASSUME NEW S, IsFiniteSet(S), ~ Cardinality(S) > 1, NEW x \in S, NEW y \in S
    PROVE  x = y
<1> SUFFICES ASSUME x # y PROVE FALSE
  OBVIOUS
<1>1. {x, y} \subseteq S /\ Cardinality({x, y}) = 2
  <2>1. IsFiniteSet({x}) /\ Cardinality({x}) = 1
    BY FS_Singleton
  <2>2. {x} \cup {y} = {x, y} /\ y \notin {x}
    OBVIOUS
  <2>3. Cardinality({x} \cup {y}) = Cardinality({x}) + 1
    BY <2>1, <2>2, FS_AddElement
  <2> QED
    BY <2>1, <2>2, <2>3
<1>2. Cardinality({x, y}) <= Cardinality(S) /\ Cardinality(S) \in Nat
  BY <1>1, FS_Subset, FS_CardinalityType
<1> QED
  BY <1>1, <1>2

\* An ask for labels shows resources with one of the labels of each label set, but of
\* several label sets that are named more than once (agent.py:757-768): its labels are
\* part of the filter that each source is searched with.
THEOREM LabelsBind == Spec => []LabelsHold
<1>1. ASSUME FiltersInv, requests \in Workloads PROVE LabelsHold
  <2> SUFFICES ASSUME NEW c \in Calls, NEW s \in Sources,
                      Is(c, {"ask"}), NotALabel \notin ToSet(requests[c].labels),
                      NEW r \in context[c][s].resources,
                      NEW set \in {l[1] : l \in ToSet(requests[c].labels)}
               PROVE  LET ls == requests[c].labels
                          several == {ls[i][1] : i \in {j \in DOMAIN ls : \E k \in DOMAIN ls :
                                                         k # j /\ ls[j][1] = ls[k][1]}}
                      IN  \/ ResourceLabels[r] \cap Valued(ls, set) # {}
                          \/ set \in several /\ Cardinality(several) > 1
    BY DEF LabelsHold
  <2> DEFINE ls == requests[c].labels
             D == DOMAIN ls
             named == {j \in D : \E k \in D : k # j /\ ls[j][1] = ls[k][1]}
             several == {ls[i][1] : i \in named}
  <2>1. ls \in Seq(Labels \cup {NotALabel})
    BY <1>1, AgentAssumption DEF Request
  <2>2. r \in LabelFilter(ls)
    BY <1>1 DEF FiltersInv, Allowed
  <2>3. IsFiniteSet(several)
    <3>1. IsFiniteSet(D)
      BY <2>1, FS_Interval
    <3>2. named \subseteq D /\ IsFiniteSet(named)
      BY <3>1, FS_Subset
    <3> HIDE DEF named
    <3> DEFINE f == [i \in named |-> ls[i][1]]
    <3>3. several = {f[i] : i \in named} /\ f \in [named -> several]
      OBVIOUS
    <3>4. f \in Surjection(named, several)
      <4> HIDE DEF f, several
      <4> QED
        BY <3>3 DEF Surjection
    <3> QED
      BY <3>2, <3>4, FS_Surjection
  <2>4. ASSUME ~ (set \in several /\ Cardinality(several) > 1)
        PROVE  ResourceLabels[r] \cap Valued(ls, set) # {}
    <3>1. ASSUME NEW i \in D, NEW j \in D, NEW m \in D, NEW n \in D,
                 i # j, ls[i][1] = ls[j][1], ls[i][1] = set, m # n, ls[m][1] = ls[n][1]
          PROVE  ls[m][1] = set
      <4>1. set \in several /\ ls[m][1] \in several
        BY <3>1
      <4> HIDE DEF several
      <4> QED
        BY <2>3, <2>4, <4>1, AtMostOne
    <3>2. NotALabel \notin ToSet(ls) /\ set \in {l[1] : l \in ToSet(ls)}
      OBVIOUS
    <3> HIDE DEF ls, named, several
    <3>3. \A i, j, m, n \in DOMAIN ls :
            /\ i # j /\ ls[i][1] = ls[j][1] /\ ls[i][1] = set
            /\ m # n /\ ls[m][1] = ls[n][1]
            => ls[m][1] = set
      BY <3>1, ZenonT(30)
    <3> HIDE <3>1
    <3> QED
      BY <2>1, <2>2, <3>2, <3>3, LabelsSelect
  <2> QED
    BY <2>4
<1>2. Spec => [](requests \in Workloads)
  <2>1. Init => requests \in Workloads
    BY DEF Init
  <2>2. requests \in Workloads /\ [Next]_agentVars => (requests \in Workloads)'
    BY ZenonT(30) DEF Next, Begin, FailBegin, AskLabels, Finish, Prepare, Search, Save, FailTask, agentVars
  <2> QED
    BY <2>1, <2>2, PTL DEF Spec
<1> QED
  BY <1>1, <1>2, FiltersInvariant, PTL

=============================================================================
