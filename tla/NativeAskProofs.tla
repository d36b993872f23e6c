-------------------------- MODULE NativeAskProofs --------------------------
(***************************************************************************)
(* An ask without an agentic configuration: its retrieval stays inside the *)
(* resources its prefilters and its resource allow, its answer implements  *)
(* AnswerContract, and its audit request is enqueued whole and once and    *)
(* published in order.  The invariant AsksInv says of each ask how far its *)
(* retrieval and its answer are, AuditInv how the queue, the worker and    *)
(* the stream hang together; each action has a lemma.                      *)
(***************************************************************************)
EXTENDS NativeAsk, SequenceLemmas

---------------------------------------------------------------------------
(***************************************************************************)
(* The types of a retrieval.                                               *)
(***************************************************************************)

\* The stages of a retrieval, and those of its answer.
RetrievalStages ==
  {"idle", "prefilters", "prequeries", "main", "graph", "retrieved", "empty", "failed"}

\* The stages of an ask.
Stages == RetrievalStages \cup {"reading", "telling", "auditing", "done", "left"}

\* An ask that has not begun has run nothing.
Untouched(a) ==
  stage[a] = "idle" \/ a \notin DOMAIN options =>
    /\ stage[a] = "idle"
    /\ \A p \in Prequeries : task[a][p] = "none"
    /\ \A q \in Queries : found[a][q] = {}
    /\ search[a] = NoSearch

\* The types of what retrieval keeps.
RetrievalTypes ==
  /\ options \in Workloads
  /\ stage \in [Asks -> Stages]
  /\ filter \in [DOMAIN options -> [Queries -> Filter]]
  /\ task \in [Asks -> [Prequeries -> TaskStates]]
  /\ found \in [Asks -> [Queries -> SUBSET Resources]]
  /\ related \in [Asks -> SUBSET Resources]
  /\ search \in [Asks -> AuditSearch]
  /\ \A a \in Asks : Untouched(a)

\* A request there may be is one of an ask, and its groups of prequeries are distinct.
LEMMA OptionsTyped ==
    ASSUME RetrievalTypes, NEW a \in DOMAIN options
    PROVE  /\ a \in Asks
           /\ options[a] \in AskOptions
           /\ options[a].prefilters \cap options[a].plain = {}
BY RetrievalAssumption DEF RetrievalTypes

\* add_resource_filter makes a filter of a filter.
LEMMA AddResourceFilterTyped ==
    ASSUME NEW f \in Filter, NEW resources \in SUBSET Resources
    PROVE  AddResourceFilter(f, resources) \in Filter
BY DEF AddResourceFilter, Filter, Unfiltered

\* ScopeTo scopes the filters of the queries it names, of one ask (the loops over
\* the find requests in retrieval.py, ask.py).
LEMMA ScopeTyped ==
    ASSUME RetrievalTypes, NEW a \in DOMAIN options, NEW queries,
           NEW resources \in SUBSET Resources, ScopeTo(a, queries, resources)
    PROVE  /\ filter' \in [DOMAIN options -> [Queries -> Filter]]
           /\ \A x \in DOMAIN options \ {a} : filter'[x] = filter[x]
           /\ \A q \in Queries :
                filter'[a][q] = IF q \in queries THEN AddResourceFilter(filter[a][q], resources)
                                ELSE filter[a][q]
<1> DEFINE scoped == [q \in Queries |->
                        IF q \in queries THEN AddResourceFilter(filter[a][q], resources)
                        ELSE filter[a][q]]
<1>1. filter' = [filter EXCEPT ![a] = scoped]
  BY DEF ScopeTo
<1>2. filter[a] \in [Queries -> Filter]
  BY DEF RetrievalTypes
<1>3. scoped \in [Queries -> Filter]
  BY <1>2, AddResourceFilterTyped
<1> HIDE DEF scoped
<1>4. filter' \in [DOMAIN options -> [Queries -> Filter]] /\ filter'[a] = scoped
      /\ \A x \in DOMAIN options \ {a} : filter'[x] = filter[x]
  BY <1>1, <1>3 DEF RetrievalTypes
<1> QED
  BY <1>4 DEF scoped

\* Spawn puts the prequeries of a group to wait (asyncio.create_task), of one
\* ask.
LEMMA SpawnTyped ==
    ASSUME RetrievalTypes, NEW a \in DOMAIN options, NEW group, Spawn(a, group)
    PROVE  /\ task' \in [Asks -> [Prequeries -> TaskStates]]
           /\ \A x \in Asks \ {a} : task'[x] = task[x]
           /\ \A p \in Prequeries : task'[a][p] = IF p \in group THEN "waiting" ELSE task[a][p]
<1> DEFINE spawned == [p \in Prequeries |-> IF p \in group THEN "waiting" ELSE task[a][p]]
<1>0. a \in Asks
  BY OptionsTyped
<1>1. task' = [task EXCEPT ![a] = spawned]
  BY DEF Spawn
<1>2. spawned \in [Prequeries -> TaskStates]
  BY <1>0 DEF RetrievalTypes, TaskStates
<1> HIDE DEF spawned
<1>3. task' \in [Asks -> [Prequeries -> TaskStates]] /\ task'[a] = spawned
      /\ \A x \in Asks \ {a} : task'[x] = task[x]
  BY <1>0, <1>1, <1>2 DEF RetrievalTypes
<1> QED
  BY <1>3 DEF spawned

\* Of the tasks that wait there is a first: the event loop begins them in order.
LEMMA FirstWaiting ==
    ASSUME RetrievalTypes, NEW a \in Asks, InState(a, "waiting") # {}
    PROVE  /\ Min(InState(a, "waiting")) \in Prequeries
           /\ task[a][Min(InState(a, "waiting"))] = "waiting"
<1>1. InState(a, "waiting") \in SUBSET Nat
  <2>1. Cardinality(Prequeries) \in Nat
    BY RetrievalAssumption, FS_CardinalityType
  <2> QED
    BY <2>1, RetrievalAssumption DEF InState
<1>2. PICK x \in InState(a, "waiting") : \A y \in InState(a, "waiting") : x <= y
  BY <1>1, LeastNatural
<1>3. Min(InState(a, "waiting")) \in InState(a, "waiting")
  BY <1>2 DEF Min
<1> QED
  BY <1>3 DEF InState

\* Nothing of ask x changes in its retrieval.
RetrievalKept(x) ==
  /\ stage'[x] = stage[x]
  /\ x \in DOMAIN options => filter'[x] = filter[x]
  /\ task'[x] = task[x]
  /\ found'[x] = found[x]
  /\ related'[x] = related[x]
  /\ search'[x] = search[x]

\* audit.retrieve writes what it has over what the queries before it told, and
\* its vector behind theirs.
LEMMA AuditRetrieveTyped ==
    ASSUME RetrievalTypes, NEW a \in Asks, NEW q \in Queries, AuditRetrieve(a, q)
    PROVE  /\ search' \in [Asks -> AuditSearch]
           /\ \A x \in Asks \ {a} : search'[x] = search[x]
           /\ \A f \in SearchFields :
                search'[a].told[f] = IF f \in Writes(a, q) THEN q ELSE search[a].told[f]
           /\ "semantic" \in options[a].parts[q] =>
                search'[a].vectors # <<>> /\ Last(search'[a].vectors) = q
<1> DEFINE told == [f \in SearchFields |-> IF f \in Writes(a, q) THEN q ELSE search[a].told[f]]
           vectors == IF "semantic" \in options[a].parts[q] THEN Append(search[a].vectors, q)
                      ELSE search[a].vectors
<1>1. search[a] \in AuditSearch
  BY DEF RetrievalTypes
<1>2. search[a].told \in [SearchFields -> Queries \cup {NoQuery}] /\ search[a].vectors \in Seq(Queries)
  BY <1>1 DEF AuditSearch
<1>3. told \in [SearchFields -> Queries \cup {NoQuery}]
  BY <1>2
<1>4. vectors \in Seq(Queries)
  BY <1>2
<1>5. "semantic" \in options[a].parts[q] => vectors # <<>> /\ Last(vectors) = q
  <2>1. \A s \in Seq(Queries) : Append(s, q) # <<>> /\ Last(Append(s, q)) = q
    BY DEF Last
  <2> QED
    BY <1>2, <2>1
<1>6. search' = [search EXCEPT ![a] = [told |-> told, vectors |-> vectors]]
  BY DEF AuditRetrieve
<1>7. \A f \in SearchFields : told[f] = IF f \in Writes(a, q) THEN q ELSE search[a].told[f]
  OBVIOUS
<1> HIDE DEF told, vectors
<1>8. [told |-> told, vectors |-> vectors] \in AuditSearch
  BY <1>3, <1>4 DEF AuditSearch
<1>9. search'[a] = [told |-> told, vectors |-> vectors]
  BY <1>6 DEF RetrievalTypes
<1> QED
  BY <1>5, <1>6, <1>7, <1>8, <1>9 DEF RetrievalTypes

\* What a step of the retrieval of ask a does to the others.
Alone(a) == options' = options /\ \A x \in Asks \ {a} : RetrievalKept(x)

\* An ask with a task has begun.
LEMMA Begun ==
    ASSUME RetrievalTypes, NEW a \in Asks,
           stage[a] # "idle" \/ \E p \in Prequeries : task[a][p] # "none"
    PROVE  a \in DOMAIN options /\ stage[a] # "idle"
BY DEF RetrievalTypes, Untouched

\* A step that types what it changes and leaves its ask begun keeps the types.
LEMMA RetrievalTyped ==
    ASSUME RetrievalTypes, NEW a \in DOMAIN options, Alone(a),
           stage' \in [Asks -> Stages], stage'[a] # "idle",
           filter' \in [DOMAIN options -> [Queries -> Filter]],
           task' \in [Asks -> [Prequeries -> TaskStates]],
           found' \in [Asks -> [Queries -> SUBSET Resources]],
           related' \in [Asks -> SUBSET Resources],
           search' \in [Asks -> AuditSearch]
    PROVE  RetrievalTypes'
<1>1. ASSUME NEW x \in Asks PROVE Untouched(x)'
  <2>1. CASE x = a
    BY <2>1 DEF Untouched, Alone
  <2>2. CASE x # a
    BY <2>2 DEF Untouched, Alone, RetrievalKept, RetrievalTypes
  <2> QED
    BY <2>1, <2>2
<1> QED
  BY <1>1 DEF RetrievalTypes, Alone

\* retrieval_step, and the scoping of an ask of one resource.
LEMMA BeginRetrievalTyped ==
    ASSUME RetrievalTypes, NEW a \in Asks, BeginRetrieval(a)
    PROVE  RetrievalTypes' /\ Alone(a)
<1>0. a \in DOMAIN options /\ options[a] \in AskOptions /\ UNCHANGED <<found, related, search, options>>
  BY OptionsTyped DEF BeginRetrieval
<1> DEFINE next(s) == /\ GotoStage(a, s)
                      /\ s \in {"failed", "retrieved", "prefilters", "prequeries", "main"}
<1>1. ASSUME NEW s, next(s)
      PROVE  /\ stage' \in [Asks -> Stages] /\ stage'[a] # "idle"
             /\ \A x \in Asks \ {a} : stage'[x] = stage[x]
  BY <1>1 DEF GotoStage, RetrievalTypes, Stages, RetrievalStages
<1>2. FirstStage(a) \in {"prefilters", "prequeries", "main"}
  BY DEF FirstStage
<1>3. CASE UNCHANGED <<filter, task>> /\ \E s : next(s)
  <2>1. Alone(a)
    BY <1>0, <1>1, <1>3 DEF Alone, RetrievalKept
  <2> QED
    BY <1>0, <1>1, <1>3, <2>1, RetrievalTyped DEF RetrievalTypes
<1>4. CASE UNCHANGED filter /\ GotoStage(a, FirstStage(a)) /\ Spawn(a, FirstGroup(a))
  <2>1. Alone(a)
    BY <1>0, <1>1, <1>2, <1>4, SpawnTyped DEF Alone, RetrievalKept
  <2> QED
    BY <1>0, <1>1, <1>2, <1>4, <2>1, SpawnTyped, RetrievalTyped, ZenonT(30) DEF RetrievalTypes
<1>5. CASE /\ options[a].resource # NoResource
           /\ ScopeTo(a, {Main} \cup options[a].plain, {options[a].resource})
           /\ GotoStage(a, FirstStage(a))
           /\ Spawn(a, FirstGroup(a))
  <2>0. {options[a].resource} \in SUBSET Resources
    BY <1>0, <1>5 DEF AskOptions
  <2>1. Alone(a)
    BY <1>0, <1>1, <1>2, <1>5, <2>0, SpawnTyped, ScopeTyped DEF Alone, RetrievalKept
  <2>2. /\ filter' \in [DOMAIN options -> [Queries -> Filter]]
        /\ task' \in [Asks -> [Prequeries -> TaskStates]]
    BY <1>0, <1>5, <2>0, SpawnTyped, ScopeTyped
  <2> QED
    BY <1>0, <1>1, <1>2, <1>5, <2>1, <2>2, RetrievalTyped DEF RetrievalTypes
<1> QED
  BY <1>3, <1>4, <1>5 DEF BeginRetrieval

\* A prequery begins, returns or raises.
LEMMA FindTyped ==
    ASSUME RetrievalTypes, NEW a \in Asks,
           BeginFind(a) \/ \E p \in Prequeries : FinishFind(a, p) \/ FailFind(a, p)
    PROVE  RetrievalTypes' /\ Alone(a)
<1>1. CASE BeginFind(a)
  <2> DEFINE p == Min(InState(a, "waiting"))
  <2>1. p \in Prequeries /\ task[a][p] = "waiting" /\ task' = [task EXCEPT ![a][p] = "running"]
        /\ UNCHANGED <<stage, filter, found, related, search, options>>
    BY <1>1, FirstWaiting DEF BeginFind
  <2> HIDE DEF p
  <2>2. a \in DOMAIN options /\ stage[a] # "idle"
    BY <2>1, Begun
  <2>3. task' \in [Asks -> [Prequeries -> TaskStates]] /\ Alone(a)
    BY <2>1 DEF RetrievalTypes, TaskStates, Alone, RetrievalKept
  <2> QED
    BY <2>1, <2>2, <2>3, RetrievalTyped DEF RetrievalTypes
<1>2. ASSUME NEW p \in Prequeries, FinishFind(a, p) PROVE RetrievalTypes' /\ Alone(a)
  <2>0. p \in Queries
    BY DEF Queries
  <2>1. a \in DOMAIN options /\ stage[a] # "idle"
    BY <1>2, Begun DEF FinishFind
  <2>2. PICK results \in SUBSET filter[a][p].scope : found' = [found EXCEPT ![a][p] = results]
    BY <1>2 DEF FinishFind
  <2>3. results \in SUBSET Resources
    BY <2>0, <2>1, <2>2 DEF RetrievalTypes, Filter, Unfiltered
  <2>4. found' \in [Asks -> [Queries -> SUBSET Resources]]
    BY <2>0, <2>2, <2>3 DEF RetrievalTypes
  <2>5. /\ task' \in [Asks -> [Prequeries -> TaskStates]]
        /\ search' \in [Asks -> AuditSearch]
        /\ Alone(a)
    <3>1. /\ search' \in [Asks -> AuditSearch]
          /\ \A x \in Asks \ {a} : search'[x] = search[x]
      BY <1>2, <2>0, AuditRetrieveTyped DEF FinishFind
    <3> QED
      BY <1>2, <2>0, <2>2, <3>1 DEF FinishFind, RetrievalTypes, TaskStates, Alone, RetrievalKept
  <2> QED
    BY <1>2, <2>1, <2>4, <2>5, RetrievalTyped DEF RetrievalTypes, FinishFind
<1>3. ASSUME NEW p \in Prequeries, FailFind(a, p) PROVE RetrievalTypes' /\ Alone(a)
  <2>1. a \in DOMAIN options /\ stage[a] # "idle"
    BY <1>3, Begun DEF FailFind
  <2>2. /\ task' \in [Asks -> [Prequeries -> TaskStates]]
        /\ stage' \in [Asks -> Stages] /\ stage'[a] # "idle"
        /\ Alone(a)
    BY <1>3, <2>1
       DEF FailFind, GotoStage, RetrievalTypes, TaskStates, Stages, RetrievalStages, Alone,
           RetrievalKept
  <2> QED
    BY <1>3, <2>1, <2>2, RetrievalTyped DEF RetrievalTypes, FailFind
<1> QED
  BY <1>1, <1>2, <1>3

\* The groups of prequeries end, and the main and the graph queries are run.
LEMMA QueryTyped ==
    ASSUME RetrievalTypes, NEW a \in Asks,
           EndPrefilters(a) \/ EndPrequeries(a) \/ MainQuery(a) \/ GraphQuery(a)
    PROVE  RetrievalTypes' /\ Alone(a)
<1>0. a \in DOMAIN options /\ stage[a] # "idle" /\ Main \in Queries
  BY Begun DEF EndPrefilters, EndPrequeries, MainQuery, GraphQuery, Queries
<1>1. ASSUME NEW s \in Stages \ {"idle"}, GotoStage(a, s)
      PROVE  /\ stage' \in [Asks -> Stages] /\ stage'[a] # "idle"
             /\ \A x \in Asks \ {a} : stage'[x] = stage[x]
  BY <1>1 DEF GotoStage, RetrievalTypes
<1>2. \A results : Judged(a, results) \in {"empty", "retrieved"}
  BY DEF Judged
<1>3. CASE EndPrefilters(a)
  <2>1. UNCHANGED <<found, related, search, options>>
    BY <1>3 DEF EndPrefilters
  <2>2. CASE GotoStage(a, "empty") /\ UNCHANGED <<filter, task>>
    BY <1>0, <1>1, <2>1, <2>2, RetrievalTyped
       DEF RetrievalTypes, Alone, RetrievalKept, Stages, RetrievalStages
  <2>3. CASE /\ ScopeTo(a, {Main} \cup options[a].plain, Matching(a))
             /\ Spawn(a, options[a].plain)
             /\ GotoStage(a, IF options[a].plain # {} THEN "prequeries" ELSE "main")
    <3>1. Matching(a) \in SUBSET Resources
      <4>1. \A p \in options[a].prefilters : found[a][p] \subseteq Resources
        BY <1>0, OptionsTyped, ZenonT(30) DEF RetrievalTypes, AskOptions, Queries
      <4> QED
        BY <4>1 DEF Matching
    <3>2. /\ stage' \in [Asks -> Stages] /\ stage'[a] # "idle"
          /\ \A x \in Asks \ {a} : stage'[x] = stage[x]
      BY <1>1, <2>3 DEF Stages, RetrievalStages
    <3>3. Alone(a)
      BY <1>0, <2>1, <2>3, <3>1, <3>2, SpawnTyped, ScopeTyped DEF Alone, RetrievalKept
    <3>4. /\ filter' \in [DOMAIN options -> [Queries -> Filter]]
          /\ task' \in [Asks -> [Prequeries -> TaskStates]]
      BY <1>0, <2>3, <3>1, SpawnTyped, ScopeTyped
    <3> QED
      BY <1>0, <2>1, <3>2, <3>3, <3>4, RetrievalTyped DEF RetrievalTypes
  <2> QED
    BY <1>3, <2>2, <2>3 DEF EndPrefilters
<1>4. CASE EndPrequeries(a)
  BY <1>0, <1>1, <1>4, RetrievalTyped
     DEF EndPrequeries, RetrievalTypes, Alone, RetrievalKept, Stages, RetrievalStages
<1>5. CASE MainQuery(a)
  <2>1. UNCHANGED <<filter, task, related, options>>
    BY <1>5 DEF MainQuery
  <2>2. ASSUME NEW results \in SUBSET filter[a][Main].scope, NEW s \in {"graph", "empty", "retrieved"},
               found' = [found EXCEPT ![a][Main] = results],
               AuditRetrieve(a, Main), GotoStage(a, s)
        PROVE  RetrievalTypes' /\ Alone(a)
    <3>1. results \in SUBSET Resources
      BY <1>0, <2>2 DEF RetrievalTypes, Filter, Unfiltered
    <3>2. /\ found' \in [Asks -> [Queries -> SUBSET Resources]]
          /\ search' \in [Asks -> AuditSearch]
          /\ \A x \in Asks \ {a} : search'[x] = search[x]
      BY <1>0, <2>2, <3>1, AuditRetrieveTyped DEF RetrievalTypes
    <3>3. /\ stage' \in [Asks -> Stages] /\ stage'[a] # "idle"
          /\ \A x \in Asks \ {a} : stage'[x] = stage[x]
      BY <1>1, <2>2 DEF Stages, RetrievalStages
    <3>4. Alone(a)
      BY <2>1, <2>2, <3>2, <3>3 DEF RetrievalTypes, Alone, RetrievalKept
    <3> QED
      BY <1>0, <2>1, <3>2, <3>3, <3>4, RetrievalTyped DEF RetrievalTypes
  <2>3. CASE GotoStage(a, "failed") /\ UNCHANGED <<found, search>>
    BY <1>0, <1>1, <2>1, <2>3, RetrievalTyped
       DEF RetrievalTypes, Alone, RetrievalKept, Stages, RetrievalStages
  <2> QED
    BY <1>2, <1>5, <2>2, <2>3, ZenonT(30) DEF MainQuery
<1>6. CASE GraphQuery(a)
  <2>1. UNCHANGED <<filter, task, found, search, options>>
    BY <1>6 DEF GraphQuery
  <2>2. /\ related' \in [Asks -> SUBSET Resources]
        /\ \A x \in Asks \ {a} : related'[x] = related[x]
    BY <1>6 DEF GraphQuery, RetrievalTypes
  <2>3. PICK s \in {"empty", "retrieved", "failed"} : GotoStage(a, s)
    BY <1>2, <1>6 DEF GraphQuery
  <2>4. /\ stage' \in [Asks -> Stages] /\ stage'[a] # "idle"
        /\ \A x \in Asks \ {a} : stage'[x] = stage[x]
    BY <1>1, <2>3 DEF Stages, RetrievalStages
  <2>5. Alone(a)
    BY <2>1, <2>2, <2>4 DEF RetrievalTypes, Alone, RetrievalKept
  <2> QED
    BY <1>0, <2>1, <2>2, <2>4, <2>5, RetrievalTyped DEF RetrievalTypes
<1> QED
  BY <1>3, <1>4, <1>5, <1>6

---------------------------------------------------------------------------
(***************************************************************************)
(* What holds of a retrieval.                                              *)
(***************************************************************************)
\* The prequeries of an ask that wait or run.
Live(a) == InState(a, "waiting") \cup InState(a, "running")

\* asyncio.gather: a group runs while it is waited for, or when the request it is
\* of has failed.
GroupsAwaited(a) ==
  /\ stage[a] = "prefilters" => Live(a) \subseteq options[a].prefilters
  /\ stage[a] = "prequeries" => Live(a) \subseteq options[a].plain
  /\ stage[a] \notin {"prefilters", "prequeries", "failed"} => Live(a) = {}

\* Before the prefilters are over no other query is run.
PrefilterOpen(a) ==
  /\ stage[a] \notin {"prequeries", "main", "graph"}
  /\ found[a][Main] = {}
  /\ \A p \in options[a].plain : task[a][p] = "none" /\ found[a][p] = {}

\* After it they have been run with the resources the prefilters match.
Prefiltered(a) ==
  /\ stage[a] \notin {"idle", "prefilters"}
  /\ \A p \in options[a].prefilters : task[a][p] = "done"
  /\ \A q \in {Main} \cup options[a].plain :
       filter[a][q].scope \subseteq Matching(a) /\ found[a][q] \subseteq Matching(a)

\* An ask with prefilters is before them or behind them.
PrefilterHolds(a) == options[a].prefilters # {} => PrefilterOpen(a) \/ Prefiltered(a)

\* An ask of one resource has not searched yet...
Unsearched(a) ==
  /\ stage[a] \notin {"prefilters", "prequeries", "main", "graph"}
  /\ \A p \in Prequeries : task[a][p] = "none"
  /\ \A q \in Queries : found[a][q] = {}

\* ... or its queries are scoped to that resource.
Scoped(a) ==
  /\ stage[a] \notin {"idle", "prefilters", "graph"}
  /\ \A p \in Prequeries \ options[a].plain : task[a][p] = "none"
  /\ \A q \in {Main} \cup options[a].plain : filter[a][q].scope \subseteq {options[a].resource}
  /\ \A q \in Queries : found[a][q] \subseteq {options[a].resource}

\* ask.py:998-1007: no prefilter and no graph widens the ask of one resource.
ResourceHolds(a) ==
  options[a].resource # NoResource => related[a] = {} /\ (Unsearched(a) \/ Scoped(a))

\* Before the main query the audit request tells of prequeries that have returned.
PrequeriesTold(a) ==
  \A f \in SearchFields :
    LET p == search[a].told[f] IN
    p = NoQuery \/ (p \in Prequeries /\ task[a][p] = "done" /\ f \in Writes(a, p))

\* From the main query on it tells what that query wrote over theirs.
MainTold(a) ==
  /\ ReadsWhole(a) => search[a] = NoSearch /\ Unsearched(a)
  /\ stage[a] \in {"prefilters", "prequeries", "main"} => PrequeriesTold(a)
  /\ stage[a] \in {"graph", "retrieved", "reading", "telling", "auditing"} \/ record[a].kbid =>
       IF ReadsWhole(a) THEN search[a] = NoSearch ELSE TellsMainQuery(a, search[a])

\* What holds of the retrieval of an ask that has options.
RetrievalOK(a) ==
  a \in DOMAIN options => GroupsAwaited(a) /\ PrefilterHolds(a) /\ ResourceHolds(a) /\ MainTold(a)

\* What holds of a retrieval depends on it alone.
LEMMA RetrievalOKKept ==
    ASSUME NEW x, options' = options, RetrievalKept(x), record'[x] = record[x], RetrievalOK(x)
    PROVE  RetrievalOK(x)'
<1> SUFFICES ASSUME x \in DOMAIN options PROVE RetrievalOK(x)'
  BY DEF RetrievalOK
<1>1. /\ stage'[x] = stage[x] /\ filter'[x] = filter[x] /\ task'[x] = task[x]
      /\ found'[x] = found[x] /\ related'[x] = related[x] /\ search'[x] = search[x]
  BY DEF RetrievalKept
<1>2. Live(x)' = Live(x) /\ Matching(x)' = Matching(x) /\ ReadsWhole(x)' = ReadsWhole(x)
  BY <1>1 DEF Live, InState, Matching, ReadsWhole
<1>3. GroupsAwaited(x)' /\ PrefilterHolds(x)'
  BY <1>1, <1>2 DEF RetrievalOK, GroupsAwaited, PrefilterHolds, PrefilterOpen, Prefiltered
<1>4. ResourceHolds(x)' /\ (Unsearched(x)' <=> Unsearched(x))
  BY <1>1, <1>2 DEF RetrievalOK, ResourceHolds, Unsearched, Scoped
<1>5. MainTold(x)'
  <2>1. PrequeriesTold(x) => PrequeriesTold(x)'
    BY <1>1 DEF PrequeriesTold, Writes
  <2>2. TellsMainQuery(x, search[x]) => TellsMainQuery(x, search[x])'
    BY <1>1 DEF TellsMainQuery, Writes
  <2> QED
    BY <1>1, <1>2, <1>4, <2>1, <2>2 DEF RetrievalOK, MainTold
<1> QED
  BY <1>3, <1>4, <1>5 DEF RetrievalOK

\* An ask begins with nothing found, its queries scoped to its resource.
LEMMA BeginRetrievalKeeps ==
    ASSUME RetrievalTypes, NEW a \in Asks, RetrievalOK(a), BeginRetrieval(a), UNCHANGED record,
           record[a].kbid => stage[a] = "done"
    PROVE  RetrievalOK(a)'
<1>0. /\ a \in DOMAIN options /\ options[a] \in AskOptions /\ stage[a] = "idle"
      /\ UNCHANGED <<found, related, search, options>>
      /\ options[a].prefilters \cap options[a].plain = {}
      /\ Main \in Queries /\ \A p \in Prequeries : p \in Queries
      /\ options[a].plain \subseteq Prequeries /\ options[a].prefilters \subseteq Prequeries
  BY OptionsTyped DEF BeginRetrieval, Queries, AskOptions
<1>1. /\ \A p \in Prequeries : task[a][p] = "none"
      /\ \A q \in Queries : found'[a][q] = {} /\ found[a][q] = {}
      /\ search'[a] = NoSearch
      /\ ReadsWhole(a)' = ReadsWhole(a)
      /\ ~record'[a].kbid
      /\ (options[a].resource # NoResource => related'[a] = {})
  BY <1>0 DEF RetrievalTypes, Untouched, RetrievalOK, ResourceHolds, ReadsWhole
<1>2. ASSUME NEW s, GotoStage(a, s), s \in Stages PROVE stage'[a] = s
  BY <1>2 DEF GotoStage, RetrievalTypes
<1>3. CASE UNCHANGED <<filter, task>> /\ \/ GotoStage(a, "failed")
                                         \/ GotoStage(a, "retrieved") /\ ReadsWhole(a)
  <2>1. stage'[a] = "failed" \/ (stage'[a] = "retrieved" /\ ReadsWhole(a))
    BY <1>2, <1>3 DEF Stages, RetrievalStages
  <2>2. Live(a)' = {}
    BY <1>1, <1>3 DEF Live, InState
  <2>3. GroupsAwaited(a)'
    BY <2>1, <2>2 DEF GroupsAwaited
  <2>4. PrefilterHolds(a)'
    BY <1>0, <1>1, <1>3, <2>1 DEF PrefilterHolds, PrefilterOpen
  <2>5. Unsearched(a)'
    BY <1>0, <1>1, <1>3, <2>1 DEF Unsearched
  <2>6. ResourceHolds(a)'
    BY <1>0, <1>1, <2>5 DEF ResourceHolds
  <2>7. MainTold(a)'
    BY <1>0, <1>1, <2>1, <2>5 DEF MainTold
  <2> QED
    BY <2>3, <2>4, <2>6, <2>7 DEF RetrievalOK
<1>4. CASE /\ GotoStage(a, FirstStage(a)) /\ Spawn(a, FirstGroup(a)) /\ ~ReadsWhole(a)
           /\ \/ options[a].resource = NoResource /\ UNCHANGED filter
              \/ /\ options[a].resource # NoResource /\ options[a].prefilters = {}
                 /\ ScopeTo(a, {Main} \cup options[a].plain, {options[a].resource})
  <2>1. /\ stage'[a] = FirstStage(a)
        /\ \A p \in Prequeries : task'[a][p] = IF p \in FirstGroup(a) THEN "waiting" ELSE "none"
    BY <1>0, <1>1, <1>2, <1>4, SpawnTyped DEF FirstStage, Stages, RetrievalStages
  <2>2. Live(a)' = FirstGroup(a)
    BY <1>0, <2>1 DEF Live, InState, FirstGroup
  <2>3. GroupsAwaited(a)'
    BY <1>0, <2>1, <2>2 DEF GroupsAwaited, FirstGroup, FirstStage
  <2>4. PrefilterHolds(a)'
    BY <1>0, <1>1, <2>1 DEF PrefilterHolds, PrefilterOpen, FirstStage, FirstGroup
  <2>5. ResourceHolds(a)'
    <3> SUFFICES ASSUME options[a].resource # NoResource PROVE Scoped(a)'
      BY <1>0, <1>1 DEF ResourceHolds
    <3>1. \A q \in Queries : filter'[a][q] =
             IF q \in {Main} \cup options[a].plain
             THEN AddResourceFilter(filter[a][q], {options[a].resource}) ELSE filter[a][q]
      <4>1. {options[a].resource} \in SUBSET Resources
        BY <1>0 DEF AskOptions
      <4> QED
        BY <1>0, <1>4, <4>1, ScopeTyped
    <3>2. \A q \in Queries :
             AddResourceFilter(filter[a][q], {options[a].resource}).scope \subseteq {options[a].resource}
      <4>1. \A f \in Filter :
               AddResourceFilter(f, {options[a].resource}).scope \subseteq {options[a].resource}
        BY <1>0 DEF AddResourceFilter, Filter, Unfiltered
      <4>2. \A q \in Queries : filter[a][q] \in Filter
        BY <1>0 DEF RetrievalTypes
      <4> QED
        BY <4>1, <4>2
    <3>3. \A q \in {Main} \cup options[a].plain : filter'[a][q].scope \subseteq {options[a].resource}
      BY <1>0, <3>1, <3>2
    <3> QED
      BY <1>0, <1>1, <1>4, <2>1, <3>3 DEF Scoped, FirstStage, FirstGroup
  <2>6. MainTold(a)'
    <3>1. PrequeriesTold(a)'
      BY <1>1 DEF PrequeriesTold, NoSearch
    <3> QED
      BY <1>0, <1>1, <1>4, <2>1, <3>1 DEF MainTold, FirstStage
  <2> QED
    BY <2>3, <2>4, <2>5, <2>6 DEF RetrievalOK
<1> QED
  BY <1>3, <1>4 DEF BeginRetrieval, ReadsWhole

\* What every retrieval step of an ask starts from.
LEMMA RetrievalFacts ==
    ASSUME RetrievalTypes, NEW a \in DOMAIN options
    PROVE  /\ a \in Asks /\ options[a] \in AskOptions
           /\ options[a].prefilters \cap options[a].plain = {}
           /\ options[a].prefilters \subseteq Prequeries /\ options[a].plain \subseteq Prequeries
           /\ Main \in Queries /\ Prequeries \subseteq Queries /\ Main \notin Prequeries
           /\ \A q \in Queries : filter[a][q] \in Filter
           /\ \A p \in Prequeries : task[a][p] \in TaskStates
           /\ stage[a] \in Stages
<1>1. Main \notin Prequeries
  BY RetrievalAssumption, FS_CardinalityType DEF Main
<1>2. /\ a \in Asks /\ options[a] \in AskOptions
      /\ options[a].prefilters \cap options[a].plain = {}
  BY OptionsTyped
<1>3. filter[a] \in [Queries -> Filter] /\ task[a] \in [Prequeries -> TaskStates]
  BY <1>2 DEF RetrievalTypes
<1> QED
  BY <1>1, <1>2, <1>3 DEF Queries, AskOptions, RetrievalTypes

\* A task that begins was waiting.
LEMMA BeginFindKeeps ==
    ASSUME RetrievalTypes, NEW a \in Asks, RetrievalOK(a), BeginFind(a), UNCHANGED record,
           record[a].kbid => stage[a] = "done"
    PROVE  RetrievalOK(a)'
<1> DEFINE first == Min(InState(a, "waiting"))
<1>1. /\ first \in Prequeries /\ task[a][first] = "waiting"
      /\ task' = [task EXCEPT ![a][first] = "running"]
      /\ UNCHANGED <<stage, filter, found, related, search, options>>
  BY FirstWaiting DEF BeginFind
<1> HIDE DEF first
<1>2. /\ a \in DOMAIN options
      /\ \A p \in Prequeries : task'[a][p] = IF p = first THEN "running" ELSE task[a][p]
  BY <1>1, Begun DEF RetrievalTypes
<1>3. /\ options[a].plain \subseteq Prequeries /\ options[a].prefilters \subseteq Prequeries
      /\ options[a].prefilters \cap options[a].plain = {}
  BY <1>2, RetrievalFacts
<1>4. Live(a)' = Live(a) /\ first \in Live(a)
  BY <1>1, <1>2 DEF Live, InState
<1>5. GroupsAwaited(a)'
  BY <1>1, <1>2, <1>4 DEF RetrievalOK, GroupsAwaited
<1>6. Matching(a)' = Matching(a) /\ ReadsWhole(a)' = ReadsWhole(a)
  BY <1>1 DEF Matching, ReadsWhole
<1>7. PrefilterHolds(a)'
  BY <1>1, <1>2, <1>3, <1>6 DEF RetrievalOK, PrefilterHolds, PrefilterOpen, Prefiltered
<1>8. ResourceHolds(a)'
  BY <1>1, <1>2, <1>3 DEF RetrievalOK, ResourceHolds, Unsearched, Scoped
<1>9. MainTold(a)'
  <2>1. PrequeriesTold(a) => PrequeriesTold(a)'
    BY <1>1, <1>2 DEF PrequeriesTold, Writes
  <2>2. TellsMainQuery(a, search[a]) => TellsMainQuery(a, search[a])'
    BY <1>1 DEF TellsMainQuery, Writes
  <2> QED
    BY <1>1, <1>2, <1>6, <2>1, <2>2 DEF RetrievalOK, MainTold, Unsearched
<1> QED
  BY <1>5, <1>7, <1>8, <1>9 DEF RetrievalOK

\* A find that returns has searched what its filter selects.
LEMMA FinishFindKeeps ==
    ASSUME RetrievalTypes, NEW a \in Asks, RetrievalOK(a), UNCHANGED record,
           record[a].kbid => stage[a] = "done",
           NEW p \in Prequeries, FinishFind(a, p)
    PROVE  RetrievalOK(a)'
<1>1. PICK results \in SUBSET filter[a][p].scope : found' = [found EXCEPT ![a][p] = results]
  BY DEF FinishFind
<1>2. /\ task[a][p] = "running" /\ task' = [task EXCEPT ![a][p] = "done"]
      /\ AuditRetrieve(a, p) /\ UNCHANGED <<stage, filter, related, options>>
  BY DEF FinishFind
<1>3. /\ a \in DOMAIN options
      /\ \A q \in Prequeries : task'[a][q] = IF q = p THEN "done" ELSE task[a][q]
      /\ \A q \in Queries : found'[a][q] = IF q = p THEN results ELSE found[a][q]
  BY <1>1, <1>2, Begun DEF RetrievalTypes
<1>4. /\ options[a].plain \subseteq Prequeries /\ options[a].prefilters \subseteq Prequeries
      /\ options[a].prefilters \cap options[a].plain = {}
      /\ Main \in Queries /\ Main # p /\ Prequeries \subseteq Queries
  BY <1>3, RetrievalFacts
<1>5. p \in Live(a) /\ Live(a)' \subseteq Live(a) /\ ReadsWhole(a)' = ReadsWhole(a)
  BY <1>2, <1>3 DEF Live, InState, ReadsWhole
<1>6. GroupsAwaited(a)' /\ stage[a] \in {"prefilters", "prequeries", "failed"}
  BY <1>2, <1>3, <1>5 DEF RetrievalOK, GroupsAwaited
<1>7. PrefilterHolds(a)'
  <2> SUFFICES ASSUME options[a].prefilters # {} PROVE PrefilterOpen(a)' \/ Prefiltered(a)'
    BY <1>2 DEF PrefilterHolds
  <2>1. CASE PrefilterOpen(a)
    <3>1. p \notin options[a].plain
      BY <1>2, <2>1 DEF PrefilterOpen
    <3> QED
      BY <1>2, <1>3, <1>4, <2>1, <3>1 DEF PrefilterOpen
  <2>2. CASE Prefiltered(a)
    <3>1. p \notin options[a].prefilters
      BY <1>2, <2>2 DEF Prefiltered
    <3>2. Matching(a)' = Matching(a)
      BY <1>2, <1>3, <1>4, <3>1 DEF Matching
    <3>3. p \in options[a].plain => results \subseteq Matching(a)
      BY <1>1, <2>2 DEF Prefiltered
    <3> QED
      BY <1>2, <1>3, <1>4, <2>2, <3>1, <3>2, <3>3 DEF Prefiltered
  <2> QED
    BY <1>3, <2>1, <2>2 DEF RetrievalOK, PrefilterHolds
<1>8. ResourceHolds(a)' /\ ~ReadsWhole(a)
  <2>1. ~Unsearched(a)
    BY <1>2 DEF Unsearched
  <2>2. ~ReadsWhole(a)
    BY <1>3, <2>1 DEF RetrievalOK, MainTold
  <2>3. Scoped(a) => Scoped(a)'
    <3> SUFFICES ASSUME Scoped(a) PROVE Scoped(a)'
      OBVIOUS
    <3>1. p \in options[a].plain
      BY <1>2 DEF Scoped
    <3>2. results \subseteq {options[a].resource}
      BY <1>1, <3>1 DEF Scoped
    <3> QED
      BY <1>2, <1>3, <1>4, <3>1, <3>2 DEF Scoped
  <2> QED
    BY <1>2, <1>3, <2>1, <2>2, <2>3 DEF RetrievalOK, ResourceHolds
<1>9. MainTold(a)'
  <2>1. ~record'[a].kbid
    BY <1>6
  <2>2. stage[a] \in {"prefilters", "prequeries"} => PrequeriesTold(a)'
    <3> SUFFICES ASSUME PrequeriesTold(a) PROVE PrequeriesTold(a)'
      BY <1>3 DEF RetrievalOK, MainTold
    <3>1. \A f \in SearchFields :
             search'[a].told[f] = IF f \in Writes(a, p) THEN p ELSE search[a].told[f]
      BY <1>2, <1>4, AuditRetrieveTyped
    <3>2. \A q : Writes(a, q)' = Writes(a, q)
      BY <1>2 DEF Writes
    <3> QED
      BY <1>3, <3>1, <3>2 DEF PrequeriesTold
  <2> QED
    BY <1>2, <1>5, <1>6, <1>8, <2>1, <2>2 DEF MainTold
<1> QED
  BY <1>6, <1>7, <1>8, <1>9 DEF RetrievalOK

\* A find that fails ends the request when it is waited for.
LEMMA FailFindKeeps ==
    ASSUME RetrievalTypes, NEW a \in Asks, RetrievalOK(a), UNCHANGED record,
           record[a].kbid => stage[a] = "done",
           NEW p \in Prequeries, FailFind(a, p)
    PROVE  RetrievalOK(a)'
<1>1. /\ task[a][p] = "running" /\ task' = [task EXCEPT ![a][p] = "failed"]
      /\ UNCHANGED <<filter, found, related, search, options>>
  BY DEF FailFind
<1>2. /\ a \in DOMAIN options
      /\ \A q \in Prequeries : task'[a][q] = IF q = p THEN "failed" ELSE task[a][q]
  BY <1>1, Begun DEF RetrievalTypes
<1>3. /\ options[a].plain \subseteq Prequeries /\ options[a].prefilters \subseteq Prequeries
  BY <1>2, RetrievalFacts
<1>4. p \in Live(a) /\ Live(a)' \subseteq Live(a)
      /\ Matching(a)' = Matching(a) /\ ReadsWhole(a)' = ReadsWhole(a)
  BY <1>1, <1>2 DEF Live, InState, ReadsWhole, Matching
<1>5. stage'[a] = "failed"
  BY <1>2, <1>4 DEF FailFind, GotoStage, RetrievalTypes, RetrievalOK, GroupsAwaited
<1>6. stage[a] \in {"prefilters", "prequeries", "failed"}
  BY <1>2, <1>4 DEF RetrievalOK, GroupsAwaited
<1>7. GroupsAwaited(a)'
  BY <1>5 DEF GroupsAwaited
<1>8. PrefilterHolds(a)'
  BY <1>1, <1>2, <1>3, <1>4, <1>5
     DEF RetrievalOK, PrefilterHolds, PrefilterOpen, Prefiltered
<1>9. ResourceHolds(a)' /\ ~ReadsWhole(a)
  <2>1. ~Unsearched(a)
    BY <1>1 DEF Unsearched
  <2> QED
    BY <1>1, <1>2, <1>5, <2>1 DEF RetrievalOK, MainTold, ResourceHolds, Scoped
<1>10. MainTold(a)'
  BY <1>1, <1>4, <1>5, <1>6, <1>9 DEF MainTold
<1> QED
  BY <1>7, <1>8, <1>9, <1>10 DEF RetrievalOK

\* The prefilters over, the other queries are scoped to what they match.
LEMMA EndPrefiltersKeeps ==
    ASSUME RetrievalTypes, NEW a \in Asks, RetrievalOK(a), UNCHANGED record,
           record[a].kbid => stage[a] = "done", EndPrefilters(a)
    PROVE  RetrievalOK(a)'
<1>1. /\ stage[a] = "prefilters" /\ options[a].prefilters \subseteq InState(a, "done")
      /\ UNCHANGED <<found, related, search, options>>
  BY DEF EndPrefilters
<1>2. a \in DOMAIN options
  BY <1>1, Begun
<1>3. /\ options[a].plain \subseteq Prequeries /\ options[a].prefilters \subseteq Prequeries
      /\ Main \in Queries /\ Main \notin Prequeries /\ Prequeries \subseteq Queries
      /\ options[a].prefilters \cap options[a].plain = {}
      /\ \A q \in Queries : filter[a][q] \in Filter
  BY <1>2, RetrievalFacts
<1>4. Live(a) = {}
  <2>1. Live(a) \subseteq options[a].prefilters
    BY <1>1, <1>2 DEF RetrievalOK, GroupsAwaited
  <2>2. \A p \in options[a].prefilters : task[a][p] = "done"
    BY <1>1 DEF InState
  <2> QED
    BY <2>1, <2>2 DEF Live, InState
<1>5. options[a].resource = NoResource
  BY <1>1, <1>2 DEF RetrievalOK, ResourceHolds, Unsearched, Scoped
<1>6. ReadsWhole(a)' = ReadsWhole(a) /\ ~ReadsWhole(a) /\ Matching(a)' = Matching(a)
  BY <1>1, <1>5 DEF ReadsWhole, Matching
<1>7. ResourceHolds(a)'
  BY <1>1, <1>5 DEF ResourceHolds
<1>8. ~record'[a].kbid
  BY <1>1
<1>9. CASE GotoStage(a, "empty") /\ UNCHANGED <<filter, task>>
  <2>1. stage'[a] = "empty"
    BY <1>9 DEF GotoStage, RetrievalTypes
  <2>2. Live(a)' = {}
    BY <1>4, <1>9 DEF Live, InState
  <2>3. GroupsAwaited(a)' /\ MainTold(a)'
    BY <1>6, <1>8, <2>1, <2>2 DEF GroupsAwaited, MainTold
  <2>4. PrefilterHolds(a)'
    BY <1>1, <1>2, <1>9, <2>1 DEF RetrievalOK, PrefilterHolds, PrefilterOpen, Prefiltered
  <2> QED
    BY <1>7, <2>3, <2>4 DEF RetrievalOK
<1>10. CASE /\ ScopeTo(a, {Main} \cup options[a].plain, Matching(a))
            /\ Spawn(a, options[a].plain)
            /\ GotoStage(a, IF options[a].plain # {} THEN "prequeries" ELSE "main")
            /\ Matching(a) # {}
  <2>1. stage'[a] = IF options[a].plain # {} THEN "prequeries" ELSE "main"
    BY <1>10 DEF GotoStage, RetrievalTypes
  <2>2. \A p \in Prequeries : task'[a][p] = IF p \in options[a].plain THEN "waiting" ELSE task[a][p]
    BY <1>2, <1>10, SpawnTyped
  <2>3. Live(a)' = options[a].plain
    BY <1>3, <1>4, <2>2 DEF Live, InState
  <2>4. GroupsAwaited(a)' /\ MainTold(a)'
    <3>1. PrequeriesTold(a) /\ options[a].prefilters # {}
      BY <1>1, <1>2, <1>10 DEF RetrievalOK, MainTold, Matching
    <3>2. \A p \in options[a].plain : task[a][p] = "none"
      BY <1>1, <1>2, <3>1 DEF RetrievalOK, PrefilterHolds, PrefilterOpen, Prefiltered
    <3>3. Matching(a) \in SUBSET Resources
      <4>1. \A p \in options[a].prefilters : found[a][p] \subseteq Resources
        BY <1>3 DEF RetrievalTypes
      <4> QED
        BY <4>1 DEF Matching
    <3>4. \A p \in Prequeries \ options[a].plain : filter'[a][p] = filter[a][p]
      BY <1>2, <1>3, <1>10, <3>3, ScopeTyped
    <3>5. \A p \in Prequeries \ options[a].plain : Writes(a, p)' = Writes(a, p)
      BY <1>1, <3>4 DEF Writes
    <3>6. PrequeriesTold(a)'
      BY <1>1, <2>2, <3>1, <3>2, <3>5 DEF PrequeriesTold
    <3> QED
      BY <1>1, <1>6, <1>8, <2>1, <2>3, <3>6 DEF GroupsAwaited, MainTold
  <2>5. \A q \in {Main} \cup options[a].plain : filter'[a][q].scope \subseteq Matching(a)
    <3>1. Matching(a) \in SUBSET Resources
      <4>1. \A p \in options[a].prefilters : found[a][p] \subseteq Resources
        BY <1>3 DEF RetrievalTypes
      <4> QED
        BY <4>1 DEF Matching
    <3>2. \A f \in Filter : AddResourceFilter(f, Matching(a)).scope \subseteq Matching(a)
      BY <1>10, <3>1 DEF AddResourceFilter, Filter, Unfiltered
    <3>3. \A q \in Queries :
             filter'[a][q] = IF q \in {Main} \cup options[a].plain
                             THEN AddResourceFilter(filter[a][q], Matching(a)) ELSE filter[a][q]
      BY <1>2, <1>10, <3>1, ScopeTyped
    <3> QED
      BY <1>3, <3>2, <3>3
  <2>6. PrefilterHolds(a)'
    <3> SUFFICES ASSUME options[a].prefilters # {} PROVE Prefiltered(a)'
      BY <1>1 DEF PrefilterHolds
    <3>1. PrefilterOpen(a)
      BY <1>1, <1>2 DEF RetrievalOK, PrefilterHolds, Prefiltered
    <3>2. \A q \in {Main} \cup options[a].plain : found'[a][q] = {}
      BY <1>1, <3>1 DEF PrefilterOpen
    <3>3. \A p \in options[a].prefilters : task'[a][p] = "done"
      BY <1>1, <1>3, <2>2 DEF InState
    <3> QED
      BY <1>1, <1>6, <2>1, <2>5, <3>2, <3>3 DEF Prefiltered
  <2> QED
    BY <1>7, <2>4, <2>6 DEF RetrievalOK
<1> QED
  BY <1>9, <1>10 DEF EndPrefilters

\* The main query follows when all of the plain prequeries are done.
LEMMA EndPrequeriesKeeps ==
    ASSUME RetrievalTypes, NEW a \in Asks, RetrievalOK(a), UNCHANGED record,
           record[a].kbid => stage[a] = "done", EndPrequeries(a)
    PROVE  RetrievalOK(a)'
<1>1. /\ stage[a] = "prequeries" /\ options[a].plain \subseteq InState(a, "done")
      /\ UNCHANGED <<filter, task, found, related, search, options>>
      /\ stage'[a] = "main"
  BY DEF EndPrequeries, GotoStage, RetrievalTypes
<1>2. a \in DOMAIN options
  BY <1>1, Begun
<1>3. Live(a)' = {}
  <2>1. Live(a) \subseteq options[a].plain
    BY <1>1, <1>2 DEF RetrievalOK, GroupsAwaited
  <2> QED
    BY <1>1, <2>1 DEF Live, InState
<1>4. ReadsWhole(a)' = ReadsWhole(a) /\ Matching(a)' = Matching(a)
  BY <1>1 DEF ReadsWhole, Matching
<1>5. GroupsAwaited(a)'
  BY <1>1, <1>3 DEF GroupsAwaited
<1>6. PrefilterHolds(a)'
  BY <1>1, <1>2, <1>4 DEF RetrievalOK, PrefilterHolds, PrefilterOpen, Prefiltered
<1>7. ResourceHolds(a)'
  BY <1>1, <1>2 DEF RetrievalOK, ResourceHolds, Unsearched, Scoped
<1>8. MainTold(a)'
  <2>1. PrequeriesTold(a)'
    BY <1>1, <1>2 DEF RetrievalOK, MainTold, PrequeriesTold, Writes
  <2> QED
    BY <1>1, <1>2, <1>4, <2>1 DEF RetrievalOK, MainTold, Unsearched
<1> QED
  BY <1>5, <1>6, <1>7, <1>8 DEF RetrievalOK

\* The main query writes what it has over what the prequeries told.
LEMMA MainQueryKeeps ==
    ASSUME RetrievalTypes, NEW a \in Asks, RetrievalOK(a), UNCHANGED record,
           record[a].kbid => stage[a] = "done", MainQuery(a)
    PROVE  RetrievalOK(a)'
<1>1. stage[a] = "main" /\ UNCHANGED <<filter, task, related, options>>
  BY DEF MainQuery
<1>2. a \in DOMAIN options
  BY <1>1, Begun
<1>3. Live(a)' = {}
  BY <1>1, <1>2 DEF RetrievalOK, GroupsAwaited, Live, InState
<1>4. ReadsWhole(a)' = ReadsWhole(a) /\ ~ReadsWhole(a)
  BY <1>1, <1>2 DEF RetrievalOK, MainTold, Unsearched, ReadsWhole
<1>5. /\ options[a].plain \subseteq Prequeries /\ options[a].prefilters \subseteq Prequeries
      /\ Main \in Queries /\ Main \notin Prequeries /\ Prequeries \subseteq Queries
  BY <1>2, RetrievalFacts
<1>6. CASE GotoStage(a, "failed") /\ UNCHANGED <<found, search>>
  <2>1. stage'[a] = "failed" /\ Matching(a)' = Matching(a)
    BY <1>1, <1>6 DEF GotoStage, RetrievalTypes, Matching
  <2>2. GroupsAwaited(a)' /\ MainTold(a)'
    BY <1>1, <1>4, <2>1 DEF GroupsAwaited, MainTold
  <2>3. PrefilterHolds(a)'
    BY <1>1, <1>2, <1>6, <2>1 DEF RetrievalOK, PrefilterHolds, PrefilterOpen, Prefiltered
  <2>4. ResourceHolds(a)'
    BY <1>1, <1>2, <1>6, <2>1 DEF RetrievalOK, ResourceHolds, Unsearched, Scoped
  <2> QED
    BY <2>2, <2>3, <2>4 DEF RetrievalOK
<1>7. ASSUME NEW results \in SUBSET filter[a][Main].scope,
             NEW s \in {"graph", "empty", "retrieved"},
             s = "graph" => options[a].resource = NoResource,
             found' = [found EXCEPT ![a][Main] = results],
             AuditRetrieve(a, Main), GotoStage(a, s)
      PROVE  RetrievalOK(a)'
  <2>1. /\ stage'[a] = s
        /\ \A q \in Queries : found'[a][q] = IF q = Main THEN results ELSE found[a][q]
    BY <1>5, <1>7 DEF GotoStage, RetrievalTypes
  <2>2. Matching(a)' = Matching(a)
    BY <1>1, <1>5, <2>1 DEF Matching
  <2>3. GroupsAwaited(a)' /\ MainTold(a)'
    <3>1. PrequeriesTold(a)
      BY <1>1, <1>2 DEF RetrievalOK, MainTold
    <3>2. /\ \A f \in SearchFields :
               search'[a].told[f] = IF f \in Writes(a, Main) THEN Main ELSE search[a].told[f]
          /\ "semantic" \in options[a].parts[Main] =>
               search'[a].vectors # <<>> /\ Last(search'[a].vectors) = Main
      BY <1>5, <1>7, AuditRetrieveTyped
    <3>3. \A q : Writes(a, q)' = Writes(a, q)
      BY <1>1 DEF Writes
    <3>4. TellsMainQuery(a, search[a])'
      BY <1>1, <3>1, <3>2, <3>3 DEF PrequeriesTold, TellsMainQuery
    <3> QED
      BY <1>1, <1>3, <1>4, <2>1, <3>4 DEF GroupsAwaited, MainTold
  <2>4. PrefilterHolds(a)'
    <3> SUFFICES ASSUME options[a].prefilters # {} PROVE Prefiltered(a)'
      BY <1>1 DEF PrefilterHolds
    <3>1. Prefiltered(a)
      BY <1>1, <1>2 DEF RetrievalOK, PrefilterHolds, PrefilterOpen
    <3>2. results \subseteq Matching(a)
      BY <1>7, <3>1 DEF Prefiltered
    <3> QED
      BY <1>1, <1>5, <2>1, <2>2, <3>1, <3>2 DEF Prefiltered
  <2>5. ResourceHolds(a)'
    <3> SUFFICES ASSUME options[a].resource # NoResource PROVE related[a] = {} /\ Scoped(a)'
      BY <1>1 DEF ResourceHolds
    <3>1. related[a] = {} /\ Scoped(a)
      BY <1>1, <1>2 DEF RetrievalOK, ResourceHolds, Unsearched
    <3>2. results \subseteq {options[a].resource}
      BY <1>7, <3>1 DEF Scoped
    <3> QED
      BY <1>1, <1>5, <1>7, <2>1, <3>1, <3>2 DEF Scoped
  <2> QED
    BY <2>3, <2>4, <2>5 DEF RetrievalOK
<1>8. \A results : Judged(a, results) \in {"empty", "retrieved"}
  BY DEF Judged
<1> QED
  BY <1>6, <1>7, <1>8 DEF MainQuery

\* The graph is searched in asks of the whole knowledge box only.
LEMMA GraphQueryKeeps ==
    ASSUME RetrievalTypes, NEW a \in Asks, RetrievalOK(a), UNCHANGED record,
           record[a].kbid => stage[a] = "done", GraphQuery(a)
    PROVE  RetrievalOK(a)'
<1>1. stage[a] = "graph" /\ UNCHANGED <<filter, task, found, search, options>>
  BY DEF GraphQuery
<1>2. a \in DOMAIN options
  BY <1>1, Begun
<1>3. options[a].resource = NoResource
  BY <1>1, <1>2 DEF RetrievalOK, ResourceHolds, Unsearched, Scoped
<1>4. \A results : Judged(a, results) \in {"empty", "retrieved"}
  BY DEF Judged
<1>5. stage'[a] \in {"empty", "retrieved", "failed"}
  BY <1>4 DEF GraphQuery, GotoStage, RetrievalTypes
<1>6. /\ Live(a)' = Live(a) /\ ReadsWhole(a)' = ReadsWhole(a) /\ Matching(a)' = Matching(a)
  BY <1>1 DEF Live, InState, ReadsWhole, Matching
<1>7. GroupsAwaited(a)' /\ ResourceHolds(a)'
  BY <1>1, <1>2, <1>3, <1>5, <1>6 DEF RetrievalOK, GroupsAwaited, ResourceHolds
<1>8. PrefilterHolds(a)'
  BY <1>1, <1>2, <1>5, <1>6 DEF RetrievalOK, PrefilterHolds, PrefilterOpen, Prefiltered
<1>9. MainTold(a)'
  <2>1. TellsMainQuery(a, search[a]) => TellsMainQuery(a, search[a])'
    BY <1>1 DEF TellsMainQuery, Writes
  <2> QED
    BY <1>1, <1>2, <1>3, <1>5, <1>6, <2>1 DEF RetrievalOK, MainTold, ReadsWhole
<1> QED
  BY <1>7, <1>8, <1>9 DEF RetrievalOK

\* Every step of a retrieval keeps what holds of it, and leaves the others alone.
LEMMA RetrievalStepKeeps ==
    ASSUME RetrievalTypes, \A x \in Asks : RetrievalOK(x),
           \A x \in Asks : record[x].kbid => stage[x] = "done",
           NEW a \in Asks, RetrievalStep(a), UNCHANGED record
    PROVE  RetrievalTypes' /\ Alone(a) /\ \A x \in Asks : RetrievalOK(x)'
<1>1. RetrievalTypes' /\ Alone(a)
  BY BeginRetrievalTyped, FindTyped, QueryTyped DEF RetrievalStep
<1>2. RetrievalOK(a)'
  BY BeginRetrievalKeeps, BeginFindKeeps, FinishFindKeeps, FailFindKeeps, EndPrefiltersKeeps,
     EndPrequeriesKeeps, MainQueryKeeps, GraphQueryKeeps DEF RetrievalStep
<1>3. ASSUME NEW x \in Asks \ {a} PROVE RetrievalOK(x)'
  BY <1>1, RetrievalOKKept DEF Alone
<1> QED
  BY <1>1, <1>2, <1>3

---------------------------------------------------------------------------
(***************************************************************************)
(* What holds of an answer.                                                *)
(***************************************************************************)
\* What a response may yield.
Items == Chunks \cup Notices

\* The types of what an answer keeps.
AnswerTypes ==
  /\ model \in [Asks -> {"silent", "open", "ended", "broken"}]
  /\ stream \in [Asks -> Seq(Chunks)] /\ unread \in [Asks -> Seq(Chunks)]
  /\ answer \in [Asks -> Texts]
  /\ items \in [Asks -> Seq(Items)]
  /\ status \in [Asks -> Codes \cup {NoStatus}]
  /\ record \in [Asks -> Records]

\* How much of the stream has been read.
ReadCount(a) == Len(stream[a]) - Len(unread[a])
\* What of the stream has been read.
ReadOf(a) == SubSeq(stream[a], 1, ReadCount(a))

\* The stream is read in order: the text and the status are those of what has been read,
\* and the items have the text.
ReadInOrder(a) ==
  /\ Len(unread[a]) <= Len(stream[a])
  /\ \A i \in DOMAIN unread[a] : unread[a][i] = stream[a][ReadCount(a) + i]
  /\ answer[a] = TextOf(ReadOf(a))
  /\ status[a] = LastCode(ReadOf(a))
  /\ TextOf(items[a]) = answer[a]

\* The model is silent during the retrieval, and has ended when a status is told.
StreamFollowsStage(a) ==
  /\ stage[a] \in RetrievalStages \ {"failed"} => model[a] = "silent"
  /\ model[a] = "silent" => stream[a] = <<>>
  /\ stage[a] \in {"telling", "auditing"} \/ record[a].kbid => model[a] = "ended" /\ unread[a] = <<>>

\* The audit request has the whole answer once it has a kbid.
RecordFollowsStage(a) ==
  /\ stage[a] = "auditing" => StatusCode(a) # "error"
  /\ stage[a] # "done" => record[a] = Unaudited
  /\ record[a].kbid =>
        /\ record[a].status = StatusCode(a)
        /\ record[a].status # "error"
        /\ record[a].answer = IF record[a].status = "no_context" THEN <<>> ELSE TextOf(stream[a])

\* No outcome is told before the status.
ToldFollowsStage(a) ==
  /\ stage[a] \in RetrievalStages \cup {"reading", "telling"} => ToldOutcome(a) = {}
  /\ stage[a] = "auditing" => ToldOutcome(a) = {StatusCode(a)}

\* What holds of the answer of an ask.
AnswerOK(a) ==
  ReadInOrder(a) /\ StreamFollowsStage(a) /\ RecordFollowsStage(a) /\ ToldFollowsStage(a)

\* Nothing of ask x changes in its answer.
AnswerKept(x) ==
  /\ stage'[x] = stage[x] /\ model'[x] = model[x] /\ stream'[x] = stream[x]
  /\ unread'[x] = unread[x] /\ answer'[x] = answer[x] /\ status'[x] = status[x]
  /\ items'[x] = items[x] /\ record'[x] = record[x]

\* What holds of an answer depends on it alone.
LEMMA AnswerOKKept ==
    ASSUME NEW x, AnswerKept(x), AnswerOK(x)
    PROVE  AnswerOK(x)'
<1>1. ReadOf(x)' = ReadOf(x) /\ ReadCount(x)' = ReadCount(x)
  BY DEF AnswerKept, ReadOf, ReadCount
<1>2. ReadInOrder(x)'
  BY <1>1 DEF AnswerKept, AnswerOK, ReadInOrder
<1>3. StreamFollowsStage(x)' /\ RecordFollowsStage(x)' /\ ToldFollowsStage(x)'
  BY DEF AnswerKept, AnswerOK, StreamFollowsStage, RecordFollowsStage, ToldFollowsStage,
         StatusCode, ToldOutcome
<1> QED
  BY <1>2, <1>3 DEF AnswerOK

\* A retrieval steps while it has not been handed over to its answer.
LEMMA RetrievalStepStages ==
    ASSUME RetrievalTypes, NEW a \in Asks, RetrievalOK(a), RetrievalStep(a)
    PROVE  /\ stage[a] \in RetrievalStages /\ stage'[a] \in RetrievalStages
           /\ stage'[a] = "failed" \/ (stage[a] # "failed" /\ stage'[a] # "failed")
<1>1. stage \in [Asks -> Stages]
  BY DEF RetrievalTypes
<1>2. CASE BeginRetrieval(a)
  BY <1>1, <1>2 DEF BeginRetrieval, GotoStage, FirstStage, RetrievalStages
<1>3. ASSUME Live(a) # {}
      PROVE  stage[a] \in {"prefilters", "prequeries", "failed"}
  <2>1. a \in DOMAIN options
    BY <1>3, Begun DEF Live, InState
  <2> QED
    BY <1>3, <2>1 DEF RetrievalOK, GroupsAwaited
<1>4. CASE BeginFind(a)
  BY <1>1, <1>3, <1>4 DEF BeginFind, Live, RetrievalStages
<1>5. ASSUME NEW p \in Prequeries, FinishFind(a, p) \/ FailFind(a, p)
      PROVE  /\ stage[a] \in RetrievalStages /\ stage'[a] \in RetrievalStages
             /\ stage'[a] = "failed" \/ (stage[a] # "failed" /\ stage'[a] # "failed")
  <2>1. stage[a] \in {"prefilters", "prequeries", "failed"}
    BY <1>3, <1>5 DEF FinishFind, FailFind, Live, InState
  <2> QED
    BY <1>1, <1>5, <2>1 DEF FinishFind, FailFind, GotoStage, RetrievalStages
<1>6. CASE EndPrefilters(a)
  BY <1>1, <1>6 DEF EndPrefilters, GotoStage, RetrievalStages
<1>7. CASE EndPrequeries(a)
  BY <1>1, <1>7 DEF EndPrequeries, GotoStage, RetrievalStages
<1>8. CASE MainQuery(a)
  BY <1>1, <1>8 DEF MainQuery, GotoStage, Judged, RetrievalStages
<1>9. CASE GraphQuery(a)
  BY <1>1, <1>9 DEF GraphQuery, GotoStage, Judged, RetrievalStages
<1> QED
  BY <1>2, <1>4, <1>5, <1>6, <1>7, <1>8, <1>9 DEF RetrievalStep

\* A step of the retrieval leaves what holds of the answer.
LEMMA RetrievalKeepsAnswer ==
    ASSUME RetrievalTypes, NEW a \in Asks, RetrievalOK(a), AnswerOK(a),
           RetrievalStep(a), UNCHANGED answerVars
    PROVE  AnswerOK(a)'
<1>1. /\ stage[a] \in RetrievalStages /\ stage'[a] \in RetrievalStages
      /\ stage'[a] = "failed" \/ (stage[a] # "failed" /\ stage'[a] # "failed")
  BY RetrievalStepStages
<1>2. UNCHANGED <<model, stream, unread, answer, status, items, record>>
  BY DEF answerVars
<1>3. ReadInOrder(a)'
  BY <1>2 DEF AnswerOK, ReadInOrder, ReadOf, ReadCount
<1>4. StreamFollowsStage(a)' /\ RecordFollowsStage(a)' /\ ToldFollowsStage(a)'
  BY <1>1, <1>2 DEF AnswerOK, StreamFollowsStage, RecordFollowsStage, ToldFollowsStage,
         StatusCode, ToldOutcome, RetrievalStages
<1> QED
  BY <1>3, <1>4 DEF AnswerOK

---------------------------------------------------------------------------
(***************************************************************************)
(* Each step of an answer keeps it.                                        *)
(***************************************************************************)
\* A word of the answer is neither a status nor a notice.
LEMMA WordsApart ==
  /\ Chunks = ToSet(Words) \cup Codes
  /\ Codes \cap ToSet(Words) = {} /\ Notices \cap ToSet(Words) = {}
  /\ NoStatus \notin Codes
  /\ Texts = Seq(ToSet(Words))
  /\ Codes = {"success", "error", "no_context"}
BY AskResultAssumption DEF Chunks, Texts, Codes

\* One item more: its text and its outcome.
LEMMA ItemTold ==
    ASSUME NEW s \in Seq(Items), NEW c \in Items
    PROVE  /\ s \o <<c>> = Append(s, c) /\ s \o <<c>> \in Seq(Items)
           /\ TextOf(s \o <<c>>) = IF c \in ToSet(Words) THEN Append(TextOf(s), c) ELSE TextOf(s)
           /\ ToSet(s \o <<c>>) = ToSet(s) \cup {c}
<1>1. s \o <<c>> = Append(s, c) /\ s \o <<c>> \in Seq(Items)
  OBVIOUS
<1>2. TextOf(Append(s, c)) = IF c \in ToSet(Words) THEN Append(TextOf(s), c) ELSE TextOf(s)
  BY ChosenAppend DEF TextOf
<1>3. ToSet(Append(s, c)) = ToSet(s) \cup {c}
  BY ToSetAppend
<1> QED
  BY <1>1, <1>2, <1>3

\* An answer step of ask a leaves the retrieval as it is, and the other answers.
AnswerAlone(a) ==
  /\ UNCHANGED <<filter, task, found, related, search, options>>
  /\ \A x \in Asks \ {a} : AnswerKept(x)

\* What the model sends arrives at the end of the stream, and of what is to be
\* read.
LEMMA ModelSendsKeeps ==
    ASSUME AnswerTypes, NEW a \in Asks, AnswerOK(a), ModelSends(a)
    PROVE  AnswerTypes' /\ AnswerAlone(a) /\ AnswerOK(a)'
<1>1. PICK c \in Codes \cup {Words[Len(stream[a]) + 1]} :
         /\ stream' = [stream EXCEPT ![a] = Append(@, c)]
         /\ unread' = [unread EXCEPT ![a] = Append(@, c)]
  BY DEF ModelSends
<1>2. /\ model[a] = "open" /\ Len(stream[a]) < Len(Words)
      /\ UNCHANGED <<stage, filter, task, found, related, search, options>>
      /\ UNCHANGED <<model, answer, status, items, record>>
  BY DEF ModelSends, retrievalVars
<1>3. c \in Chunks
  <2>1. Words \in Seq(ToSet(Words))
    BY AskResultAssumption
  <2>2. Len(stream[a]) \in Nat
    BY DEF AnswerTypes
  <2>3. Words[Len(stream[a]) + 1] \in ToSet(Words)
    BY <1>2, <2>1, <2>2 DEF ToSet
  <2> QED
    BY <2>3, WordsApart
<1>4. /\ stream[a] \in Seq(Chunks) /\ unread[a] \in Seq(Chunks)
      /\ stream'[a] = Append(stream[a], c) /\ unread'[a] = Append(unread[a], c)
      /\ stream' \in [Asks -> Seq(Chunks)] /\ unread' \in [Asks -> Seq(Chunks)]
      /\ \A x \in Asks \ {a} : stream'[x] = stream[x] /\ unread'[x] = unread[x]
  BY <1>1, <1>3 DEF AnswerTypes
<1>5. AnswerTypes'
  BY <1>2, <1>4 DEF AnswerTypes
<1>6. AnswerAlone(a)
  BY <1>2, <1>4 DEF AnswerAlone, AnswerKept
<1>7. /\ ReadCount(a)' = ReadCount(a) /\ ReadOf(a)' = ReadOf(a)
      /\ Len(unread'[a]) <= Len(stream'[a])
      /\ \A i \in DOMAIN unread'[a] : unread'[a][i] = stream'[a][ReadCount(a) + i]
  <2>1. /\ Len(unread[a]) <= Len(stream[a])
        /\ \A i \in DOMAIN unread[a] : unread[a][i] = stream[a][Len(stream[a]) - Len(unread[a]) + i]
    BY DEF AnswerOK, ReadInOrder, ReadCount
  <2>2. LET k == Len(stream[a]) - Len(unread[a]) IN
        /\ Len(stream'[a]) - Len(unread'[a]) = k /\ Len(unread'[a]) <= Len(stream'[a])
        /\ SubSeq(stream'[a], 1, k) = SubSeq(stream[a], 1, k)
        /\ \A i \in DOMAIN unread'[a] : unread'[a][i] = stream'[a][k + i]
    <3> DEFINE s == stream[a]
               u == unread[a]
    <3>1. /\ s \in Seq(Chunks) /\ u \in Seq(Chunks) /\ Len(u) <= Len(s)
          /\ \A i \in DOMAIN u : u[i] = s[Len(s) - Len(u) + i]
      BY <1>4, <2>1
    <3> HIDE DEF s, u
    <3>2. LET k == Len(s) - Len(u) IN
          /\ Len(Append(s, c)) - Len(Append(u, c)) = k /\ Len(Append(u, c)) <= Len(Append(s, c))
          /\ SubSeq(Append(s, c), 1, k) = SubSeq(s, 1, k)
          /\ \A i \in DOMAIN Append(u, c) : Append(u, c)[i] = Append(s, c)[k + i]
      BY <1>3, <3>1, EndsArrive
    <3> QED
      BY <1>4, <3>2 DEF s, u
  <2> QED
    BY <2>2 DEF ReadCount, ReadOf
<1>8. ReadInOrder(a)'
  BY <1>2, <1>7 DEF AnswerOK, ReadInOrder
<1>9. StreamFollowsStage(a)' /\ RecordFollowsStage(a)' /\ ToldFollowsStage(a)'
  BY <1>2 DEF AnswerOK, StreamFollowsStage, RecordFollowsStage, ToldFollowsStage,
         StatusCode, ToldOutcome
<1> QED
  BY <1>5, <1>6, <1>8, <1>9 DEF AnswerOK

\* The stream ends or breaks; what has been read stays read.
LEMMA ModelStopsKeeps ==
    ASSUME AnswerTypes, NEW a \in Asks, AnswerOK(a), ModelStops(a)
    PROVE  AnswerTypes' /\ AnswerAlone(a) /\ AnswerOK(a)'
<1>1. /\ model[a] = "open" /\ model'[a] \in {"ended", "broken"}
      /\ model' \in [Asks -> {"silent", "open", "ended", "broken"}]
      /\ \A x \in Asks \ {a} : model'[x] = model[x]
      /\ UNCHANGED <<stage, filter, task, found, related, search, options>>
      /\ UNCHANGED <<stream, unread, answer, status, items, record>>
  BY DEF ModelStops, retrievalVars, AnswerTypes
<1>2. AnswerTypes' /\ AnswerAlone(a)
  BY <1>1 DEF AnswerTypes, AnswerAlone, AnswerKept
<1>3. ReadInOrder(a)'
  BY <1>1 DEF AnswerOK, ReadInOrder, ReadOf, ReadCount
<1>4. StreamFollowsStage(a)' /\ RecordFollowsStage(a)' /\ ToldFollowsStage(a)'
  BY <1>1 DEF AnswerOK, StreamFollowsStage, RecordFollowsStage, ToldFollowsStage,
         StatusCode, ToldOutcome
<1> QED
  BY <1>2, <1>3, <1>4 DEF AnswerOK

\* Where only the stage and the items of an ask change.
LEMMA ToldKeeps ==
    ASSUME RetrievalTypes, AnswerTypes, NEW a \in Asks, AnswerOK(a),
           NEW s \in Stages, NEW new \in Seq(Items),
           stage' = [stage EXCEPT ![a] = s],
           items' = [items EXCEPT ![a] = @ \o new],
           TextOf(items[a] \o new) = TextOf(items[a]),
           UNCHANGED <<filter, task, found, related, search, options, model, stream,
                       unread, answer, status, record>>
    PROVE  /\ AnswerTypes' /\ AnswerAlone(a) /\ ReadInOrder(a)'
           /\ items'[a] = items[a] \o new /\ stage'[a] = s
<1>1. /\ items[a] \in Seq(Items) /\ items[a] \o new \in Seq(Items)
      /\ items'[a] = items[a] \o new
      /\ items' \in [Asks -> Seq(Items)]
      /\ \A x \in Asks \ {a} : items'[x] = items[x]
  BY DEF AnswerTypes
<1>2. stage'[a] = s /\ \A x \in Asks \ {a} : stage'[x] = stage[x]
  BY DEF RetrievalTypes
<1>3. AnswerTypes' /\ AnswerAlone(a)
  BY <1>1, <1>2 DEF AnswerTypes, AnswerAlone, AnswerKept
<1>4. ReadInOrder(a)'
  BY <1>1 DEF AnswerOK, ReadInOrder, ReadOf, ReadCount
<1> QED
  BY <1>1, <1>2, <1>3, <1>4

\* One notice or status more.
LEMMA NoticeTold ==
    ASSUME NEW s \in Seq(Items), NEW c \in Codes \cup Notices
    PROVE  /\ <<c>> \in Seq(Items) /\ s \o <<c>> \in Seq(Items)
           /\ TextOf(s \o <<c>>) = TextOf(s)
           /\ ToSet(s \o <<c>>) = ToSet(s) \cup {c}
<1>1. c \in Items /\ c \notin ToSet(Words)
  BY WordsApart DEF Items, Chunks
<1> QED
  BY <1>1, ItemTold

\* The outcome that what is told shows.
Outcomes == {"success", "error", "no_context", "no_retrieval_data", "error item"}

\* An outcome is not a word of the answer.
LEMMA OutcomesApart == Outcomes \cap ToSet(Words) = {}
BY WordsApart DEF Outcomes, Notices

\* NotEnoughContextAskResult tells its outcome, and no model has been asked.
LEMMA AnswerNotEnoughKeeps ==
    ASSUME RetrievalTypes, AnswerTypes, NEW a \in Asks, AnswerOK(a), AnswerNotEnough(a)
    PROVE  AnswerTypes' /\ AnswerAlone(a) /\ AnswerOK(a)'
<1> DEFINE new == <<"no_retrieval_data", "not enough context", "retrieval">>
<1>1. /\ stage[a] = "empty" /\ stage' = [stage EXCEPT ![a] = "done"]
      /\ items' = [items EXCEPT ![a] = @ \o new]
      /\ UNCHANGED <<filter, task, found, related, search, options, model, stream,
                     unread, answer, status, record>>
  BY DEF AnswerNotEnough, GotoStage, Told
<1>2. new \in Seq(Items) /\ TextOf(items[a] \o new) = TextOf(items[a])
  <2>1. new \in Seq(Notices)
    BY DEF Notices
  <2> HIDE DEF new
  <2>2. /\ items[a] \in Seq(Items) /\ new \in Seq(Items)
        /\ \A i \in DOMAIN new : new[i] \notin ToSet(Words)
    BY <2>1, WordsApart DEF AnswerTypes, Items
  <2> QED
    BY <2>2, ChosenNone DEF TextOf
<1> HIDE DEF new
<1>3. "done" \in Stages
  BY DEF Stages
<1>4. /\ AnswerTypes' /\ AnswerAlone(a) /\ ReadInOrder(a)' /\ stage'[a] = "done"
  BY <1>1, <1>2, <1>3, ToldKeeps
<1>5. StreamFollowsStage(a)' /\ RecordFollowsStage(a)' /\ ToldFollowsStage(a)'
  BY <1>1, <1>4 DEF AnswerOK, StreamFollowsStage, RecordFollowsStage, ToldFollowsStage,
         StatusCode, Unaudited, RetrievalStages
<1> QED
  BY <1>4, <1>5 DEF AnswerOK

\* The model's stream opens empty, when it is asked at all.
LEMMA GenerateKeeps ==
    ASSUME RetrievalTypes, AnswerTypes, NEW a \in Asks, AnswerOK(a), Generate(a)
    PROVE  AnswerTypes' /\ AnswerAlone(a) /\ AnswerOK(a)'
<1>1. /\ stage[a] = "retrieved" /\ stage'[a] \in {"failed", "reading"}
      /\ model' \in [Asks -> {"silent", "open", "ended", "broken"}]
      /\ stage'[a] = "failed" => model'[a] = model[a]
      /\ \A x \in Asks \ {a} : stage'[x] = stage[x] /\ model'[x] = model[x]
      /\ UNCHANGED <<filter, task, found, related, search, options, stream, unread,
                     answer, status, items, record>>
  BY DEF Generate, GotoStage, RetrievalTypes, AnswerTypes
<1>2. AnswerTypes' /\ AnswerAlone(a)
  BY <1>1 DEF AnswerTypes, AnswerAlone, AnswerKept
<1>3. ReadInOrder(a)'
  BY <1>1 DEF AnswerOK, ReadInOrder, ReadOf, ReadCount
<1>4. model[a] = "silent" /\ stream[a] = <<>>
  BY <1>1 DEF AnswerOK, StreamFollowsStage, RetrievalStages
<1>5. StreamFollowsStage(a)' /\ RecordFollowsStage(a)' /\ ToldFollowsStage(a)'
  BY <1>1, <1>4 DEF AnswerOK, StreamFollowsStage, RecordFollowsStage, ToldFollowsStage,
         StatusCode, Unaudited, ToldOutcome, RetrievalStages
<1> QED
  BY <1>2, <1>3, <1>5 DEF AnswerOK

\* A stream that breaks tells an error item, or fails the request.
LEMMA StreamBreaksKeeps ==
    ASSUME RetrievalTypes, AnswerTypes, NEW a \in Asks, AnswerOK(a), StreamBreaks(a)
    PROVE  AnswerTypes' /\ AnswerAlone(a) /\ AnswerOK(a)'
<1>1. /\ stage[a] = "reading" /\ model[a] = "broken" /\ items[a] \in Seq(Items)
      /\ UNCHANGED <<filter, task, found, related, search, options, model, stream,
                     unread, answer, status, record>>
  BY DEF StreamBreaks, AnswerTypes
<1>2. CASE stage' = [stage EXCEPT ![a] = "failed"] /\ UNCHANGED items
  <2>1. stage'[a] = "failed" /\ \A x \in Asks \ {a} : stage'[x] = stage[x]
    BY <1>2 DEF RetrievalTypes
  <2>2. AnswerTypes' /\ AnswerAlone(a)
    BY <1>1, <1>2, <2>1 DEF AnswerTypes, AnswerAlone, AnswerKept
  <2>3. ReadInOrder(a)'
    BY <1>1, <1>2 DEF AnswerOK, ReadInOrder, ReadOf, ReadCount
  <2>4. StreamFollowsStage(a)' /\ RecordFollowsStage(a)' /\ ToldFollowsStage(a)'
    BY <1>1, <1>2, <2>1 DEF AnswerOK, StreamFollowsStage, RecordFollowsStage, ToldFollowsStage,
           StatusCode, Unaudited, ToldOutcome, RetrievalStages
  <2> QED
    BY <2>2, <2>3, <2>4 DEF AnswerOK
<1>3. CASE stage' = [stage EXCEPT ![a] = "done"] /\ Told(a, <<"error item">>)
  <2>1. /\ AnswerTypes' /\ AnswerAlone(a) /\ ReadInOrder(a)' /\ stage'[a] = "done"
    BY <1>1, <1>3, NoticeTold, ToldKeeps DEF Notices, Told, Stages
  <2>2. StreamFollowsStage(a)' /\ RecordFollowsStage(a)' /\ ToldFollowsStage(a)'
    BY <1>1, <2>1 DEF AnswerOK, StreamFollowsStage, RecordFollowsStage, ToldFollowsStage,
           StatusCode, Unaudited, RetrievalStages
  <2> QED
    BY <2>1, <2>2 DEF AnswerOK
<1> QED
  BY <1>2, <1>3 DEF StreamBreaks, GotoStage

\* The status is told when the stream has ended and is read to its end.
LEMMA StreamEndsKeeps ==
    ASSUME RetrievalTypes, AnswerTypes, NEW a \in Asks, AnswerOK(a), StreamEnds(a)
    PROVE  AnswerTypes' /\ AnswerAlone(a) /\ AnswerOK(a)'
<1>1. /\ stage[a] = "reading" /\ model[a] = "ended" /\ unread[a] = <<>> /\ items[a] \in Seq(Items)
      /\ stage' = [stage EXCEPT ![a] = "telling"] /\ Told(a, <<"retrieval">>)
      /\ UNCHANGED <<filter, task, found, related, search, options, model, stream,
                     unread, answer, status, record>>
  BY DEF StreamEnds, GotoStage, AnswerTypes
<1>2. /\ AnswerTypes' /\ AnswerAlone(a) /\ ReadInOrder(a)' /\ stage'[a] = "telling"
      /\ items'[a] = items[a] \o <<"retrieval">>
  BY <1>1, NoticeTold, ToldKeeps DEF Notices, Told, Stages
<1>3. ToldOutcome(a)' = ToldOutcome(a)
  <2>1. ToSet(items[a] \o <<"retrieval">>) = ToSet(items[a]) \cup {"retrieval"}
    BY <1>1, NoticeTold DEF Notices
  <2> QED
    BY <1>2, <2>1 DEF ToldOutcome
<1>4. StreamFollowsStage(a)' /\ RecordFollowsStage(a)' /\ ToldFollowsStage(a)'
  BY <1>1, <1>2, <1>3 DEF AnswerOK, StreamFollowsStage, RecordFollowsStage, ToldFollowsStage,
         StatusCode, Unaudited, RetrievalStages
<1> QED
  BY <1>2, <1>4 DEF AnswerOK

\* The status told is the only outcome so far.
LEMMA TellStatusKeeps ==
    ASSUME RetrievalTypes, AnswerTypes, NEW a \in Asks, AnswerOK(a), TellStatus(a)
    PROVE  AnswerTypes' /\ AnswerAlone(a) /\ AnswerOK(a)' /\ ToldOutcome(a)' = {StatusCode(a)}
<1>1. /\ stage[a] = "telling" /\ items[a] \in Seq(Items)
      /\ Told(a, <<StatusCode(a)>>)
      /\ GotoStage(a, IF StatusCode(a) = "error" THEN "done" ELSE "auditing")
      /\ UNCHANGED <<filter, task, found, related, search, options, model, stream,
                     unread, answer, status, record>>
  BY DEF TellStatus, AnswerTypes
<1>2. StatusCode(a) \in Codes /\ StatusCode(a)' = StatusCode(a)
  BY <1>1 DEF StatusCode, AnswerTypes, Codes
<1>3. /\ AnswerTypes' /\ AnswerAlone(a) /\ ReadInOrder(a)'
      /\ stage'[a] = IF StatusCode(a) = "error" THEN "done" ELSE "auditing"
      /\ items'[a] = items[a] \o <<StatusCode(a)>>
  <2>1. <<StatusCode(a)>> \in Seq(Items) /\ TextOf(items[a] \o <<StatusCode(a)>>) = TextOf(items[a])
    BY <1>1, <1>2, NoticeTold
  <2>2. (IF StatusCode(a) = "error" THEN "done" ELSE "auditing") \in Stages
    BY DEF Stages
  <2> QED
    BY <1>1, <2>1, <2>2, ToldKeeps DEF Told, GotoStage
<1>4. ToldOutcome(a)' = {StatusCode(a)}
  <2>1. ToSet(items[a] \o <<StatusCode(a)>>) = ToSet(items[a]) \cup {StatusCode(a)}
    BY <1>1, <1>2, NoticeTold
  <2>2. ToldOutcome(a) = {}
    BY <1>1 DEF AnswerOK, ToldFollowsStage
  <2> QED
    BY <1>2, <1>3, <2>1, <2>2 DEF ToldOutcome, Codes
<1>5. StreamFollowsStage(a)' /\ RecordFollowsStage(a)' /\ ToldFollowsStage(a)'
  BY <1>1, <1>2, <1>3, <1>4 DEF AnswerOK, StreamFollowsStage, RecordFollowsStage, ToldFollowsStage,
         Unaudited, RetrievalStages
<1> QED
  BY <1>3, <1>4, <1>5 DEF AnswerOK

\* A client that leaves stops the response where it is.
LEMMA LeaveKeeps ==
    ASSUME RetrievalTypes, AnswerTypes, NEW a \in Asks, AnswerOK(a), Leave(a)
    PROVE  AnswerTypes' /\ AnswerAlone(a) /\ AnswerOK(a)'
<1>1. /\ stage[a] \in {"reading", "telling", "auditing"} /\ stage'[a] = "left"
      /\ \A x \in Asks \ {a} : stage'[x] = stage[x]
      /\ UNCHANGED <<filter, task, found, related, search, options, model, stream,
                     unread, answer, status, items, record>>
  BY DEF Leave, GotoStage, RetrievalTypes
<1>2. AnswerTypes' /\ AnswerAlone(a)
  BY <1>1 DEF AnswerTypes, AnswerAlone, AnswerKept
<1>3. ReadInOrder(a)'
  BY <1>1 DEF AnswerOK, ReadInOrder, ReadOf, ReadCount
<1>4. StreamFollowsStage(a)' /\ RecordFollowsStage(a)' /\ ToldFollowsStage(a)'
  BY <1>1 DEF AnswerOK, StreamFollowsStage, RecordFollowsStage, ToldFollowsStage,
         StatusCode, Unaudited, RetrievalStages
<1> QED
  BY <1>2, <1>3, <1>4 DEF AnswerOK

\* A chunk that is read is the next of the stream.
LEMMA ReadChunkKeeps ==
    ASSUME RetrievalTypes, AnswerTypes, NEW a \in Asks, AnswerOK(a), ReadChunk(a)
    PROVE  AnswerTypes' /\ AnswerAlone(a) /\ AnswerOK(a)'
<1> DEFINE s == stream[a]
           u == unread[a]
           k == ReadCount(a)
           c == Head(u)
<1>1. /\ stage[a] = "reading" /\ u # <<>> /\ unread' = [unread EXCEPT ![a] = Tail(u)]
      /\ UNCHANGED <<stage, filter, task, found, related, search, options>>
      /\ UNCHANGED <<model, stream, record>>
      /\ s \in Seq(Chunks) /\ u \in Seq(Chunks) /\ items[a] \in Seq(Items) /\ answer[a] \in Texts
  BY DEF ReadChunk, retrievalVars, AnswerTypes
<1>2. Len(u) <= Len(s) /\ k = Len(s) - Len(u) /\ \A i \in DOMAIN u : u[i] = s[k + i]
  BY DEF AnswerOK, ReadInOrder, ReadCount
<1> DEFINE r == ReadOf(a)
<1>3. /\ c \in Chunks
      /\ Tail(u) \in Seq(Chunks) /\ Len(Tail(u)) <= Len(s) /\ Len(s) - Len(Tail(u)) = k + 1
      /\ \A i \in DOMAIN Tail(u) : Tail(u)[i] = s[(k + 1) + i]
      /\ SubSeq(s, 1, k + 1) = Append(SubSeq(s, 1, k), c) /\ SubSeq(s, 1, k) \in Seq(Chunks)
  <2>1. s \in Seq(Chunks) /\ u \in Seq(Chunks) /\ u # <<>>
    BY <1>1
  <2> HIDE DEF s, u, k
  <2>2. LET n == Len(s) - Len(u) IN
        /\ Head(u) \in Chunks
        /\ Tail(u) \in Seq(Chunks) /\ Len(Tail(u)) <= Len(s) /\ Len(s) - Len(Tail(u)) = n + 1
        /\ \A i \in DOMAIN Tail(u) : Tail(u)[i] = s[(n + 1) + i]
        /\ SubSeq(s, 1, n + 1) = Append(SubSeq(s, 1, n), Head(u))
        /\ SubSeq(s, 1, n) \in Seq(Chunks)
    <3>1. Len(u) <= Len(s) /\ \A i \in DOMAIN u : u[i] = s[Len(s) - Len(u) + i]
      BY <1>2
    <3> QED
      BY <2>1, <3>1, FrontRead
  <2> QED
    BY <1>2, <2>2
<1>4. /\ unread' \in [Asks -> Seq(Chunks)] /\ unread'[a] = Tail(u)
      /\ \A x \in Asks \ {a} : unread'[x] = unread[x]
  BY <1>1, <1>3 DEF AnswerTypes
<1>5. /\ ReadCount(a)' = k + 1 /\ ReadOf(a)' = Append(r, c) /\ r \in Seq(Chunks)
      /\ Len(unread'[a]) <= Len(stream'[a])
      /\ \A i \in DOMAIN unread'[a] : unread'[a][i] = stream'[a][ReadCount(a)' + i]
  <2>1. ReadCount(a)' = k + 1
    BY <1>1, <1>3, <1>4 DEF ReadCount
  <2>2. ReadOf(a)' = SubSeq(s, 1, k + 1) /\ r = SubSeq(s, 1, k)
    BY <1>1, <2>1 DEF ReadOf
  <2> HIDE DEF r, k, c
  <2> QED
    BY <1>1, <1>3, <1>4, <2>1, <2>2
<1>0. r \in Seq(Chunks) /\ c \in Chunks
  BY <1>3, <1>5
<1> HIDE DEF s, u, k, c, r
<1>6. TextOf(ReadOf(a))' = IF c \in ToSet(Words) THEN Append(TextOf(r), c) ELSE TextOf(r)
  <2>1. Chosen(Append(r, c), ToSet(Words)) =
           IF c \in ToSet(Words) THEN Append(Chosen(r, ToSet(Words)), c) ELSE Chosen(r, ToSet(Words))
    BY <1>0, ChosenAppend
  <2> QED
    BY <1>5, <2>1 DEF TextOf
<1>7. LastCode(ReadOf(a))' = IF c \in Codes THEN c ELSE LastCode(r)
  <2>1. Chosen(Append(r, c), Codes) = IF c \in Codes THEN Append(Chosen(r, Codes), c)
                                      ELSE Chosen(r, Codes)
    BY <1>0, ChosenAppend
  <2>2. Chosen(r, Codes) \in Seq(Codes \cap Chunks)
    BY <1>5, ChosenSeq
  <2> DEFINE read == Chosen(r, Codes)
  <2> HIDE DEF read
  <2>3. c \in Codes => Append(read, c) # <<>> /\ Last(Append(read, c)) = c
    BY <2>2 DEF Last, read
  <2> QED
    BY <1>5, <2>1, <2>3 DEF LastCode, read
<1>8. CASE c \in Codes /\ status' = [status EXCEPT ![a] = c] /\ UNCHANGED <<answer, items>>
  <2>1. /\ status' \in [Asks -> Codes \cup {NoStatus}] /\ status'[a] = c
        /\ \A x \in Asks \ {a} : status'[x] = status[x]
    BY <1>8 DEF AnswerTypes
  <2>2. AnswerTypes' /\ AnswerAlone(a)
    BY <1>1, <1>4, <1>8, <2>1 DEF AnswerTypes, AnswerAlone, AnswerKept
  <2>3. ReadInOrder(a)'
    <3>1. c \notin ToSet(Words)
      BY <1>8, WordsApart
    <3> QED
      BY <1>5, <1>6, <1>7, <1>8, <2>1, <3>1 DEF AnswerOK, ReadInOrder, r
  <2>4. StreamFollowsStage(a)' /\ ToldFollowsStage(a)'
    <3>1. ToldOutcome(a)' = ToldOutcome(a) /\ stage'[a] = "reading" /\ ~record'[a].kbid
      BY <1>1, <1>8 DEF ToldOutcome, AnswerOK, RecordFollowsStage, Unaudited
    <3> QED
      BY <1>1, <3>1 DEF AnswerOK, StreamFollowsStage, ToldFollowsStage, RetrievalStages
  <2>5. RecordFollowsStage(a)'
    BY <1>1 DEF AnswerOK, RecordFollowsStage, Unaudited
  <2> QED
    BY <2>2, <2>3, <2>4, <2>5 DEF AnswerOK
<1>9. CASE /\ c \notin Codes /\ answer' = [answer EXCEPT ![a] = Append(@, c)]
           /\ Told(a, <<c>>) /\ UNCHANGED status
  <2>1. c \in ToSet(Words) /\ c \in Items /\ c \notin Outcomes
    BY <1>3, <1>9, WordsApart, OutcomesApart DEF Items
  <2>2. /\ items[a] \o <<c>> \in Seq(Items)
        /\ TextOf(items[a] \o <<c>>) = Append(TextOf(items[a]), c)
        /\ ToSet(items[a] \o <<c>>) = ToSet(items[a]) \cup {c}
    BY <1>1, <2>1, ItemTold
  <2>3. /\ items' \in [Asks -> Seq(Items)] /\ items'[a] = items[a] \o <<c>>
        /\ \A x \in Asks \ {a} : items'[x] = items[x]
    BY <1>9, <2>2 DEF Told, AnswerTypes
  <2>4. /\ answer' \in [Asks -> Texts] /\ answer'[a] = Append(answer[a], c)
        /\ \A x \in Asks \ {a} : answer'[x] = answer[x]
    BY <1>1, <1>9, <2>1 DEF AnswerTypes, Texts
  <2>5. AnswerTypes' /\ AnswerAlone(a)
    BY <1>1, <1>4, <1>9, <2>3, <2>4 DEF AnswerTypes, AnswerAlone, AnswerKept
  <2>6. ReadInOrder(a)'
    BY <1>5, <1>6, <1>7, <1>9, <2>1, <2>2, <2>3, <2>4 DEF AnswerOK, ReadInOrder, r
  <2>7. ToldOutcome(a)' = ToldOutcome(a)
    BY <2>1, <2>2, <2>3 DEF ToldOutcome, Outcomes
  <2>8. StreamFollowsStage(a)' /\ RecordFollowsStage(a)' /\ ToldFollowsStage(a)'
    BY <1>1, <1>9, <2>7 DEF AnswerOK, StreamFollowsStage, RecordFollowsStage, ToldFollowsStage,
           Unaudited, RetrievalStages
  <2> QED
    BY <2>5, <2>6, <2>8 DEF AnswerOK
<1> QED
  BY <1>8, <1>9 DEF ReadChunk, c, u

\* The audit request gets the whole answer.
LEMMA AuditKeeps ==
    ASSUME RetrievalTypes, AnswerTypes, NEW a \in Asks, AnswerOK(a), Audit(a)
    PROVE  AnswerTypes' /\ AnswerAlone(a) /\ AnswerOK(a)'
<1> DEFINE full == [kbid |-> TRUE, status |-> StatusCode(a),
                    answer |-> IF StatusCode(a) = "no_context" THEN <<>> ELSE answer[a]]
<1>1. /\ stage[a] = "auditing" /\ items[a] \in Seq(Items)
      /\ stage' = [stage EXCEPT ![a] = "done"] /\ Told(a, <<"augmented context">>)
      /\ record' = [record EXCEPT ![a] = full] \/ UNCHANGED record
      /\ UNCHANGED <<filter, task, found, related, search, options, model, stream,
                     unread, answer, status>>
  BY DEF Audit, GotoStage, AnswerTypes
<1>2. full \in Records
  <2>1. StatusCode(a) \in Codes \cup {NoStatus} /\ answer[a] \in Texts /\ <<>> \in Texts
    BY DEF StatusCode, AnswerTypes, Codes, Texts
  <2> QED
    BY <2>1 DEF Records
<1>3. /\ model[a] = "ended" /\ unread[a] = <<>> /\ StatusCode(a) # "error"
      /\ record[a] = Unaudited /\ answer[a] = TextOf(stream[a])
  <2>1. model[a] = "ended" /\ unread[a] = <<>> /\ StatusCode(a) # "error" /\ record[a] = Unaudited
    BY <1>1 DEF AnswerOK, StreamFollowsStage, RecordFollowsStage
  <2>2. ReadCount(a) = Len(stream[a]) /\ stream[a] \in Seq(Chunks)
    BY <2>1 DEF ReadCount, AnswerTypes
  <2>3. ReadOf(a) = stream[a]
    BY <2>2 DEF ReadOf
  <2> QED
    BY <2>1, <2>3 DEF AnswerOK, ReadInOrder
<1>4. /\ stage'[a] = "done" /\ \A x \in Asks \ {a} : stage'[x] = stage[x]
      /\ record' \in [Asks -> Records]
      /\ record'[a] = full \/ record'[a] = Unaudited
      /\ \A x \in Asks \ {a} : record'[x] = record[x]
  BY <1>1, <1>2, <1>3, ZenonT(30) DEF RetrievalTypes, AnswerTypes
<1>5. /\ items' \in [Asks -> Seq(Items)] /\ TextOf(items'[a]) = TextOf(items[a])
      /\ \A x \in Asks \ {a} : items'[x] = items[x]
  <2>1. items[a] \o <<"augmented context">> \in Seq(Items)
        /\ TextOf(items[a] \o <<"augmented context">>) = TextOf(items[a])
    BY <1>1, NoticeTold DEF Notices
  <2> QED
    BY <1>1, <2>1 DEF Told, AnswerTypes
<1>6. AnswerTypes' /\ AnswerAlone(a)
  BY <1>1, <1>4, <1>5 DEF AnswerTypes, AnswerAlone, AnswerKept
<1>7. ReadInOrder(a)'
  BY <1>1, <1>5 DEF AnswerOK, ReadInOrder, ReadOf, ReadCount
<1>8. StatusCode(a)' = StatusCode(a)
  BY <1>1 DEF StatusCode
<1>9. RecordFollowsStage(a)'
  <2>1. CASE record'[a] = Unaudited
    BY <1>4, <2>1 DEF RecordFollowsStage, Unaudited
  <2>2. CASE record'[a] = full
    <3>1. /\ record'[a].status = StatusCode(a)
          /\ record'[a].answer = IF StatusCode(a) = "no_context" THEN <<>> ELSE answer[a]
      BY <2>2
    <3> HIDE DEF full
    <3>2. stream' = stream
      BY <1>1
    <3> QED
      BY <1>3, <1>4, <1>8, <3>1, <3>2 DEF RecordFollowsStage
  <2> QED
    BY <1>4, <2>1, <2>2
<1>10. StreamFollowsStage(a)' /\ ToldFollowsStage(a)'
  BY <1>1, <1>3, <1>4 DEF AnswerOK, StreamFollowsStage, ToldFollowsStage, RetrievalStages
<1> QED
  BY <1>6, <1>7, <1>9, <1>10 DEF AnswerOK

\* Every step of an answer keeps what holds of it, and leaves the others alone.
LEMMA AnswerStepKeeps ==
    ASSUME RetrievalTypes, AnswerTypes, NEW a \in Asks, AnswerOK(a), AnswerStep(a)
    PROVE  AnswerTypes' /\ AnswerAlone(a) /\ AnswerOK(a)'
BY ModelSendsKeeps, ModelStopsKeeps, AnswerNotEnoughKeeps, GenerateKeeps, ReadChunkKeeps,
   StreamBreaksKeeps, StreamEndsKeeps, TellStatusKeeps, AuditKeeps, LeaveKeeps DEF AnswerStep

\* Where an answer goes: it never goes back to the retrieval.
LEMMA AnswerStages ==
    ASSUME RetrievalTypes, NEW a \in Asks, AnswerStep(a)
    PROVE  /\ stage' \in [Asks -> Stages]
           /\ \/ stage'[a] = stage[a] /\ record'[a] = record[a]
              \/ /\ stage[a] \in {"retrieved", "reading", "telling"}
                 /\ stage'[a] \in {"failed", "reading", "telling", "auditing", "done", "left"}
                 /\ record'[a] = record[a]
              \/ stage[a] \in {"empty", "auditing"} /\ stage'[a] \in {"done", "left"}
<1>1. CASE ModelSends(a) \/ ModelStops(a) \/ ReadChunk(a)
  BY <1>1 DEF ModelSends, ModelStops, ReadChunk, retrievalVars, RetrievalTypes
<1>2. ASSUME NEW s \in {"failed", "reading", "telling", "auditing", "done", "left"}, GotoStage(a, s)
      PROVE  stage' \in [Asks -> Stages] /\ stage'[a] = s
  BY <1>2 DEF GotoStage, RetrievalTypes, Stages, RetrievalStages
<1>3. CASE AnswerNotEnough(a)
  BY <1>2, <1>3 DEF AnswerNotEnough
<1>4. CASE Generate(a)
  BY <1>2, <1>4 DEF Generate
<1>5. CASE StreamBreaks(a)
  BY <1>2, <1>5 DEF StreamBreaks
<1>6. CASE StreamEnds(a)
  BY <1>2, <1>6 DEF StreamEnds
<1>7. CASE TellStatus(a)
  <2>1. PICK s \in {"done", "auditing"} : GotoStage(a, s)
    BY <1>7 DEF TellStatus
  <2> QED
    BY <1>2, <1>7, <2>1 DEF TellStatus
<1>8. CASE Audit(a)
  BY <1>2, <1>8 DEF Audit
<1>9. CASE Leave(a)
  BY <1>2, <1>9 DEF Leave
<1> QED
  BY <1>1, <1>3, <1>4, <1>5, <1>6, <1>7, <1>8, <1>9 DEF AnswerStep

\* What holds of the retrieval holds on while its ask is answered.
LEMMA AnswerKeepsRetrieval ==
    ASSUME RetrievalTypes, NEW a \in Asks, RetrievalOK(a), AnswerOK(a), AnswerStep(a), AnswerAlone(a)
    PROVE  RetrievalTypes' /\ RetrievalOK(a)'
<1>1. UNCHANGED <<filter, task, found, related, search, options>>
      /\ \A x \in Asks \ {a} : stage'[x] = stage[x]
  BY DEF AnswerAlone, AnswerKept
<1>2. CASE stage'[a] = stage[a] /\ record'[a] = record[a]
  <2>1. RetrievalTypes'
    <3>1. stage' = stage
      BY <1>1, <1>2, AnswerStages DEF RetrievalTypes
    <3> QED
      BY <1>1, <3>1 DEF RetrievalTypes, Untouched
  <2>2. RetrievalOK(a)'
    BY <1>1, <1>2, RetrievalOKKept DEF RetrievalKept
  <2> QED
    BY <2>1, <2>2
<1>3. CASE /\ stage[a] \in {"retrieved", "reading", "telling", "empty", "auditing"}
           /\ stage'[a] \in {"failed", "reading", "telling", "auditing", "done", "left"}
           /\ stage[a] \in {"empty", "auditing"} => stage'[a] \in {"done", "left"}
           /\ stage[a] \in {"retrieved", "reading", "telling"} => record'[a] = record[a]
           /\ stage[a] = "empty" => ~record'[a].kbid
  <2>1. a \in DOMAIN options
    BY <1>3, Begun
  <2>2. Alone(a)
    BY <1>1 DEF Alone, RetrievalKept
  <2>3. RetrievalTypes'
    <3>1. stage' \in [Asks -> Stages] /\ stage'[a] # "idle"
      BY <1>3, AnswerStages
    <3> QED
      BY <1>1, <2>1, <2>2, <3>1, RetrievalTyped DEF RetrievalTypes
  <2>4. /\ Live(a)' = Live(a) /\ ReadsWhole(a)' = ReadsWhole(a) /\ Matching(a)' = Matching(a)
    BY <1>1 DEF Live, InState, ReadsWhole, Matching
  <2>5. GroupsAwaited(a)'
    BY <1>1, <1>3, <2>1, <2>4 DEF RetrievalOK, GroupsAwaited
  <2>6. PrefilterHolds(a)'
    BY <1>1, <1>3, <2>1, <2>4 DEF RetrievalOK, PrefilterHolds, PrefilterOpen, Prefiltered
  <2>7. ResourceHolds(a)' /\ (Unsearched(a) => Unsearched(a)')
    BY <1>1, <1>3, <2>1 DEF RetrievalOK, ResourceHolds, Unsearched, Scoped
  <2>8. MainTold(a)'
    <3>1. record[a].kbid => stage[a] = "done"
      BY DEF AnswerOK, RecordFollowsStage, Unaudited
    <3>2. TellsMainQuery(a, search[a]) => TellsMainQuery(a, search[a])'
      BY <1>1 DEF TellsMainQuery, Writes
    <3> QED
      BY <1>1, <1>3, <2>1, <2>4, <2>7, <3>1, <3>2 DEF RetrievalOK, MainTold
  <2> QED
    BY <2>3, <2>5, <2>6, <2>7, <2>8 DEF RetrievalOK
<1>4. stage[a] = "empty" => ~record'[a].kbid
  <2> SUFFICES ASSUME stage[a] = "empty" PROVE ~record'[a].kbid
    OBVIOUS
  <2>1. ~record[a].kbid
    BY DEF AnswerOK, RecordFollowsStage, Unaudited
  <2>2. model[a] = "silent"
    BY DEF AnswerOK, StreamFollowsStage, RetrievalStages
  <2> QED
    BY <2>1, <2>2 DEF AnswerStep, ModelSends, ModelStops, AnswerNotEnough, Generate, ReadChunk,
       StreamBreaks, StreamEnds, TellStatus, Audit, Leave
<1> QED
  BY <1>2, <1>3, <1>4, AnswerStages

---------------------------------------------------------------------------
(***************************************************************************)
(* The invariant of the asks, and the properties of a retrieval.           *)
(***************************************************************************)
\* The invariant of the asks: their types, and what holds of each retrieval and
\* of each answer. Runs check it as the properties it implies.
AsksInv ==
  /\ RetrievalTypes /\ AnswerTypes
  /\ \A a \in Asks : RetrievalOK(a) /\ AnswerOK(a)

\* It holds of asks that have not begun.
LEMMA AsksInitially == Init => AsksInv
<1> SUFFICES ASSUME Init PROVE AsksInv
  OBVIOUS
<1>1. /\ options \in Workloads
      /\ \A a \in DOMAIN options : a \in Asks /\ options[a] \in AskOptions
  BY RetrievalAssumption DEF Init, RetrievalInit
<1>2. \A a \in Asks : Untouched(a)
  BY DEF Init, RetrievalInit, Untouched
<1>3. filter \in [DOMAIN options -> [Queries -> Filter]]
  BY <1>1 DEF Init, RetrievalInit, AskOptions
<1>4. RetrievalTypes
  <2>1. NoSearch \in AuditSearch
    BY DEF NoSearch, AuditSearch
  <2> QED
    BY <1>1, <1>2, <1>3, <2>1
       DEF Init, RetrievalInit, RetrievalTypes, Stages, RetrievalStages, TaskStates
<1>5. AnswerTypes
  BY DEF Init, AnswerInit, AnswerTypes, Texts, Records, Unaudited
<1>6. ASSUME NEW a \in Asks PROVE RetrievalOK(a)
  <2> SUFFICES ASSUME a \in DOMAIN options PROVE RetrievalOK(a)
    BY DEF RetrievalOK
  <2>1. /\ stage[a] = "idle" /\ related[a] = {} /\ search[a] = NoSearch /\ ~record[a].kbid
        /\ \A p \in Prequeries : task[a][p] = "none"
        /\ \A q \in Queries : found[a][q] = {}
    BY DEF Init, RetrievalInit, AnswerInit, Unaudited
  <2>2. options[a].plain \subseteq Queries /\ options[a].plain \subseteq Prequeries /\ Main \in Queries
    BY <1>1 DEF AskOptions, Queries
  <2>3. GroupsAwaited(a)
    BY <2>1 DEF GroupsAwaited, Live, InState
  <2>4. PrefilterHolds(a)
    BY <2>1, <2>2 DEF PrefilterHolds, PrefilterOpen
  <2>5. ResourceHolds(a) /\ MainTold(a)
    BY <2>1, <2>2 DEF ResourceHolds, MainTold, Unsearched
  <2> QED
    BY <2>3, <2>4, <2>5 DEF RetrievalOK
<1>7. ASSUME NEW a \in Asks PROVE AnswerOK(a)
  <2>1. /\ stage[a] = "idle" /\ model[a] = "silent" /\ record[a] = Unaudited
        /\ stream[a] = <<>> /\ unread[a] = <<>> /\ answer[a] = <<>> /\ items[a] = <<>>
        /\ status[a] = NoStatus
    BY DEF Init, RetrievalInit, AnswerInit
  <2>2. ReadOf(a) = <<>>
    BY <2>1 DEF ReadOf, ReadCount
  <2>3. TextOf(<<>>) = <<>> /\ LastCode(<<>>) = NoStatus
    BY ChosenEmpty DEF TextOf, LastCode
  <2>4. ReadInOrder(a)
    BY <2>1, <2>2, <2>3 DEF ReadInOrder
  <2>5. StreamFollowsStage(a) /\ RecordFollowsStage(a)
    BY <2>1 DEF StreamFollowsStage, RecordFollowsStage, Unaudited
  <2>6. ToldFollowsStage(a)
    BY <2>1 DEF ToldFollowsStage, ToldOutcome, ToSet
  <2> QED
    BY <2>4, <2>5, <2>6 DEF AnswerOK
<1> QED
  BY <1>4, <1>5, <1>6, <1>7 DEF AsksInv

\* Every step of every ask keeps it; the audit only reads the asks.
LEMMA AsksKept ==
    ASSUME AsksInv, [Next]_vars
    PROVE  AsksInv'
<1>1. ASSUME NEW a \in Asks, RetrievalStep(a), UNCHANGED answerVars PROVE AsksInv'
  <2>1. RetrievalTypes' /\ Alone(a) /\ (\A x \in Asks : RetrievalOK(x)')
    <3>1. \A x \in Asks : record[x].kbid => stage[x] = "done"
      BY DEF AsksInv, AnswerOK, RecordFollowsStage, Unaudited
    <3> QED
      BY <1>1, <3>1, RetrievalStepKeeps DEF AsksInv, answerVars
  <2>2. AnswerTypes'
    BY <1>1 DEF AsksInv, AnswerTypes, answerVars
  <2>3. AnswerOK(a)'
    BY <1>1, RetrievalKeepsAnswer DEF AsksInv
  <2>4. ASSUME NEW x \in Asks \ {a} PROVE AnswerOK(x)'
    <3>1. AnswerKept(x)
      BY <1>1, <2>1 DEF AnswerKept, answerVars, Alone, RetrievalKept
    <3> QED
      BY <3>1, AnswerOKKept DEF AsksInv
  <2> QED
    BY <2>1, <2>2, <2>3, <2>4 DEF AsksInv
<1>2. ASSUME NEW a \in Asks, AnswerStep(a) PROVE AsksInv'
  <2>1. AnswerTypes' /\ AnswerAlone(a) /\ AnswerOK(a)'
    BY <1>2, AnswerStepKeeps DEF AsksInv
  <2>2. RetrievalTypes' /\ RetrievalOK(a)'
    BY <1>2, <2>1, AnswerKeepsRetrieval DEF AsksInv
  <2>3. ASSUME NEW x \in Asks \ {a} PROVE RetrievalOK(x)' /\ AnswerOK(x)'
    <3>1. AnswerKept(x) /\ RetrievalKept(x) /\ options' = options
      BY <2>1 DEF AnswerAlone, AnswerKept, RetrievalKept
    <3> QED
      BY <3>1, AnswerOKKept, RetrievalOKKept DEF AsksInv, AnswerKept
  <2> QED
    BY <2>1, <2>2, <2>3 DEF AsksInv
<1>3. CASE UNCHANGED <<retrievalVars, answerVars>>
  <2>1. ASSUME NEW x \in Asks PROVE RetrievalOK(x)' /\ AnswerOK(x)'
    <3>1. AnswerKept(x) /\ RetrievalKept(x) /\ options' = options
      BY <1>3 DEF AnswerKept, RetrievalKept, retrievalVars, answerVars
    <3> QED
      BY <3>1, AnswerOKKept, RetrievalOKKept DEF AsksInv, AnswerKept
  <2>2. RetrievalTypes' /\ AnswerTypes'
    BY <1>3 DEF AsksInv, RetrievalTypes, AnswerTypes, retrievalVars, answerVars, Untouched
  <2> QED
    BY <2>1, <2>2 DEF AsksInv
<1>4. CASE \/ \E a \in Asks : SetBackground(a) \/ EnqueuePending(a)
           \/ WorkerStep \/ StopUtility \/ CancelWorker
  BY <1>3, <1>4 DEF SetBackground, EnqueuePending, WorkerStep, TakeAudit, SendAudit, RetryAudit,
     GiveUp, StopUtility, CancelWorker
<1> QED
  BY <1>1, <1>2, <1>3, <1>4 DEF Next, vars

\* It holds throughout: the asks share no state that a step of one could spoil
\* for another (ask, AskResult and the audit in ask/search/ask.py, ask/audit.py).
THEOREM AsksInvariant == Spec => []AsksInv
BY AsksInitially, AsksKept, PTL DEF Spec

\* What the queries of an ask return is inside what its prefilters matched,
\* whatever the order in which the concurrent prequeries return
\* (retrieval.py:149-162).
THEOREM PrefilterBinds == Spec => []FindsMatchPrefilter
<1>1. ASSUME AsksInv PROVE FindsMatchPrefilter
  <2> SUFFICES ASSUME NEW a \in DOMAIN options, options[a].prefilters # {}
               PROVE  FoundBy(a, {Main} \cup options[a].plain) \subseteq Matching(a)
    BY DEF FindsMatchPrefilter
  <2>1. PrefilterOpen(a) \/ Prefiltered(a)
    BY <1>1, OptionsTyped DEF AsksInv, RetrievalOK, PrefilterHolds
  <2> QED
    BY <2>1 DEF PrefilterOpen, Prefiltered, FoundBy
<1> QED
  BY <1>1, AsksInvariant, PTL

\* An ask of one resource finds nothing outside it (ask.py:998-1007).
THEOREM ResourceAsksStay == Spec => []ResourceAskStays
<1>1. ASSUME AsksInv PROVE ResourceAskStays
  <2> SUFFICES ASSUME NEW a \in DOMAIN options, options[a].resource # NoResource
               PROVE  FoundBy(a, Queries) \cup related[a] \subseteq {options[a].resource}
    BY DEF ResourceAskStays
  <2>1. related[a] = {} /\ (Unsearched(a) \/ Scoped(a))
    BY <1>1, OptionsTyped DEF AsksInv, RetrievalOK, ResourceHolds
  <2> QED
    BY <2>1 DEF Unsearched, Scoped, FoundBy
<1> QED
  BY <1>1, AsksInvariant, PTL

\* No prequery is left running by an ask that goes on: each group is awaited
\* (retrieval.py:366-372).
THEOREM FindsAwaited == Spec => []NoFindLeftBehind
<1>1. ASSUME AsksInv PROVE NoFindLeftBehind
  BY <1>1, OptionsTyped DEF AsksInv, RetrievalOK, GroupsAwaited, Live, NoFindLeftBehind
<1> QED
  BY <1>1, AsksInvariant, PTL

---------------------------------------------------------------------------
(***************************************************************************)
(* The invariant of the audit.                                             *)
(***************************************************************************)
\* The types of what the audit keeps.
AuditTypes ==
  /\ background \in [Asks -> {"none", "set", "over"}]
  /\ queue \in Seq(AuditRequest) /\ sent \in Seq(AuditRequest) /\ published \in Seq(AuditRequest)
  /\ sending \in Seq(AuditRequest) /\ Len(sending) <= 1
  /\ tries \in 0..(MaxTries - 1)

\* How many of the audit requests have left the queue.
Taken == Len(sent) - Len(queue)

\* An ask is enqueued once its response is over, with its context as it is then.
SentOnce ==
  /\ \A i \in DOMAIN sent :
       /\ background[sent[i].ask] = "over"
       /\ sent[i].search = search[sent[i].ask]
       /\ sent[i].record = record[sent[i].ask] /\ sent[i].record.kbid
  /\ \A i, j \in DOMAIN sent : sent[i].ask = sent[j].ask => i = j
  /\ \A a \in Asks : /\ background[a] # "none" => a \in DOMAIN options
                     /\ background[a] = "over" => stage[a] \in {"done", "left"}

\* The queue is the end of what has been enqueued, and the worker sends what it took last.
QueueInOrder ==
  /\ Len(queue) <= Len(sent)
  /\ \A i \in DOMAIN queue : queue[i] = sent[Taken + i]
  /\ sending # <<>> => Taken > 0 /\ sending[1] = sent[Taken]

\* The publications of m.
CopiesOf(p, m) == {j \in DOMAIN p : p[j] = m}

\* What is published has been taken, in that order.
PublishedSent ==
  /\ \A j \in DOMAIN published : \E i \in 1..Taken : published[j] = sent[i]
  /\ \A j \in 2..Len(published) : \E i, k \in 1..Taken :
        i <= k /\ published[j - 1] = sent[i] /\ published[j] = sent[k]

\* Each request as often as it has been tried.
TriesBound ==
  /\ \A i \in 1..Taken : Cardinality(CopiesOf(published, sent[i])) <= MaxTries
  /\ sending # <<>> => Cardinality(CopiesOf(published, sent[Taken])) <= tries

\* The invariant of the audit.
AuditInv == AuditTypes /\ SentOnce /\ QueueInOrder /\ PublishedSent /\ TriesBound

\* A step of an ask leaves the audit, and the context of an ask whose background
\* task has run: such an ask is done, or its client has left.
LEMMA AuditKeptByAsks ==
    ASSUME AsksInv, AsksInv', AuditInv, NEW a \in Asks,
           (RetrievalStep(a) /\ UNCHANGED answerVars) \/ AnswerStep(a), UNCHANGED auditVars
    PROVE  AuditInv'
<1>1. UNCHANGED <<background, queue, sending, tries, worker, utility, published, sent>>
  BY DEF auditVars
<1>2. AuditTypes' /\ QueueInOrder' /\ PublishedSent' /\ TriesBound'
  <2>1. AuditTypes'
    BY <1>1 DEF AuditInv, AuditTypes
  <2>2. QueueInOrder'
    BY <1>1 DEF AuditInv, QueueInOrder, Taken
  <2>3. PublishedSent'
    BY <1>1 DEF AuditInv, PublishedSent, Taken
  <2>4. TriesBound'
    BY <1>1 DEF AuditInv, TriesBound, Taken, CopiesOf
  <2> QED
    BY <2>1, <2>2, <2>3, <2>4
<1>3. options' = options /\ \A x \in Asks \ {a} : RetrievalKept(x) /\ record'[x] = record[x]
  <2>1. CASE RetrievalStep(a) /\ UNCHANGED answerVars
    BY <2>1, BeginRetrievalTyped, FindTyped, QueryTyped DEF RetrievalStep, AsksInv, Alone, answerVars
  <2>2. CASE AnswerStep(a)
    BY <2>2, AnswerStepKeeps DEF AsksInv, AnswerAlone, AnswerKept, RetrievalKept
  <2> QED
    BY <2>1, <2>2
<1>4. \A i \in DOMAIN sent : sent[i].ask \in Asks
  <2>1. \A i \in DOMAIN sent : sent[i] \in AuditRequest
    BY DEF AuditInv, AuditTypes
  <2> QED
    BY <2>1 DEF AuditRequest
<1>5. ASSUME background[a] = "over"
      PROVE  stage'[a] = stage[a] /\ search'[a] = search[a] /\ record'[a] = record[a]
  <2>1. stage[a] \in {"done", "left"} /\ a \in DOMAIN options
    BY <1>5 DEF AuditInv, SentOnce
  <2>2. Live(a) = {}
    BY <2>1 DEF AsksInv, RetrievalOK, GroupsAwaited
  <2>3. ~RetrievalStep(a)
    BY <2>1, <2>2 DEF RetrievalStep, BeginRetrieval, BeginFind, FinishFind, FailFind, EndPrefilters,
       EndPrequeries, MainQuery, GraphQuery, Live, InState
  <2>4. AnswerStep(a)
    BY <2>3
  <2> QED
    BY <2>1, <2>4, AnswerStages, AnswerStepKeeps DEF AsksInv, AnswerAlone
<1>6. ASSUME NEW x \in Asks, background[x] = "over"
      PROVE  stage'[x] = stage[x] /\ search'[x] = search[x] /\ record'[x] = record[x]
  BY <1>3, <1>5, <1>6 DEF RetrievalKept
<1>7. SentOnce'
  <2>1. ASSUME NEW i \in DOMAIN sent
        PROVE  /\ background'[sent'[i].ask] = "over"
               /\ sent'[i].search = search'[sent'[i].ask]
               /\ sent'[i].record = record'[sent'[i].ask] /\ sent'[i].record.kbid
    BY <1>1, <1>4, <1>6 DEF AuditInv, SentOnce
  <2>2. \A x \in Asks : /\ background'[x] # "none" => x \in DOMAIN options'
                        /\ background'[x] = "over" => stage'[x] \in {"done", "left"}
    BY <1>1, <1>3, <1>6 DEF AuditInv, SentOnce
  <2> QED
    BY <1>1, <2>1, <2>2 DEF AuditInv, SentOnce
<1> QED
  BY <1>2, <1>7 DEF AuditInv

\* What has been enqueued stays as it was where only the worker steps.
LEMMA SentOnceKept ==
    ASSUME SentOnce, UNCHANGED <<retrievalVars, answerVars, background, sent>>
    PROVE  SentOnce'
BY DEF SentOnce, retrievalVars, answerVars

\* The worker takes the first of the queue.
LEMMA TakeKeeps ==
    ASSUME AuditInv, TakeAudit
    PROVE  AuditInv'
<1>1. /\ queue # <<>> /\ sending' = <<Head(queue)>> /\ queue' = Tail(queue) /\ tries' = 0
      /\ UNCHANGED <<retrievalVars, answerVars, background, published, sent>>
      /\ queue \in Seq(AuditRequest) /\ sent \in Seq(AuditRequest)
  BY DEF TakeAudit, AuditInv, AuditTypes
<1>2. /\ Taken \in Nat /\ Taken < Len(sent) /\ Taken' = Taken + 1
      /\ Head(queue) = sent[Taken + 1] /\ Tail(queue) \in Seq(AuditRequest)
      /\ Len(Tail(queue)) <= Len(sent)
      /\ \A i \in DOMAIN Tail(queue) : Tail(queue)[i] = sent[(Taken + 1) + i]
      /\ Head(queue) \in AuditRequest
  <2>1. Len(queue) <= Len(sent) /\ \A i \in DOMAIN queue : queue[i] = sent[Len(sent) - Len(queue) + i]
    BY DEF AuditInv, QueueInOrder, Taken
  <2> QED
    BY <1>1, <2>1, FrontRead DEF Taken
<1>3. AuditTypes'
  <2>1. MaxTries \in Nat \ {0}
    BY AuditAssumption
  <2> QED
    BY <1>1, <1>2, <2>1 DEF AuditInv, AuditTypes
<1>4. SentOnce'
  BY <1>1, SentOnceKept DEF AuditInv
<1>5. QueueInOrder'
  BY <1>1, <1>2 DEF QueueInOrder
<1>6. PublishedSent'
  <2>1. 1..Taken \subseteq 1..(Taken + 1)
    BY <1>2
  <2> QED
    BY <1>1, <1>2, <2>1 DEF AuditInv, PublishedSent
<1>7. TriesBound'
  <2>1. CopiesOf(published, sent[Taken + 1]) = {}
    <3>1. ASSUME NEW j \in DOMAIN published PROVE published[j] # sent[Taken + 1]
      <4>1. PICK i \in 1..Taken : published[j] = sent[i]
        BY DEF AuditInv, PublishedSent
      <4>2. i \in DOMAIN sent /\ Taken + 1 \in DOMAIN sent /\ i # Taken + 1
        BY <1>1, <1>2
      <4> QED
        BY <4>1, <4>2 DEF AuditInv, SentOnce
    <3> QED
      BY <3>1 DEF CopiesOf
  <2>2. Cardinality({}) = 0
    BY FS_EmptySet
  <2>3. \A i \in 1..Taken : Cardinality(CopiesOf(published, sent[i])) <= MaxTries
    BY DEF AuditInv, TriesBound
  <2>4. \A m : CopiesOf(published', m) = CopiesOf(published, m)
    BY <1>1 DEF CopiesOf
  <2>5. \A i \in 1..(Taken + 1) : i = Taken + 1 \/ i \in 1..Taken
    BY <1>2
  <2>6. MaxTries \in Nat
    BY AuditAssumption
  <2>7. ASSUME NEW i \in 1..(Taken + 1) PROVE Cardinality(CopiesOf(published, sent[i])) <= MaxTries
    BY <2>1, <2>2, <2>3, <2>5, <2>6
  <2> QED
    BY <1>1, <1>2, <2>1, <2>2, <2>4, <2>7 DEF TriesBound
<1> QED
  BY <1>3, <1>4, <1>5, <1>6, <1>7 DEF AuditInv

\* The publications of a request can be counted, and one more counts one more.
LEMMA CopiesFinite ==
    ASSUME AuditTypes, NEW x
    PROVE  /\ IsFiniteSet(CopiesOf(published, x)) /\ Cardinality(CopiesOf(published, x)) \in Nat
           /\ Len(published) + 1 \notin CopiesOf(published, x)
<1>1. published \in Seq(AuditRequest) /\ Len(published) \in Nat
  BY DEF AuditTypes
<1>2. CopiesOf(published, x) \subseteq 1..Len(published)
  BY <1>1 DEF CopiesOf
<1>3. IsFiniteSet(1..Len(published))
  BY <1>1, FS_Interval
<1> QED
  BY <1>1, <1>2, <1>3, FS_Subset, FS_CardinalityType

\* What is being sent is published once more: the tries of it are counted.
LEMMA PublishKeeps ==
    ASSUME AuditInv, sending # <<>>, published' = published \o sending, UNCHANGED <<queue, sent>>
    PROVE  /\ published' \in Seq(AuditRequest) /\ PublishedSent'
           /\ Taken' = Taken /\ Taken \in Nat \ {0}
           /\ \A i \in 1..Taken : Cardinality(CopiesOf(published', sent[i])) <= MaxTries
           /\ Cardinality(CopiesOf(published', sent[Taken])) <= tries + 1
<1> DEFINE m == sent[Taken]
           n == Len(published)
<1>1. /\ Taken \in Nat \ {0} /\ Taken <= Len(sent) /\ sending = <<m>> /\ Taken' = Taken
      /\ sent \in Seq(AuditRequest) /\ published \in Seq(AuditRequest) /\ m \in AuditRequest
  <2>1. /\ sent \in Seq(AuditRequest) /\ published \in Seq(AuditRequest)
        /\ sending \in Seq(AuditRequest) /\ Len(sending) = 1 /\ queue \in Seq(AuditRequest)
    <3>1. /\ sent \in Seq(AuditRequest) /\ published \in Seq(AuditRequest)
          /\ sending \in Seq(AuditRequest) /\ Len(sending) <= 1 /\ queue \in Seq(AuditRequest)
      BY DEF AuditInv, AuditTypes
    <3> QED
      BY <3>1, OneElement
  <2>2. Taken > 0 /\ sending[1] = m /\ Len(queue) <= Len(sent)
    BY DEF AuditInv, QueueInOrder
  <2>3. Taken \in Nat \ {0} /\ Taken <= Len(sent) /\ Taken' = Taken
    BY <2>1, <2>2 DEF Taken
  <2> QED
    BY <2>1, <2>2, <2>3
<1>2. /\ published' = Append(published, m) /\ published' \in Seq(AuditRequest)
      /\ Len(published') = n + 1 /\ published'[n + 1] = m /\ n \in Nat
      /\ \A j \in 1..n : published'[j] = published[j]
  BY <1>1
<1>3. PublishedSent'
  <2>1. ASSUME NEW j \in DOMAIN published' PROVE \E i \in 1..Taken : published'[j] = sent[i]
    <3>1. CASE j = n + 1
      BY <1>1, <1>2, <3>1
    <3>2. CASE j \in 1..n
      BY <1>1, <1>2, <3>2, SMTT(30) DEF AuditInv, PublishedSent
    <3> QED
      BY <1>2, <3>1, <3>2
  <2>2. ASSUME NEW j \in 2..Len(published')
        PROVE  \E i, k \in 1..Taken :
                  i <= k /\ published'[j - 1] = sent[i] /\ published'[j] = sent[k]
    <3>1. CASE j = n + 1
      <4>1. j - 1 \in DOMAIN published /\ published'[j - 1] = published[j - 1]
        BY <1>1, <1>2, <2>2, <3>1
      <4>2. PICK i \in 1..Taken : published[j - 1] = sent[i]
        BY <4>1 DEF AuditInv, PublishedSent
      <4>3. i <= Taken /\ Taken \in 1..Taken
        BY <1>1
      <4> QED
        BY <1>2, <3>1, <4>1, <4>2, <4>3
    <3>2. CASE j \in 2..n
      <4>1. published'[j - 1] = published[j - 1] /\ published'[j] = published[j]
        BY <1>2, <3>2
      <4> QED
        BY <3>2, <4>1 DEF AuditInv, PublishedSent
    <3> QED
      BY <1>2, <3>1, <3>2
  <2>3. \A j \in DOMAIN published' : \E i \in 1..Taken' : published'[j] = sent'[i]
    BY <1>1, <2>1
  <2>4. \A j \in 2..Len(published') : \E i, k \in 1..Taken' :
          i <= k /\ published'[j - 1] = sent'[i] /\ published'[j] = sent'[k]
    BY <1>1, <2>2
  <2> QED
    BY <2>3, <2>4 DEF PublishedSent
<1>4. \A x : IsFiniteSet(CopiesOf(published, x)) /\ n + 1 \notin CopiesOf(published, x)
  BY CopiesFinite DEF AuditInv
<1>5. /\ CopiesOf(published', m) = CopiesOf(published, m) \cup {n + 1}
      /\ \A x : x # m => CopiesOf(published', x) = CopiesOf(published, x)
  <2>1. DOMAIN published' = DOMAIN published \cup {n + 1} /\ DOMAIN published = 1..n
    BY <1>1, <1>2
  <2> HIDE DEF m, n
  <2> QED
    BY <1>2, <2>1 DEF CopiesOf
<1> HIDE DEF n
<1>6. /\ Cardinality(CopiesOf(published, m)) \in Nat
      /\ Cardinality(CopiesOf(published, m) \cup {n + 1}) = Cardinality(CopiesOf(published, m)) + 1
  BY <1>4, FS_AddElement, FS_CardinalityType
<1>7. /\ Cardinality(CopiesOf(published, m)) <= tries
      /\ tries \in Nat /\ tries + 1 <= MaxTries /\ MaxTries \in Nat
  BY AuditAssumption DEF AuditInv, TriesBound, AuditTypes
<1>8. Cardinality(CopiesOf(published', m)) <= tries + 1
  BY <1>5, <1>6, <1>7
<1>9. ASSUME NEW i \in 1..Taken PROVE Cardinality(CopiesOf(published', sent[i])) <= MaxTries
  <2>1. CASE sent[i] = m
    <3>1. CopiesOf(published', sent[i]) = CopiesOf(published', m)
      BY <1>5, <2>1 DEF CopiesOf
    <3>2. Cardinality(CopiesOf(published', m)) \in Nat
      BY <1>5, <1>6
    <3> QED
      BY <1>7, <1>8, <3>1, <3>2
  <2>2. CASE sent[i] # m
    <3>1. CopiesOf(published', sent[i]) = CopiesOf(published, sent[i])
      BY <1>5, <2>2
    <3> QED
      BY <3>1 DEF AuditInv, TriesBound
  <2> QED
    BY <2>1, <2>2
<1> QED
  BY <1>1, <1>2, <1>3, <1>8, <1>9

\* The worker, the backoff of _send and the shutdown keep the invariant.
LEMMA WorkerKeeps ==
    ASSUME AuditInv, SendAudit \/ RetryAudit \/ GiveUp \/ StopUtility \/ CancelWorker
    PROVE  AuditInv'
<1>1. UNCHANGED <<retrievalVars, answerVars, background, queue, sent>>
  BY DEF SendAudit, RetryAudit, GiveUp, StopUtility, CancelWorker
<1>2. SentOnce' /\ Taken' = Taken
  BY <1>1, SentOnceKept DEF AuditInv, Taken
<1>3. /\ tries' \in 0..(MaxTries - 1)
      /\ sending' \in {<<>>, sending}
      /\ published' \in {published, published \o sending}
  BY AuditAssumption DEF SendAudit, RetryAudit, GiveUp, StopUtility, CancelWorker, Failing,
     AuditInv, AuditTypes
<1>4. QueueInOrder' /\ sending' \in Seq(AuditRequest) /\ Len(sending') <= 1
  <2>1. sending' \in Seq(AuditRequest) /\ Len(sending') <= 1
    <3>1. sending \in Seq(AuditRequest) /\ Len(sending) <= 1
      BY DEF AuditInv, AuditTypes
    <3>2. <<>> \in Seq(AuditRequest) /\ Len(<<>>) <= 1
      OBVIOUS
    <3> QED
      BY <1>3, <3>1, <3>2
  <2>2. sending' # <<>> => sending # <<>> /\ sending' = sending
    BY <1>3
  <2> QED
    BY <1>1, <1>2, <2>1, <2>2 DEF AuditInv, QueueInOrder
<1>5. CASE published' = published
  <2>1. AuditTypes'
    BY <1>1, <1>3, <1>4, <1>5 DEF AuditInv, AuditTypes
  <2>2. PublishedSent'
    BY <1>1, <1>2, <1>5 DEF AuditInv, PublishedSent
  <2>3. sending' # <<>> => sending # <<>> /\ tries <= tries' /\ tries \in Nat /\ tries' \in Nat
    BY DEF SendAudit, RetryAudit, GiveUp, StopUtility, CancelWorker, AuditInv, AuditTypes
  <2>4. TriesBound'
    <3>1. \A i \in 1..Taken : Cardinality(CopiesOf(published, sent[i])) <= MaxTries
      BY DEF AuditInv, TriesBound
    <3>2. ASSUME sending' # <<>> PROVE Cardinality(CopiesOf(published, sent[Taken])) <= tries'
      <4>1. Cardinality(CopiesOf(published, sent[Taken])) \in Nat
        BY CopiesFinite DEF AuditInv
      <4>2. Cardinality(CopiesOf(published, sent[Taken])) <= tries
        BY <2>3, <3>2 DEF AuditInv, TriesBound
      <4> QED
        BY <2>3, <3>2, <4>1, <4>2
    <3> QED
      BY <1>1, <1>2, <1>5, <3>1, <3>2 DEF TriesBound
  <2> QED
    BY <1>2, <1>4, <2>1, <2>2, <2>4 DEF AuditInv
<1>6. CASE published' = published \o sending /\ sending # <<>>
  <2>1. /\ published' \in Seq(AuditRequest) /\ PublishedSent' 
        /\ \A i \in 1..Taken : Cardinality(CopiesOf(published', sent[i])) <= MaxTries
        /\ Cardinality(CopiesOf(published', sent[Taken])) <= tries + 1
    BY <1>1, <1>6, PublishKeeps
  <2>2. AuditTypes'
    BY <1>1, <1>3, <1>4, <2>1 DEF AuditInv, AuditTypes
  <2>3. sending' # <<>> => tries' = tries + 1
    BY <1>6 DEF SendAudit, RetryAudit, GiveUp, StopUtility, CancelWorker, AuditInv, AuditTypes
  <2>4. TriesBound'
    BY <1>1, <1>2, <2>1, <2>3 DEF TriesBound
  <2> QED
    BY <1>2, <1>4, <2>1, <2>2, <2>4 DEF AuditInv
<1>7. sending = <<>> => published \o sending = published
  BY DEF AuditInv, AuditTypes
<1> QED
  BY <1>3, <1>5, <1>6, <1>7

\* So does the middleware: it enqueues a request once, after its response.
LEMMA BackgroundKeeps ==
    ASSUME AsksInv, AuditInv, NEW a \in Asks, SetBackground(a) \/ EnqueuePending(a)
    PROVE  AuditInv'
<1>1. CASE SetBackground(a)
  <2>1. /\ UNCHANGED <<retrievalVars, answerVars, queue, sending, tries, published, sent>>
        /\ background[a] = "none" /\ background' = [background EXCEPT ![a] = "set"]
        /\ a \in DOMAIN options
    BY <1>1 DEF SetBackground, Answered
  <2>2. /\ background' \in [Asks -> {"none", "set", "over"}]
        /\ background'[a] = "set" /\ \A x \in Asks \ {a} : background'[x] = background[x]
    BY <2>1 DEF AuditInv, AuditTypes
  <2>3. AuditTypes'
    BY <2>1, <2>2 DEF AuditInv, AuditTypes
  <2>4. QueueInOrder' /\ PublishedSent' /\ TriesBound'
    BY <2>1 DEF AuditInv, QueueInOrder, PublishedSent, TriesBound, Taken
  <2>5. SentOnce'
    <3>1. \A i \in DOMAIN sent : sent[i] \in AuditRequest
      BY DEF AuditInv, AuditTypes
    <3>2. \A i \in DOMAIN sent : background'[sent[i].ask] = background[sent[i].ask]
      BY <2>1, <2>2, <3>1 DEF AuditInv, SentOnce, AuditRequest
    <3> QED
      BY <2>1, <2>2, <3>2 DEF AuditInv, SentOnce, retrievalVars, answerVars
  <2> QED
    BY <2>3, <2>4, <2>5 DEF AuditInv
<1>2. CASE EnqueuePending(a)
  <2> DEFINE message == [ask |-> a, search |-> search[a], record |-> record[a]]
  <2>1. /\ UNCHANGED <<retrievalVars, answerVars, sending, tries, published>>
        /\ background[a] = "set" /\ background' = [background EXCEPT ![a] = "over"]
        /\ stage[a] \in {"done", "left"} /\ a \in DOMAIN options
    BY <1>2 DEF EnqueuePending, AuditInv, SentOnce
  <2>2. /\ background' \in [Asks -> {"none", "set", "over"}]
        /\ background'[a] = "over" /\ \A x \in Asks \ {a} : background'[x] = background[x]
    BY <2>1 DEF AuditInv, AuditTypes
  <2>3. /\ queue \in Seq(AuditRequest) /\ sent \in Seq(AuditRequest) /\ Taken \in Nat
        /\ Len(queue) <= Len(sent) /\ message \in AuditRequest
        /\ \A i \in DOMAIN queue : queue[i] = sent[Taken + i]
        /\ sending # <<>> => Taken > 0
        /\ \A i \in DOMAIN sent : sent[i] \in AuditRequest /\ sent[i].ask # a
    <3>1. /\ queue \in Seq(AuditRequest) /\ sent \in Seq(AuditRequest)
          /\ \A i \in DOMAIN sent : sent[i] \in AuditRequest
      BY DEF AuditInv, AuditTypes
    <3>2. message \in AuditRequest
      BY DEF AsksInv, AnswerTypes, RetrievalTypes, AuditRequest
    <3> QED
      BY <2>1, <3>1, <3>2 DEF AuditInv, QueueInOrder, SentOnce, Taken
  <2>4. CASE queue' = Append(queue, message) /\ sent' = Append(sent, message) /\ record[a].kbid
    <3> HIDE DEF message
    <3>1. /\ queue' \in Seq(AuditRequest) /\ sent' \in Seq(AuditRequest)
          /\ Len(sent') = Len(sent) + 1 /\ sent'[Len(sent) + 1] = message
          /\ \A i \in 1..Len(sent) : sent'[i] = sent[i]
      BY <2>3, <2>4
    <3>2. /\ Taken' = Taken /\ Len(queue') <= Len(sent')
          /\ \A i \in DOMAIN queue' : queue'[i] = sent'[Taken + i]
      BY <2>3, <2>4, EndsArrive DEF Taken
    <3>3. AuditTypes'
      BY <2>1, <2>2, <3>1 DEF AuditInv, AuditTypes
    <3>4. Taken \in 0..Len(sent) /\ \A i \in 1..Taken : sent'[i] = sent[i]
      BY <2>3, <3>1 DEF Taken
    <3>5. QueueInOrder'
      BY <2>1, <2>3, <3>2, <3>4 DEF AuditInv, QueueInOrder
    <3>6. PublishedSent'
      BY <2>1, <3>2, <3>4 DEF AuditInv, PublishedSent
    <3>8. TriesBound'
      <4>1. sending # <<>> => Taken \in 1..Taken
        BY <2>3
      <4> QED
        BY <2>1, <3>2, <3>4, <4>1 DEF AuditInv, TriesBound
    <3>7. SentOnce'
      <4>1. ASSUME NEW i \in DOMAIN sent'
            PROVE  /\ background'[sent'[i].ask] = "over"
                   /\ sent'[i].search = search[sent'[i].ask]
                   /\ sent'[i].record = record[sent'[i].ask] /\ sent'[i].record.kbid
        <5>1. CASE i = Len(sent) + 1
          BY <2>2, <2>4, <3>1, <5>1 DEF message
        <5>2. CASE i \in 1..Len(sent)
          BY <2>2, <2>3, <3>1, <5>2 DEF AuditInv, SentOnce, AuditRequest
        <5> QED
          BY <2>3, <3>1, <5>1, <5>2
      <4>2. ASSUME NEW i \in DOMAIN sent', NEW j \in DOMAIN sent', sent'[i].ask = sent'[j].ask
            PROVE  i = j
        <5>1. message.ask = a
          BY DEF message
        <5>2. DOMAIN sent' = 1..(Len(sent) + 1) /\ DOMAIN sent = 1..Len(sent)
          BY <2>3, <3>1
        <5> QED
          BY <2>3, <3>1, <4>2, <5>1, <5>2 DEF AuditInv, SentOnce
      <4> QED
        BY <2>1, <2>2, <4>1, <4>2 DEF AuditInv, SentOnce, retrievalVars, answerVars
    <3> QED
      BY <3>3, <3>5, <3>6, <3>7, <3>8 DEF AuditInv
  <2>5. CASE UNCHANGED <<queue, sent>>
    <3>1. AuditTypes'
      BY <2>1, <2>2, <2>5 DEF AuditInv, AuditTypes
    <3>2. QueueInOrder' /\ PublishedSent' /\ TriesBound'
      BY <2>1, <2>5 DEF AuditInv, QueueInOrder, PublishedSent, TriesBound, Taken
    <3>3. SentOnce'
      <4>1. \A i \in DOMAIN sent : background'[sent[i].ask] = background[sent[i].ask]
        BY <2>2, <2>3 DEF AuditInv, SentOnce, AuditRequest
      <4> QED
        BY <2>1, <2>2, <2>5, <4>1 DEF AuditInv, SentOnce, retrievalVars, answerVars
    <3> QED
      BY <3>1, <3>2, <3>3 DEF AuditInv
  <2> QED
    BY <1>2, <2>4, <2>5 DEF EnqueuePending, Enqueue
<1> QED
  BY <1>1, <1>2

\* The invariants of the asks and of the audit hold together: what the middleware
\* enqueues is the context of an ask that no longer changes it
\* (audit.py:120-141).
THEOREM AuditInvariant == Spec => [](AsksInv /\ AuditInv)
<1>1. Init => AuditInv
  <2> SUFFICES ASSUME Init PROVE AuditInv
    OBVIOUS
  <2>1. AuditTypes
    BY AuditAssumption DEF Init, AuditInit, AuditTypes
  <2>2. SentOnce
    BY DEF Init, AuditInit, SentOnce
  <2>3. QueueInOrder /\ PublishedSent /\ TriesBound
    BY DEF Init, AuditInit, QueueInOrder, PublishedSent, TriesBound, Taken
  <2> QED
    BY <2>1, <2>2, <2>3 DEF AuditInv
<1>2. ASSUME AsksInv, AsksInv', AuditInv, [Next]_vars PROVE AuditInv'
  <2>1. CASE UNCHANGED vars
    <3>1. SentOnce'
      BY <1>2, <2>1, SentOnceKept DEF AuditInv, vars, auditVars
    <3>2. AuditTypes' /\ QueueInOrder' /\ PublishedSent' /\ TriesBound'
      BY <1>2, <2>1 DEF AuditInv, AuditTypes, QueueInOrder, PublishedSent, TriesBound,
         Taken, vars, auditVars
    <3> QED
      BY <3>1, <3>2 DEF AuditInv
  <2>2. ASSUME NEW a \in Asks, RetrievalStep(a), UNCHANGED <<answerVars, auditVars>> PROVE AuditInv'
    BY <1>2, <2>2, AuditKeptByAsks
  <2>3. ASSUME NEW a \in Asks, AnswerStep(a), UNCHANGED auditVars PROVE AuditInv'
    BY <1>2, <2>3, AuditKeptByAsks
  <2> QED
    BY <1>2, <2>1, <2>2, <2>3, BackgroundKeeps, TakeKeeps, WorkerKeeps DEF Next, WorkerStep
<1> QED
  BY <1>1, <1>2, AsksInvariant, PTL DEF Spec

---------------------------------------------------------------------------
(***************************************************************************)
(* The properties of an audit.                                             *)
(***************************************************************************)
\* The types of an ask, of its answer and of its audit.
THEOREM NativeTypes == Spec => []TypeOK
<1>1. ASSUME AsksInv, AuditInv PROVE TypeOK
  <2>1. \A a \in DOMAIN options : a \in Asks
    BY <1>1, OptionsTyped DEF AsksInv
  <2> QED
    BY <1>1, <2>1 DEF TypeOK, AsksInv, RetrievalTypes, AnswerTypes, AuditInv, AuditTypes
<1> QED
  BY <1>1, AuditInvariant, PTL

\* What is enqueued for the audit is the whole answer, of a stream that ended
\* without an error, though dispatch has its response before the first chunk is
\* read (audit.py:120-141, ask.py:303-316).
THEOREM AuditsOfWholeAnswers == Spec => []AuditsWhole
<1>1. ASSUME AsksInv, AuditInv PROVE AuditsWhole
  <2> SUFFICES ASSUME NEW i \in DOMAIN sent
               PROVE  LET m == sent[i] IN
                      /\ model[m.ask] = "ended" /\ unread[m.ask] = <<>>
                      /\ m.record.status = StatusCode(m.ask) /\ m.record.status # "error"
                      /\ m.record.answer =
                           IF m.record.status = "no_context" THEN <<>> ELSE TextOf(stream[m.ask])
    BY DEF AuditsWhole
  <2>1. sent[i].ask \in Asks
    <3>1. sent[i] \in AuditRequest
      BY <1>1 DEF AuditInv, AuditTypes
    <3> QED
      BY <3>1 DEF AuditRequest
  <2>2. sent[i].record = record[sent[i].ask] /\ record[sent[i].ask].kbid
    BY <1>1 DEF AuditInv, SentOnce
  <2>3. StreamFollowsStage(sent[i].ask) /\ RecordFollowsStage(sent[i].ask)
    BY <1>1, <2>1 DEF AsksInv, AnswerOK
  <2> QED
    BY <2>2, <2>3 DEF StreamFollowsStage, RecordFollowsStage
<1> QED
  BY <1>1, AuditInvariant, PTL

\* In an audit request that is enqueued each field the main query writes tells
\* of the main query and the last vector is its own, whatever prequeries wrote
\* there before and in whatever order they returned; the other fields tell of
\* prequeries that write them (retrieval.py:484-490, audit.py:302-341).
THEOREM AuditsTellMainQuery == Spec => []AuditTellsMainQuery
<1>1. ASSUME AsksInv, AuditInv PROVE AuditTellsMainQuery
  <2> SUFFICES ASSUME NEW i \in DOMAIN sent
               PROVE  IF ReadsWhole(sent[i].ask) THEN sent[i].search = NoSearch
                      ELSE TellsMainQuery(sent[i].ask, sent[i].search)
    BY DEF AuditTellsMainQuery
  <2>1. sent[i].ask \in Asks
    <3>1. sent[i] \in AuditRequest
      BY <1>1 DEF AuditInv, AuditTypes
    <3> QED
      BY <3>1 DEF AuditRequest
  <2>2. /\ sent[i].search = search[sent[i].ask] /\ record[sent[i].ask].kbid
        /\ sent[i].ask \in DOMAIN options
    BY <1>1, <2>1 DEF AuditInv, SentOnce
  <2> QED
    BY <1>1, <2>1, <2>2 DEF AsksInv, RetrievalOK, MainTold
<1> QED
  BY <1>1, AuditInvariant, PTL

\* Audit requests are published in the order they were enqueued, and none of them
\* more than MaxTries times, whatever publications raise (audit.py:256-290).
THEOREM PublishesInOrder == Spec => []PublishedInOrder
<1>1. ASSUME AuditInv PROVE PublishedInOrder
  <2>0. /\ Taken \in Nat /\ Taken <= Len(sent) /\ DOMAIN sent = 1..Len(sent)
        /\ Len(sent) \in Nat
    BY <1>1 DEF AuditInv, AuditTypes, QueueInOrder, Taken
  <2>1. \A i \in 1..Taken : i \in DOMAIN sent
    BY <2>0
  <2>2. ASSUME NEW k \in DOMAIN sent PROVE PositionSent(sent[k]) = k
    <3>1. \A j \in DOMAIN sent : sent[j] = sent[k] => j = k
      BY <1>1 DEF AuditInv, SentOnce
    <3> QED
      BY <3>1 DEF PositionSent
  <2>3. ASSUME NEW i \in 2..Len(published)
        PROVE  PositionSent(published[i - 1]) <= PositionSent(published[i])
    <3>1. PICK j, k \in 1..Taken :
             j <= k /\ published[i - 1] = sent[j] /\ published[i] = sent[k]
      BY <1>1 DEF AuditInv, PublishedSent
    <3> QED
      BY <2>1, <2>2, <3>1
  <2>4. ASSUME NEW i \in DOMAIN published
        PROVE  Cardinality({j \in DOMAIN published : published[j] = published[i]}) <= MaxTries
    <3>1. PICK k \in 1..Taken : published[i] = sent[k]
      BY <1>1 DEF AuditInv, PublishedSent
    <3> QED
      BY <1>1, <3>1 DEF AuditInv, TriesBound, CopiesOf
  <2> QED
    BY <2>3, <2>4 DEF PublishedInOrder
<1> QED
  BY <1>1, AuditInvariant, PTL

---------------------------------------------------------------------------
(***************************************************************************)
(* The contract.                                                           *)
(***************************************************************************)
\* What the contract says of ask x is as it was.
SameFor(x) ==
  /\ TextOf(stream[x])' = TextOf(stream[x]) /\ TextOf(items[x])' = TextOf(items[x])
  /\ OutcomeOf(x)' = OutcomeOf(x) /\ ReplyOf(x)' = ReplyOf(x)

\* The steps of the contract, as an ask takes them.
Says(a) ==
  /\ OutcomeOf(a) = "pending" /\ OutcomeOf(a)' = OutcomeOf(a)
  /\ \E w \in ToSet(Words) : TextOf(stream[a])' = Append(TextOf(stream[a]), w)
  /\ TextOf(items[a])' = TextOf(items[a]) /\ ReplyOf(a)' = ReplyOf(a)

\* The model's stream ends or breaks.
Concludes(a) ==
  /\ OutcomeOf(a) = "pending" /\ OutcomeOf(a)' \in {"answered", "refused"}
  /\ TextOf(stream[a])' = TextOf(stream[a]) /\ TextOf(items[a])' = TextOf(items[a])
  /\ ReplyOf(a)' = ReplyOf(a)

\* The response yields the next word.
Hears(a) ==
  /\ ReplyOf(a) = "open" /\ ReplyOf(a)' = ReplyOf(a)
  /\ LET said == TextOf(stream[a])
         heard == TextOf(items[a])
     IN  Len(heard) < Len(said) /\ TextOf(items[a])' = Append(heard, said[Len(heard) + 1])
  /\ TextOf(stream[a])' = TextOf(stream[a]) /\ OutcomeOf(a)' = OutcomeOf(a)

\* The response tells "success".
Succeeds(a) ==
  /\ ReplyOf(a) = "open" /\ ReplyOf(a)' = "success"
  /\ OutcomeOf(a) = "answered" /\ OutcomeOf(a)' = OutcomeOf(a)
  /\ TextOf(items[a]) = TextOf(stream[a])
  /\ TextOf(stream[a])' = TextOf(stream[a]) /\ TextOf(items[a])' = TextOf(items[a])

\* The response tells another outcome, the request fails, or its client leaves.
GivesUp(a) ==
  /\ ReplyOf(a) = "open" /\ ReplyOf(a)' \in {"error", "left"}
  /\ TextOf(stream[a])' = TextOf(stream[a]) /\ TextOf(items[a])' = TextOf(items[a])
  /\ OutcomeOf(a)' = OutcomeOf(a)

\* A step that is one of these of one ask, and none of the others, is a step of
\* the contract.
LEMMA ContractStep ==
    ASSUME NEW a \in Asks, \A x \in Asks \ {a} : SameFor(x),
           SameFor(a) \/ Says(a) \/ Concludes(a) \/ Hears(a) \/ Succeeds(a) \/ GivesUp(a)
    PROVE  [Contract!ContractNext]_(Contract!contractVars)
<1>1. ASSUME SameFor(a) PROVE UNCHANGED Contract!contractVars
  BY <1>1 DEF SameFor, Contract!contractVars
<1>2. ASSUME Says(a) PROVE Contract!Say(a)
  BY <1>2 DEF SameFor, Says, Contract!Say
<1>3. ASSUME Concludes(a) PROVE Contract!Conclude(a)
  BY <1>3 DEF SameFor, Concludes, Contract!Conclude
<1>4. ASSUME Hears(a) PROVE Contract!Hear(a)
  BY <1>4 DEF SameFor, Hears, Contract!Hear
<1>5. ASSUME Succeeds(a) PROVE Contract!Succeed(a)
  BY <1>5 DEF SameFor, Succeeds, Contract!Succeed
<1>6. ASSUME GivesUp(a) PROVE Contract!GiveUp(a)
  BY <1>6 DEF SameFor, GivesUp, Contract!GiveUp
<1> QED
  BY <1>1, <1>2, <1>3, <1>4, <1>5, <1>6 DEF Contract!ContractNext

\* An ask of which only the retrieval, or nothing, changes.
LEMMA UntoldSame ==
    ASSUME NEW x, stream'[x] = stream[x], items'[x] = items[x], model'[x] = model[x],
           \/ stage'[x] = stage[x]
           \/ {stage[x], stage'[x]} \cap {"failed", "left"} = {}
    PROVE  SameFor(x)
<1>1. OutcomeOf(x)' = OutcomeOf(x)
  BY DEF OutcomeOf
<1>2. ToldOutcome(x)' = ToldOutcome(x)
  BY DEF ToldOutcome
<1>3. ReplyOf(x)' = ReplyOf(x)
  BY <1>2 DEF ReplyOf
<1> QED
  BY <1>1, <1>3 DEF SameFor

\* A retrieval that fails gives up; the others are not the client's.
LEMMA RetrievalMaps ==
    ASSUME AsksInv, NEW a \in Asks, RetrievalStep(a), UNCHANGED answerVars
    PROVE  SameFor(a) \/ GivesUp(a)
<1>1. /\ stage[a] \in RetrievalStages /\ stage'[a] \in RetrievalStages
      /\ stage'[a] = "failed" \/ (stage[a] # "failed" /\ stage'[a] # "failed")
  BY RetrievalStepStages DEF AsksInv
<1>2. UNCHANGED <<model, stream, items>>
  BY DEF answerVars
<1>3. CASE stage'[a] = stage[a] \/ stage'[a] # "failed"
  BY <1>1, <1>2, <1>3, UntoldSame DEF RetrievalStages
<1>4. CASE stage[a] # "failed" /\ stage'[a] = "failed"
  <2>1. ToldOutcome(a) = {}
    BY <1>1 DEF AsksInv, AnswerOK, ToldFollowsStage
  <2>2. ToldOutcome(a)' = {} /\ OutcomeOf(a)' = OutcomeOf(a)
    BY <1>2, <2>1 DEF ToldOutcome, OutcomeOf
  <2>3. ReplyOf(a) = "open" /\ ReplyOf(a)' = "error"
    BY <1>1, <1>4, <2>1, <2>2 DEF ReplyOf, RetrievalStages
  <2> QED
    BY <1>2, <2>2, <2>3 DEF GivesUp
<1> QED
  BY <1>3, <1>4

\* What the model sends is said, when it is a word; what stops it concludes.
LEMMA ModelMaps ==
    ASSUME AsksInv, NEW a \in Asks, ModelSends(a) \/ ModelStops(a)
    PROVE  SameFor(a) \/ Says(a) \/ Concludes(a)
<1>1. UNCHANGED <<stage, items>> /\ model[a] = "open"
  BY DEF ModelSends, ModelStops, retrievalVars
<1>2. ToldOutcome(a)' = ToldOutcome(a) /\ ReplyOf(a)' = ReplyOf(a)
  BY <1>1 DEF ToldOutcome, ReplyOf
<1>3. CASE ModelSends(a)
  <2>1. PICK c \in Codes \cup {Words[Len(stream[a]) + 1]} :
          stream' = [stream EXCEPT ![a] = Append(@, c)]
    BY <1>3 DEF ModelSends
  <2>2. c \in Chunks /\ stream[a] \in Seq(Chunks)
    <3>1. Words \in Seq(ToSet(Words)) /\ stream[a] \in Seq(Chunks)
      BY AskResultAssumption DEF AsksInv, AnswerTypes
    <3>2. Words[Len(stream[a]) + 1] \in ToSet(Words)
      BY <1>3, <3>1 DEF ToSet, ModelSends
    <3> QED
      BY <3>1, <3>2, WordsApart
  <2>3. stream'[a] = Append(stream[a], c)
    BY <2>1 DEF AsksInv, AnswerTypes
  <2>4. TextOf(Append(stream[a], c)) =
          IF c \in ToSet(Words) THEN Append(TextOf(stream[a]), c) ELSE TextOf(stream[a])
    <3> DEFINE s == stream[a]
    <3>1. s \in Seq(Chunks) /\ c \in Chunks
      BY <2>2
    <3> HIDE DEF s
    <3>2. TextOf(Append(s, c)) = IF c \in ToSet(Words) THEN Append(TextOf(s), c) ELSE TextOf(s)
      BY <3>1, ChosenAppend DEF TextOf
    <3> QED
      BY <3>2 DEF s
  <2>5. OutcomeOf(a) = "pending" /\ OutcomeOf(a)' = "pending"
    BY <1>1, <1>3 DEF OutcomeOf, ModelSends
  <2> QED
    BY <1>1, <1>2, <2>3, <2>4, <2>5 DEF SameFor, Says
<1>4. CASE ModelStops(a)
  <2>1. model'[a] \in {"ended", "broken"} /\ stream' = stream
    BY <1>4 DEF ModelStops, AsksInv, AnswerTypes
  <2>2. OutcomeOf(a) = "pending" /\ OutcomeOf(a)' \in {"answered", "refused"}
    BY <1>1, <2>1 DEF OutcomeOf
  <2> QED
    BY <1>1, <1>2, <2>1, <2>2 DEF Concludes
<1> QED
  BY <1>3, <1>4

\* A word that is read is heard.
LEMMA ReadMaps ==
    ASSUME AsksInv, NEW a \in Asks, ReadChunk(a)
    PROVE  SameFor(a) \/ Hears(a)
<1> DEFINE c == Head(unread[a])
<1>1. /\ stage[a] = "reading" /\ stage' = stage /\ UNCHANGED <<stream, model>>
      /\ stream[a] \in Seq(Chunks) /\ unread[a] \in Seq(Chunks) /\ unread[a] # <<>>
      /\ items[a] \in Seq(Items)
  BY DEF ReadChunk, retrievalVars, AsksInv, AnswerTypes
<1>2. CASE items' = items
  BY <1>1, <1>2, UntoldSame
<1>3. CASE c \notin Codes /\ Told(a, <<c>>)
  <2>1. OutcomeOf(a)' = OutcomeOf(a)
    BY <1>1 DEF OutcomeOf
  <2>2. ToldOutcome(a) = {}
    BY <1>1 DEF AsksInv, AnswerOK, ToldFollowsStage
  <2>3. c \in Chunks
    BY <1>1
  <2>4. c \in ToSet(Words) /\ c \in Items /\ c \notin Outcomes
    BY <1>3, <2>3, WordsApart, OutcomesApart DEF Items
  <2> HIDE DEF c
  <2>5. items'[a] = items[a] \o <<c>>
    BY <1>3 DEF Told, AsksInv, AnswerTypes
  <2>6. /\ TextOf(items'[a]) = Append(TextOf(items[a]), c)
        /\ ToSet(items'[a]) = ToSet(items[a]) \cup {c}
    BY <1>1, <2>4, <2>5, ItemTold
  <2>7. ReplyOf(a) = "open" /\ ReplyOf(a)' = "open"
    <3>1. ToldOutcome(a)' = {}
      BY <2>2, <2>4, <2>6 DEF ToldOutcome, Outcomes
    <3> QED
      BY <1>1, <2>2, <3>1 DEF ReplyOf
  <2>8. LET said == TextOf(stream[a])
            heard == TextOf(items[a])
        IN  Len(heard) < Len(said) /\ said[Len(heard) + 1] = c
    <3>0. TextOf(items[a]) = TextOf(SubSeq(stream[a], 1, Len(stream[a]) - Len(unread[a])))
      BY DEF AsksInv, AnswerOK, ReadInOrder, ReadCount, ReadOf
    <3>1. Len(unread[a]) <= Len(stream[a])
          /\ \A i \in DOMAIN unread[a] : unread[a][i] = stream[a][Len(stream[a]) - Len(unread[a]) + i]
      BY DEF AsksInv, AnswerOK, ReadInOrder, ReadCount
    <3>2. c = Head(unread[a])
      BY DEF c
    <3> DEFINE s == stream[a]
               u == unread[a]
    <3>3. /\ s \in Seq(Chunks) /\ u \in Seq(Chunks) /\ Len(u) <= Len(s) /\ u # <<>>
          /\ \A i \in DOMAIN u : u[i] = s[Len(s) - Len(u) + i]
          /\ Head(u) \in ToSet(Words)
      BY <1>1, <2>4, <3>1, <3>2
    <3> HIDE DEF s, u
    <3>4. LET w == Chosen(s, ToSet(Words))
              q == Chosen(SubSeq(s, 1, Len(s) - Len(u)), ToSet(Words))
          IN  Len(q) < Len(w) /\ w[Len(q) + 1] = Head(u)
      BY <3>3, NextChosen
    <3>5. TextOf(stream[a]) = Chosen(s, ToSet(Words)) /\ c = Head(u)
      BY <3>2 DEF TextOf, s, u
    <3>6. TextOf(items[a]) = Chosen(SubSeq(s, 1, Len(s) - Len(u)), ToSet(Words))
      BY <3>0 DEF TextOf, s, u
    <3> QED
      BY <3>4, <3>5, <3>6
  <2> QED
    BY <1>1, <2>1, <2>6, <2>7, <2>8 DEF Hears
<1> QED
  BY <1>2, <1>3 DEF ReadChunk

\* Notices are told beside the text, and none of them is "success".
LEMMA NoticesTold ==
    ASSUME NEW s \in Seq(Items), NEW new \in Seq(Notices)
    PROVE  /\ s \o new \in Seq(Items)
           /\ TextOf(s \o new) = TextOf(s)
           /\ ToSet(s \o new) = ToSet(s) \cup ToSet(new)
           /\ "success" \notin ToSet(new)
<1>1. new \in Seq(Items)
  BY SeqOfLarger DEF Items
<1>2. \A i \in DOMAIN new : new[i] \in Notices
  OBVIOUS
<1>3. \A i \in DOMAIN new : new[i] \notin ToSet(Words)
  BY <1>2, WordsApart
<1>4. TextOf(s \o new) = TextOf(s)
  BY <1>1, <1>3, ChosenNone DEF TextOf
<1>5. "success" \notin ToSet(new)
  BY <1>2 DEF ToSet, Notices
<1>6. ToSet(s \o new) = ToSet(s) \cup ToSet(new)
  BY <1>1, ToSetConcat
<1>7. s \o new \in Seq(Items)
  BY <1>1
<1> QED
  BY <1>4, <1>5, <1>6, <1>7

\* An error item, or a notice that there is no retrieval data, gives up.
LEMMA ErrorTold ==
    ASSUME AsksInv, NEW a \in Asks, NEW new \in Seq(Notices), Told(a, new),
           ToldOutcome(a) = {}, stage[a] \notin {"failed", "left"}, UNCHANGED <<model, stream>>,
           ToSet(new) \cap {"no_retrieval_data", "error item"} # {}
    PROVE  GivesUp(a)
<1>1. items[a] \in Seq(Items) /\ items'[a] = items[a] \o new
  BY DEF Told, AsksInv, AnswerTypes
<1>2. /\ TextOf(items[a])' = TextOf(items[a])
      /\ ToSet(items'[a]) = ToSet(items[a]) \cup ToSet(new)
      /\ "success" \notin ToSet(new)
  BY <1>1, NoticesTold
<1>3. ToldOutcome(a)' # {} /\ "success" \notin ToldOutcome(a)'
  BY <1>2 DEF ToldOutcome
<1>4. ReplyOf(a) = "open" /\ ReplyOf(a)' = "error"
  BY <1>3 DEF ReplyOf
<1>5. OutcomeOf(a)' = OutcomeOf(a) /\ TextOf(stream[a])' = TextOf(stream[a])
  BY DEF OutcomeOf
<1> QED
  BY <1>2, <1>4, <1>5 DEF GivesUp

\* An answer without context gives up.
LEMMA AnswerNotEnoughMaps ==
    ASSUME AsksInv, NEW a \in Asks, AnswerNotEnough(a)
    PROVE  GivesUp(a)
<1> DEFINE new == <<"no_retrieval_data", "not enough context", "retrieval">>
<1>1. /\ stage[a] = "empty" /\ Told(a, new) /\ UNCHANGED <<model, stream>>
  BY DEF AnswerNotEnough
<1>2. ToldOutcome(a) = {}
  BY <1>1 DEF AsksInv, AnswerOK, ToldFollowsStage, RetrievalStages
<1>3. new \in Seq(Notices) /\ new[1] = "no_retrieval_data" /\ 1 \in DOMAIN new
  BY DEF Notices
<1> HIDE DEF new
<1>4. "no_retrieval_data" \in ToSet(new)
  BY <1>3 DEF ToSet
<1> QED
  BY <1>1, <1>2, <1>3, <1>4, ErrorTold

\* A generation that fails gives up; one without a stream concludes.
LEMMA GenerateMaps ==
    ASSUME AsksInv, NEW a \in Asks, Generate(a)
    PROVE  SameFor(a) \/ Concludes(a) \/ GivesUp(a)
<1>1. /\ stage[a] = "retrieved" /\ UNCHANGED <<stream, items>>
      /\ \/ stage' = [stage EXCEPT ![a] = "failed"] /\ UNCHANGED model
         \/ /\ stage' = [stage EXCEPT ![a] = "reading"]
            /\ model' = [model EXCEPT ![a] = IF options[a].generate THEN "open" ELSE "ended"]
      /\ stage \in [Asks -> Stages]
      /\ model \in [Asks -> {"silent", "open", "ended", "broken"}]
  BY DEF Generate, GotoStage, AsksInv, AnswerTypes, RetrievalTypes
<1>2. model[a] = "silent" /\ stream[a] = <<>> /\ ToldOutcome(a) = {} /\ ToldOutcome(a)' = {}
  BY <1>1 DEF AsksInv, AnswerOK, StreamFollowsStage, ToldFollowsStage, RetrievalStages, ToldOutcome
<1>3. ReplyOf(a) = "open" /\ OutcomeOf(a) = "pending"
  BY <1>1, <1>2 DEF ReplyOf, OutcomeOf
<1>4. CASE stage'[a] = "failed" /\ UNCHANGED model
  <2>1. OutcomeOf(a)' = OutcomeOf(a) /\ ReplyOf(a)' = "error"
    BY <1>1, <1>2, <1>4 DEF OutcomeOf, ReplyOf
  <2> QED
    BY <1>1, <1>3, <2>1 DEF GivesUp
<1>5. CASE stage'[a] = "reading" /\ model'[a] \in {"open", "ended"}
  <2>1. ReplyOf(a)' = "open"
    BY <1>2, <1>5 DEF ReplyOf
  <2>2. OutcomeOf(a)' \in {"pending", "answered"}
    <3>1. LastCode(<<>>) = NoStatus
      BY ChosenEmpty DEF LastCode
    <3> QED
      BY <1>1, <1>2, <1>5, <3>1 DEF OutcomeOf
  <2> QED
    BY <1>1, <1>3, <2>1, <2>2 DEF Concludes, SameFor
<1> QED
  BY <1>1, <1>4, <1>5

\* A stream that breaks gives up.
LEMMA StreamBreaksMaps ==
    ASSUME AsksInv, NEW a \in Asks, StreamBreaks(a)
    PROVE  GivesUp(a)
<1>1. /\ stage[a] = "reading" /\ UNCHANGED <<model, stream>> /\ stage \in [Asks -> Stages]
      /\ \/ stage' = [stage EXCEPT ![a] = "failed"] /\ UNCHANGED items
         \/ Told(a, <<"error item">>)
  BY DEF StreamBreaks, GotoStage, AsksInv, RetrievalTypes
<1>2. ToldOutcome(a) = {}
  BY <1>1 DEF AsksInv, AnswerOK, ToldFollowsStage
<1>3. CASE stage' = [stage EXCEPT ![a] = "failed"] /\ UNCHANGED items
  <2>1. /\ stage'[a] = "failed" /\ ToldOutcome(a)' = {} /\ OutcomeOf(a)' = OutcomeOf(a)
    BY <1>1, <1>2, <1>3 DEF ToldOutcome, OutcomeOf
  <2>2. ReplyOf(a) = "open" /\ ReplyOf(a)' = "error"
    BY <1>1, <1>2, <2>1 DEF ReplyOf
  <2> QED
    BY <1>1, <1>3, <2>1, <2>2 DEF GivesUp
<1>4. CASE Told(a, <<"error item">>)
  <2> DEFINE new == <<"error item">>
  <2>1. new \in Seq(Notices) /\ new[1] = "error item" /\ 1 \in DOMAIN new
    BY DEF Notices
  <2> HIDE DEF new
  <2>2. "error item" \in ToSet(new)
    BY <2>1 DEF ToSet
  <2> QED
    BY <1>1, <1>2, <1>4, <2>1, <2>2, ErrorTold DEF new
<1> QED
  BY <1>1, <1>3, <1>4

\* A notice that is no outcome changes nothing of the contract.
LEMMA NoticeSame ==
    ASSUME AsksInv, NEW a \in Asks, NEW c \in {"retrieval", "augmented context"}, Told(a, <<c>>),
           UNCHANGED <<model, stream>>, stage' \in [Asks -> Stages],
           {stage[a], stage'[a]} \cap {"failed", "left"} = {}
    PROVE  SameFor(a)
<1>1. items[a] \in Seq(Items) /\ items'[a] = items[a] \o <<c>> /\ c \in Notices
  BY DEF Told, AsksInv, AnswerTypes, Notices
<1>2. TextOf(items'[a]) = TextOf(items[a]) /\ ToSet(items'[a]) = ToSet(items[a]) \cup {c}
  BY <1>1, NoticeTold
<1>3. ToldOutcome(a)' = ToldOutcome(a)
  BY <1>2 DEF ToldOutcome
<1>4. ReplyOf(a)' = ReplyOf(a) /\ OutcomeOf(a)' = OutcomeOf(a)
  BY <1>3 DEF ReplyOf, OutcomeOf
<1> QED
  BY <1>2, <1>4 DEF SameFor

\* An answer is told successful when its model ended it so, and the client has it in full.
LEMMA TellStatusMaps ==
    ASSUME AsksInv, NEW a \in Asks, TellStatus(a)
    PROVE  Succeeds(a) \/ GivesUp(a)
<1>0. RetrievalTypes /\ AnswerTypes /\ AnswerOK(a)
  BY DEF AsksInv
<1>1. /\ stage[a] = "telling" /\ UNCHANGED <<model, stream>> /\ stage'[a] \in {"done", "auditing"}
  BY <1>0 DEF TellStatus, GotoStage, RetrievalTypes
<1>2. ToldOutcome(a) = {} /\ ToldOutcome(a)' = {StatusCode(a)} /\ TextOf(items[a])' = TextOf(items[a])
  <2>1. ToldOutcome(a) = {} /\ ToldOutcome(a)' = {StatusCode(a)} /\ AnswerOK(a)'
    BY <1>0, <1>1, TellStatusKeeps DEF AnswerOK, ToldFollowsStage
  <2>2. UNCHANGED answer
    BY DEF TellStatus
  <2> QED
    BY <1>0, <2>1, <2>2 DEF AnswerOK, ReadInOrder
<1>3. /\ model[a] = "ended" /\ status[a] = LastCode(stream[a])
      /\ TextOf(items[a]) = TextOf(stream[a])
  <2>1. model[a] = "ended" /\ unread[a] = <<>>
    BY <1>0, <1>1 DEF AnswerOK, StreamFollowsStage
  <2>2. ReadCount(a) = Len(stream[a]) /\ stream[a] \in Seq(Chunks)
    BY <1>0, <2>1 DEF ReadCount, AnswerTypes
  <2>3. ReadOf(a) = stream[a]
    BY <2>2 DEF ReadOf
  <2> QED
    BY <1>0, <2>1, <2>3 DEF AnswerOK, ReadInOrder
<1>4. OutcomeOf(a)' = OutcomeOf(a) /\ ReplyOf(a) = "open"
  BY <1>1, <1>2 DEF OutcomeOf, ReplyOf
<1>5. CASE StatusCode(a) = "success"
  <2>1. status[a] \in {NoStatus, "success"}
    BY <1>5 DEF StatusCode
  <2>2. OutcomeOf(a) = "answered" /\ ReplyOf(a)' = "success"
    BY <1>2, <1>3, <1>5, <2>1 DEF OutcomeOf, ReplyOf
  <2> QED
    BY <1>1, <1>2, <1>3, <1>4, <2>2 DEF Succeeds
<1>6. CASE StatusCode(a) # "success"
  <2>1. ReplyOf(a)' = "error"
    BY <1>2, <1>6 DEF ReplyOf
  <2> QED
    BY <1>1, <1>2, <1>4, <2>1 DEF GivesUp
<1> QED
  BY <1>5, <1>6

\* A client that leaves before an outcome is told gives up.
LEMMA LeaveMaps ==
    ASSUME AsksInv, NEW a \in Asks, Leave(a)
    PROVE  SameFor(a) \/ GivesUp(a)
<1>1. /\ stage[a] \in {"reading", "telling", "auditing"} /\ stage'[a] = "left"
      /\ UNCHANGED <<model, stream, items>>
  BY DEF Leave, GotoStage, AsksInv, RetrievalTypes
<1>2. OutcomeOf(a)' = OutcomeOf(a) /\ ToldOutcome(a)' = ToldOutcome(a)
  BY <1>1 DEF OutcomeOf, ToldOutcome
<1>3. CASE ToldOutcome(a) = {}
  BY <1>1, <1>2, <1>3 DEF GivesUp, ReplyOf
<1>4. CASE ToldOutcome(a) # {}
  BY <1>1, <1>2, <1>4 DEF SameFor, ReplyOf
<1> QED
  BY <1>3, <1>4

\* The stages after the retrieval are steps of the contract.
LEMMA AnswerMaps ==
    ASSUME AsksInv, NEW a \in Asks, AnswerStep(a)
    PROVE  SameFor(a) \/ Says(a) \/ Concludes(a) \/ Hears(a) \/ Succeeds(a) \/ GivesUp(a)
<1>1. stage' \in [Asks -> Stages]
  BY AnswerStages DEF AsksInv
<1>2. CASE StreamEnds(a)
  <2>1. stage[a] = "reading" /\ stage'[a] = "telling"
        /\ Told(a, <<"retrieval">>) /\ UNCHANGED <<model, stream>>
    BY <1>2 DEF StreamEnds, GotoStage, AsksInv, RetrievalTypes
  <2> QED
    BY <1>1, <2>1, NoticeSame
<1>3. CASE Audit(a)
  <2>1. stage[a] = "auditing" /\ stage'[a] = "done"
        /\ Told(a, <<"augmented context">>) /\ UNCHANGED <<model, stream>>
    BY <1>3 DEF Audit, GotoStage, AsksInv, RetrievalTypes
  <2> QED
    BY <1>1, <2>1, NoticeSame
<1> QED
  BY <1>2, <1>3, ModelMaps, AnswerNotEnoughMaps, GenerateMaps, ReadMaps, StreamBreaksMaps,
     TellStatusMaps, LeaveMaps DEF AnswerStep

\* The answer of an ask without an agentic configuration implements the contract
\* that the agentic answers implement: its words are heard in order, none twice
\* and none left out, and "success" is told only of a stream that ended without
\* an error and that the client has in full (ask.py:244-318).
THEOREM NativeRefinesContract == Spec => NativeKeepsContract
<1>1. Init => Contract!ContractInit
  <2> SUFFICES ASSUME Init PROVE Contract!ContractInit
    OBVIOUS
  <2>1. ASSUME NEW a \in Asks
        PROVE  /\ TextOf(stream[a]) = <<>> /\ TextOf(items[a]) = <<>>
               /\ OutcomeOf(a) = "pending" /\ ReplyOf(a) = "open"
    <3>1. /\ stage[a] = "idle" /\ model[a] = "silent" /\ stream[a] = <<>> /\ items[a] = <<>>
      BY DEF Init, RetrievalInit, AnswerInit
    <3>2. TextOf(<<>>) = <<>>
      BY ChosenEmpty DEF TextOf
    <3>3. ToldOutcome(a) = {}
      BY <3>1 DEF ToldOutcome, ToSet
    <3> QED
      BY <3>1, <3>2, <3>3 DEF OutcomeOf, ReplyOf
  <2> QED
    BY <2>1 DEF Contract!ContractInit
<1>2. ASSUME AsksInv, AsksInv', [Next]_vars
      PROVE  [Contract!ContractNext]_(Contract!contractVars)
  <2>1. ASSUME NEW a \in Asks, RetrievalStep(a), UNCHANGED answerVars
        PROVE  [Contract!ContractNext]_(Contract!contractVars)
    <3>1. \A x \in Asks \ {a} : SameFor(x)
      <4>1. RetrievalTypes /\ \A x \in Asks : RetrievalOK(x) /\ (record[x].kbid => stage[x] = "done")
        BY <1>2 DEF AsksInv, AnswerOK, RecordFollowsStage, Unaudited
      <4>2. Alone(a)
        BY <2>1, <4>1, RetrievalStepKeeps DEF answerVars
      <4> QED
        BY <2>1, <4>2, UntoldSame DEF Alone, RetrievalKept, answerVars
    <3> QED
      BY <1>2, <2>1, <3>1, RetrievalMaps, ContractStep
  <2>2. ASSUME NEW a \in Asks, AnswerStep(a)
        PROVE  [Contract!ContractNext]_(Contract!contractVars)
    <3>1. \A x \in Asks \ {a} : SameFor(x)
      <4>1. AnswerAlone(a)
        BY <1>2, <2>2, AnswerStepKeeps DEF AsksInv
      <4> QED
        BY <4>1, UntoldSame DEF AnswerAlone, AnswerKept
    <3> QED
      BY <1>2, <2>2, <3>1, AnswerMaps, ContractStep
  <2>3. CASE UNCHANGED <<retrievalVars, answerVars>>
    <3>1. UNCHANGED <<stage, model, stream, items>>
      BY <2>3 DEF retrievalVars, answerVars
    <3>2. \A x \in Asks : SameFor(x)
      BY <3>1, UntoldSame
    <3> QED
      BY <3>2 DEF SameFor, Contract!contractVars
  <2>4. CASE \/ \E a \in Asks : SetBackground(a) \/ EnqueuePending(a)
             \/ WorkerStep \/ StopUtility \/ CancelWorker
    BY <2>3, <2>4 DEF SetBackground, EnqueuePending, WorkerStep, TakeAudit, SendAudit, RetryAudit,
       GiveUp, StopUtility, CancelWorker
  <2> QED
    BY <1>2, <2>1, <2>2, <2>3, <2>4 DEF Next, vars
<1> QED
  BY <1>1, <1>2, AsksInvariant, PTL DEF Spec, NativeKeepsContract, Contract!ContractSpec

=============================================================================
