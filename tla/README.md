# A verification model of nucliadb_agentic_api

This directory models `nucliadb_agentic_api`: the store of agentic
configurations and sources; the protocol that carries an agent's answer to a
client; the retrieval, ranking, prompt, answer and audit of an ask that uses no
agentic configuration; the agent that searches knowledge bases; and the
websocket and MCP endpoints. TLC checks small instances of each; the
configuration store, the agentic answers, the ask without a configuration, the
agent, and the websocket and MCP endpoints are also proved correct, with TLAPS,
for every value of their constants.

Paths below are relative to the repository; `API` stands for
`src/nucliadb_agentic_api` and `AGENT` for
`agents/nucliadb/src/hyperforge_nucliadb_agentic`.

## 1. The system

| Component | State it keeps | Operations | Hard part |
|---|---|---|---|
| Configuration store: `API/db/agentic_configs.py`, `API/v1/agentic_configs.py`, `API/commands.py` | rows with a soft-delete time; a cache per process, its keys bucketed by `int(time()) // 5` | create, patch, delete, get, list, purge, activation | every request is several autocommitted statements: interleavings of requests, processes, purge and clock |
| Source store: `API/db/sources.py`, `API/v1/sources.py` | rows; the same kind of cache | create, patch (a missing `client_secret` keeps the stored one), delete with an in-use check, get, list | references between two tables nothing locks |
| Configuration transform: `API/db/transform.py` | none | configuration and sources to hyperforge's configuration | reads sources one after another |
| Session manager: `API/server/session.py` | per process an LRU of session memories; per question a manager of drivers, a keep-alive task, a broker topic | `activate`, `answer` | several processes with memories of their own; failures between two publications; a time limit; evictions; restarts |
| Agentic answers: `API/agentic/*.py`, agentic branch of `API/v1/ask.py` | per request a task that reads the topic, a queue, an event | `start`, `loop`, streamed and synchronous responses | two tasks per request; either can die; the client can leave |
| Retrieval: `AGENT/ask/search/ask.py`, `retrieval.py` | per request its queries and results | prefilters, prequeries, main query, graph strategy | concurrent finds under a semaphore; filters set by results |
| Native answers: `AskResult` in `AGENT/ask/search/ask.py`, `API/v1/ask.py` | per request the text, status and items so far | streamed and synchronous responses | the model's stream breaks half way |
| Audit: `AGENT/ask/audit.py` | an audit request in a context variable; a queue; a worker task | middleware, enqueue, publish with retries, finalize | the response is sent before it is produced; a publication that raises may be delivered |
| Find parsing and hydration: `parsers/*.py`, `hydrator.py` | none | a find request into the units of a retrieval; labels and keywords of the older style into filter expressions | negations; filters that may not be mixed; windows |
| Graph strategy: `graph_strategy.py` | per request the relations, their scores, the explored entities | entities, hops, ranking, text blocks | recovery from a failed hop; scores paired with relations by place |
| Fusion, rerankers, best matches: `rank_fusion.py`, `rerankers.py`, `ask.py` | none, or per request | one ranking out of several | weights of zero, ties, windows, duplicates |
| Prompt context: `prompt.py` | per request an ordered map of texts | nine strategies, images, the size limit | each strategy deletes, replaces or moves what others added |
| NucliaDB agent: `AGENT/agent.py`, `config.py` | hyperforge's question memory | choose sources, ask them concurrently | filters built from keywords, labels, requests and drivers by several functions |
| Websocket endpoint: `API/v1/ask_websocket.py` | a receiver task | a loop of questions | cleanup when something raises |
| MCP: `API/v1/mcp_nucliadb.py`, `mcp_content.py` | an LRU of servers per knowledge base | tools, resources | a server captures its first caller |
| Migrations, wiring, settings, models, predict client | | | run once, or thin |

How they interact. A client's request reaches the API process. Configuration
requests act on the database and on the process's cache. An ask that names an
agentic configuration publishes a question to the agentic server, subscribes
to the question's topic and reads it in a task of its own
(`AgenticAskResult.loop`), which fills a queue the response takes from. On the
server `activate` reads the configuration and its sources through the caches
of that process, loads the session memory, and spawns `answer`, which runs the
agent and publishes its outcome and DONE. An ask without an agentic
configuration does its own retrieval (prequeries and finds, each parsed,
hydrated and reranked, the graph strategy, then the best matches of all),
builds the context of the prompt from what it found, reads the model's stream,
and leaves an audit request for the middleware, which queues it for a worker.
The NucliaDB agent makes such asks, and finds and catalog searches, of several
sources at once. The websocket and the MCP servers are further ways in; both
read search configurations that belong to a knowledge base.

hyperforge (the broker, the agents, the session memory's store), the NucliaDB
server, predict and NATS are not part of the repository. They are modelled
from how the code uses them, marked external, and are as nondeterministic as
the code must expect: publications that fail after or before they are
delivered, queries that find any subset of what their filters allow, streams
that break anywhere.

### What makes each component correct

- *Configuration and source store.* A cached answer is at most one 5-second
  bucket stale. A patch never undoes a delete. A patch without a secret never
  loses one. The table goes only through the states create, soft delete, and
  purge after the retention. A deleted source strands only configurations
  written after its in-use check, a write names only sources it validated.
- *Session manager.* A topic ends in one outcome and DONE, whatever fails;
  nothing is open when a client is told; a follow-up question sees what was
  saved, as far as the memory of its own process can; every question ends.
- *Answers, agentic and native.* What is heard is what was said, in order,
  once, in full when the client is told success (`AnswerContract`). Requests
  and their tasks end.
- *Retrieval.* What is returned matches the prefilter and the resource asked,
  and older filters keep their meaning as expressions.
- *Ranking.* The best matches are all that was found, once, by the weighted
  sum of their scores.
- *Graph strategy.* What it keeps still has the score it was ranked by, and
  overlapping paragraphs are merged into the one that holds them.
- *Prompt context.* No retrieved text is lost and none is sent twice, the
  user's own texts stay in front, and only the end is cut.
- *NucliaDB agent.* What the context of an ask or a retrieve shows is inside
  the filters of the driver and of the request, what a search for titles,
  images or facets shows inside the driver's catalog filter.
- *Websocket and MCP.* A connection is cleaned up; a call stays in its
  knowledge base; filters only narrow the main query of a search.
- *Audit.* What is published is whole, about the main query, in order, and is
  eventually sent or given up.

`PROJECT.json` lists the hazards behind these, each at its line.

## 2. The modules

### Configuration store

    KnowledgeBoxTables          tables, caches, clock; what the statements do to them
      AgenticConfigs            requests on configurations, the purge
      Sources                   requests on sources
      Readers                   gets, and the activation that reads a configuration and its sources
        KnowledgeBox            composition, clock, evictions, restarts, properties
          MCKnowledgeBox        TLC instances
          KnowledgeBoxProofs
    ConfigLifecycle             abstract: what one row of the table goes through

One action is one `await` of the code with what the coroutine does until the
next one. A request is a record (`configJob`, `sourceJob`, `readJob`) of the
locals of its coroutine and a `pc` that names its next statement: for example
`create_agentic_config` is `BeginCreate` (the endpoint and the start),
`ValidateSources` (its SELECT), `LookupRow`, then `ReviveRow` or `InsertRow`,
then `CacheConfig`, which is what runs after the last statement returned and
before the answer. `now` counts 5-second buckets; a cache is keyed by the
bucket a coroutine computed its key in, so an entry written under an old key
is never read again and only entries of the current bucket are kept. `Restart`
stops a process between any two steps. `configSeen`, `sourceSeen`,
`writtenSince`, `deletedSince` and `lastSecret` record history and guard
nothing.

`ConfigLifecycle` has three actions, `Store`, `Hide` and `Forget`, over the
table, the clock and the retention. `KnowledgeBox` implements it with no
change of variables.

### Agentic answers

    QuestionTopics              the broker's topics and messages (external, publications can fail)
      SessionManager            activate and answer on the agentic server
      AgenticAskResult          the task and the handler of the API
        AgenticAsk              composition, fairness, properties
          MCAgenticAsk          TLC instances
          AgenticAskProofs
    AnswerContract              abstract: what asking promises

`phase[q]` follows a question through `activate` and the task it spawns, which
never run at the same time. Several processes of the agentic server run
(`charts/nucliadb_agentic/values.yaml`), and the broker gives a question to one
of them, `server[q]`; each has an LRU of its own, `memory[v]`, and stops
(`Restart(v)`) or evicts (`Evict(v, s)`) alone. `beside[q]` records which
questions were in progress while `q` loaded a memory, and guards nothing.
`loop[q]` and `handler[q]` are the API's two tasks;
`queue[q]` is between them. A message keeps what the code looks at: its
operation, its text, its learning id, whether it is the final answer.
`AgenticAsk!Contract` maps the four variables of `AnswerContract`: what can be
read of the topic is `said`, what of it reaches the client is `heard`: the items
of a streamed response, `self._answer_text` of a synchronous one (`HeardOf`).
Of a message only a chunk says anything to a synchronous client (`TextTo`).

### Ask without an agentic configuration

    Retrieval                   prefilters, prequeries, main query, graph strategy
      AskResult                 the model's stream into the response's items
        StreamAudit             middleware, queue, worker, retries
          NativeAsk             composition, properties; the same AnswerContract
            MCNativeAsk         TLC instances
            NativeAskProofs

`stage[a]` is where the request's coroutine stands; `task[a][p]` is the asyncio
task of a prequery. The semaphore lets tasks in in the order they were
created; the first exception ends the gather but not the other tasks.
Filters are the sets of resources they select, and of two kinds, because the
code joins a prefilter to one kind and replaces the other. `search[a]` is the
audit request that all finds of an ask write to: `audit.retrieve` sets some
fields always and some only when a query has them, and appends the vectors, so
`AuditRetrieve` merges, field by field.

### Finding, ranking and the graph

    TextBlocks                  paragraphs of a knowledge base (constants)
      FindParsing               a find request: validation, filters, windows
      GraphStrategy             entities, hops, ranking of relations, text blocks
    Ranking                     rerankers, weighted sums, what is shown
        KnowledgeBoxRetrieval   FindParsing, Ranking and GraphStrategy: one ask, query after query
          MCKnowledgeBoxRetrieval
          KnowledgeBoxRetrievalProofs

`stage` walks through `find_retrieval` (parse, retrieve, hydrate and rerank)
for each query of an ask, then through `get_graph_results`, then
`compute_best_matches`. Where `Retrieval` asks how concurrent queries of one
request meet, this asks what one of them does to its results: `FindParsing`
and `Ranking` are operators, `GraphStrategy` is the loop of hops with
`relations` and `scores`, two sequences per name of an entity that belong
together by place. A filter is the set of blocks it selects; blocks have labels, words,
and a span of a field. Predict and the hydration can fail at each call, and a resource
may be deleted between any two.

### Prompt context

    PromptContext               the ordered context, its strategies, images and cap
      MCPromptContext
      PromptContextProofs

`context` is the insertion-ordered dictionary of `CappedPromptContext`, a
sequence of `[id, text]`; `steps` are the calls `_build_context` has still to
make, in its order. Each strategy is one action, since it awaits the augment
endpoint before it changes anything; between two a resource can be deleted. A
text is a sequence of pieces, so a piece can be looked for in what was built
and the cap can cut between two.

### NucliaDB agent

    NucliaDBAgent               published functions, tasks over sources, filters
      MCNucliaDBAgent           TLC instances
      NucliaDBAgentProofs

A call has one task per source; a task walks from `Start` through the
`Prepare` action of its kind, where the filter is built, to `Search`. Filters
are sets of resources. `search_by_title` has an action of its own
(`PrepareTitle`), `search_images` and `all_images_by_title` another
(`PrepareImages`), since what they find for the resources of a title is found
with a filter of theirs. A context has the resources it shows and, `beside` them,
those that prequeries and the graph of an ask bring to its summary. Which
sources, models and functions an agent picks is decided in hyperforge or by a
language model, and every outcome is tried.

### Websocket and MCP

    SearchConfigurations        what an owner saves per knowledge base (external)
      AskWebsocket              endpoint and receiver task
      MCPServers                LRU of servers, tools, resources
        Frontends               composition, properties
          MCFrontends           TLC instances
          FrontendsProofs

`endpoint` and `receiver` are the two tasks of a websocket. A request to an MCP
server has the server it was handed (`server[r]`), which keeps the knowledge
base and the user of the call that made it and lives on after its eviction. The
answer of a search gives texts (`documents`) and lists what it cites (`listed`):
the latter may come from the prequeries or the graph of a saved configuration.

### Sequences

    Subsequences                elements in a set or at places, each once; joined; sorted; summed up
      SequenceLemmas            what these and the operators on queues return

A queue, a topic, a stream and a response are sequences, and what is said of
two of them is said of the texts in them. The operators of `Subsequences` rest
on recursive functions, which a proof can unfold where the folds and the sort of
the community modules are out of its reach; `QuestionTopics`, `SessionManager`
and `AskResult` use them to say which messages carry a text, `PromptContext` for
what a strategy keeps of a context, `Ranking` and `GraphStrategy` for the order
and the sums of scores.

### Naming

Definitions have the names of the functions they model where there is one.
A definition whose comment begins with "Mutant" is a plausible wrong version
of the one after it, in no specification; each property is seen to fail when
it takes the place of the right one.

## 3. The runs

| Run | Instance | Shows |
|---|---|---|
| `configs` | 2 writers, 1 reader, 1 id, 2 processes, 4 buckets, retention 1 | `TypeOK`, `CachedConfigFresh`, `OnlyCreateRevives`, and that `KnowledgeBox` implements `ConfigLifecycle` |
| `sources` | 2 writers, 1 reader, 1 source, 2 secrets, 2 processes, 2 buckets | `CachedSourceFresh`, `StoredSecretIsLastSet` |
| `activation` | a configuration writer, a source writer and an activation in one process | `SettledReferencesKept`, `WritesNameValidatedSources` |
| `answering` | 2 questions of one session, given to one process or two, nobody reading; failing publications, evictions, restarts, failed saves | `OutcomeClosesTopic`, `AnsweredLeavesNothingOpen`, `FollowUpSeesSaved`, `QuestionsEnd` |
| `asking` | 1 question end to end, streamed or synchronous, everything that fails failing | `HeaderNamesCall`, `KeepsContract`, `RequestsEnd`, `LoopsEnd` |
| `native` | 1 ask of every kind with up to 3 prequeries, or 2 asks whose audits meet | `FindsMatchPrefilter`, `ResourceAskStays`, `NoFindLeftBehind`, `AuditsWhole`, `AuditTellsMainQuery`, `PublishedInOrder`, `AuditsDrain`, `NativeKeepsContract` |
| `prompt` | a document whose field ids begin alike, a conversation with a file; every set of strategies that may follow another, 3 limits | `PromptCapped`, `UserContextFirst`, `RetrievedKept`, `NoTextTwice` |
| `retrieving` | 4 paragraphs, one inside another; 1 or 2 queries of any weight, each kind of filter, 4 graphs in 2 hops | `FoundMatchFilters`, `BestMatchesRanked`, `OnlyWeightlessFails`, `ScoresFitRelations`, `ContainedMerged` |
| `agent` | 2 calls of every kind, 1 or 2 sources, labels that cannot be split | `DriverFiltersHold`, `LabelsHold` |
| `frontends` | a websocket and 2 MCP requests of 2 callers in 2 knowledge bases, configurations that change | `ReceiverStopped`, `CallsStayInKb`, `SearchesNarrow` |

Two runs show, each by one violated property, what the repository says of
itself and the code does not keep:

| Run | Property | What happens |
|---|---|---|
| `prefilter` | `ResultsMatchPrefilter` | The graph strategy returns resources the prefilter did not match. |
| `prefix` | `FullResourceComplete` | The full text of a field is deleted when that of a field whose id begins its own is added after it. |

### What the properties concede

A property that passes says what the code does keep, and names the cases in
which it does not. A reader should know them:

- A configuration can be left naming a source that was deleted after its
  validation (`SettledReferencesKept`), and a create can find a soft-deleted
  row, lose it to the purge, change no row and answer 201 (`ConfigLifecycle`).
- A process whose LRU has a session does not see what another process has
  answered since, and a question in progress while a memory is loaded may be
  missing from it, for as long as it is kept (`FollowUpSeesSaved`).
- Text an agent does not stream in chunks is yielded but not collected: the
  contract promises a synchronous client the chunks only, so its success may come
  with an empty answer; an agentic ask for relations tells
  success, then fails on an attribute nobody sets (`KeepsContract`).
- A task reading a topic that dies of an exception `loop` does not catch leaves
  its request waiting (`RequestsEnd`).
- What an audit request tells of the search is the main query's only where that
  writes: the keywords, vector set, filter or security groups of a prequery stay
  when the main query has none, and the vectors of prequeries stay in front of
  its own (`AuditTellsMainQuery`).
- A failing search of neighbours in the first hop fails the ask, by a response
  that is not bound; entities that predict detects without a group, or names in
  two groups, are explored twice and lose the pairing of scores
  (`ScoresFitRelations`).
- An ask in which everything weighs nothing divides by zero
  (`OnlyWeightlessFails`).
- Hierarchy leaves an empty entry of a resource that is deleted meanwhile
  (`RetrievedKept`); it, field extension and attachments can repeat a text
  (`NoTextTwice`).
- Of several label sets with several labels each only the last one filters, and
  a label that cannot be split counts as the one before it (`LabelsHold`).
- Titles, images and facets are bound by the driver's catalog filter and not by
  its filters: the find of `search_images` merges none. `inner_facets` and
  `inner_catalog_search` ignore both. Prequeries and the graph, which a public
  ask or the agent's search configuration may have, bring resources to a summary
  that no filter of the driver selects (`DriverFiltersHold`).
- The early return of a refused search configuration, and an exception, skip
  the websocket's cleanup (`ReceiverStopped`); an MCP call may be made in the
  name of another caller of the same knowledge base (`CallsStayInKb`).
- The answer of an MCP search lists every resource it cites, also what the
  prequeries or the graph of a saved configuration found, which the tool's
  filters do not narrow; the texts it gives skip these (`SearchesNarrow`).

### Bounds, and why they are enough

- *Tasks and processes.* The races of the stores are between two writers, or a
  writer and a reader or the purge, in the same or in two processes; each run
  has those it is about. A task starts a new request when one ends, so
  histories of requests are not bounded. The proofs cover the rest.
- *The clock.* `MaxTime` buckets. A key needs one boundary to become old, a
  row needs `Retention` plus one to expire, and one more lets a request
  straddle it.
- *Configurations.* One names no source and one names every source, the only
  distinction the store makes.
- *Agents.* `MaxEmitted` messages before the final answer: 2 when their order
  matters, 1 when only the life of the topic does. An agent may emit steps, reasoning
  or chunks, fail at any point, or run into its time limit.
- *Questions.* Two of one session for what they share (the memory), given to the
  same process or to two (`Assignments`); one end to end, since requests share no
  other state.
- *Prequeries.* Three, under a semaphore of two, which is
  `MAX_CONCURRENT_PREQUERIES`: one waits while two run. The main query and its
  prequeries search by different parts (`Parts`), so each writes in the audit
  what another leaves alone.
- *Audit.* `MaxTries` is 2 where the code has 4: a failure that is retried
  and a failure that is given up. `Words` has two chunks, so an answer can be
  cut between them.
- *Prompt.* A text is a few pieces, a limit is 1, 6 or 20 of them: nothing but
  the user's text fits, something is cut, everything fits. One resource is
  deleted, before any of the calls.
- *Ranking.* `Scores` are 0, 1, 2 and weights 0, 1, 2, enough for ties, for a
  sum that overtakes a single score and for a zero total. `MaxWindow` is 3 and
  `MaxEval` 2 where the code has 200 and 100: four blocks and three relations
  reach them.
- *Graph.* Four graphs of at most three paths and two hops: the second hop is
  the first that can meet a relation again.
- *Agent.* Two calls, each in one or two sources, and three resources that
  differ in labels, words and in the drivers' filters; the filter and the
  catalog filter of one driver share no resource, so that what one alone binds is told apart.
- *Frontends.* `Capacity` 1 where the code keeps 100 servers, so that two
  knowledge bases evict each other; `MaxSaves` 1, a change while a
  configuration is in use; configurations with and without prequeries, and URIs
  of either knowledge base; `MaxMessages` 2, a question and what follows it.

`CHECK_DEADLOCK FALSE` is in the runs of every module but `KnowledgeBox`: each
question, ask, call or connection is served once, and then the system rests. `KnowledgeBox`
never does, and deadlock is checked there.

### Fairness

`AgenticAsk` assumes weak fairness of each question's steps on the server and
of each request's reading tasks; `NativeAsk` of the audit worker. An event
loop runs every ready task, and `question_timeout_seconds` ends an agent that
does not end by itself. Nothing is assumed of clients, who need not ask or
leave, of failures, evictions or restarts, nor of the model's stream. A step
that may fail is fair as a whole: it happens, and may always fail. The liveness
properties name what they concede: a server task that died reporting
(`phase = "lost"`), and in `RequestsEnd` a reading task that died
(`loop = "broken"`). The other modules state no fairness and are
checked for safety only.

## 4. What is proved

Each theorem is about the `Spec` of the module that composes a component, for
any sets its constants may be, finite or not unless an assumption says so, and
any bounds. What is assumed of the constants are the named assumptions of the
modules, which TLC evaluates on every run: constants have the right types,
values that stand for "none" are none of the others, bounds are numbers.
`RetrievalAssumption` also says that the prequeries of a request are numbered
and finitely many and that no query is both a prefilter and a plain one,
`RequestsAssumption` that a filter in the older style has labels and is of one
kind ("should not happen due to validation", `find.py:554`), that weights are
whole numbers from zero on (`ge=0`, `ask/model.py:271`, 314 and 393, where they
are floats), that scores are too (nothing in the code checks what a model
returns), and that paragraphs are finitely many,
`AskResultAssumption` that status codes and notices are no words of an answer,
`PromptAssumption` that a paragraph is in one place of one field and the fields
are finitely many, and `TextsAssumption` that what a user writes and what
metadata adds are no paragraphs.

| Module | Theorem | States |
|---|---|---|
| `KnowledgeBoxProofs` | `TypeCorrect` | `TypeOK` |
| | `SettledReferences` | `SettledReferencesKept` |
| | `CachedConfigsFresh` | `CachedConfigFresh` |
| | `CachedSourcesFresh` | `CachedSourceFresh` |
| | `SecretsKept` | `StoredSecretIsLastSet` |
| | `ImplementsLifecycle` | `LifecycleSpec` |
| | `OnlyCreatesRevive` | `OnlyCreateRevives` |
| | `WritesValidated` | `WritesNameValidatedSources` |
| `AgenticAskProofs` | `TopicsInvariant` | the invariant of the topics |
| | `AskTypes` | `TypeOK` |
| | `OutcomesClose` | `OutcomeClosesTopic` |
| | `AnsweredClosed` | `AnsweredLeavesNothingOpen` |
| | `MemoriesInvariant` | the invariant of the session memories |
| | `FollowUpsSeeSaved` | `FollowUpSeesSaved` |
| | `LoopsInvariant` | the invariant of the reading tasks |
| | `HeadersNameCalls` | `HeaderNamesCall` |
| | `QueuesInvariant` | the invariant of the queues |
| | `AgenticRefinesContract` | `KeepsContract` |
| `NativeAskProofs` | `AsksInvariant` | the invariant of retrievals and answers |
| | `NativeTypes` | `TypeOK` |
| | `PrefilterBinds` | `FindsMatchPrefilter` |
| | `ResourceAsksStay` | `ResourceAskStays` |
| | `FindsAwaited` | `NoFindLeftBehind` |
| | `AuditInvariant` | the invariant of the audit |
| | `AuditsOfWholeAnswers` | `AuditsWhole` |
| | `AuditsTellMainQuery` | `AuditTellsMainQuery` |
| | `PublishesInOrder` | `PublishedInOrder` |
| | `NativeRefinesContract` | `NativeKeepsContract` |
| `FrontendsProofs` | `ReceiverStops` | `ReceiverStopped` |
| | `CallsInvariant` | the invariant of the MCP calls |
| | `CallsKeepToKb` | `CallsStayInKb` |
| | `SearchesOnlyNarrow` | `SearchesNarrow` |
| `NucliaDBAgentProofs` | `FiltersInvariant` | the invariant of the agent's filters |
| | `DriverFiltersBind` | `DriverFiltersHold` |
| | `LabelsBind` | `LabelsHold` |
| `PromptContextProofs` | `PromptInvariant` | the invariant of the context |
| | `UserTextsFirst` | `UserContextFirst` |
| | `PromptsCapped` | `PromptCapped` |
| | `RetrievedStaysIn` | `RetrievedKept` |
| | `TextsOnce` | `NoTextTwice` |
| `KnowledgeBoxRetrievalProofs` | `WeightsDecide` | `OnlyWeightlessFails` |
| | `FiltersKept` | `FoundMatchFilters` |
| | `GraphKept` | the invariant of the graph's exploration |
| | `RelationsKeepScores` | `ScoresFitRelations` |
| | `NoParagraphInAnother` | `ContainedMerged` |
| | `RankedBest` | `BestMatchesRanked` |

### The configuration store

*Types.* `TypeOK` is inductive by itself because it says of each coroutine
which locals the statements still to come use; every other proof uses it.

*Caches.* `CachedConfigFresh` is not inductive: a coroutine that is about to
write a cache carries the value in its locals. `ConfigsFresh` adds that what
the table shows, what a write is about to cache and what a read with a current
key is about to cache have been seen in this bucket. A read whose key is old
may carry anything, which is why its `at` must be compared with `now`, and why
`TimesTaken` (no coroutine's time is ahead of the clock) comes first. At a
`Tick` the histories restart from the table and the writes under way; all
caches are empty under the new keys, and no read has the new key yet.
`SourcesFresh` is the same for sources.

*Secrets.* `StoredSecretIsLastSet` is inductive: a patch that leaves the
secret out reads it in the statement that writes it, not before.

*References.* `SettledReferencesKept` follows from what `CheckInUse` saw and
from `writtenSince` growing with each write; `WritesNameValidatedSources` from
what `ValidateSources` saw and `deletedSince`.

*Lifecycle.* Every step maps to a step of `ConfigLifecycle` or a stutter, with
`TypeOK` as the only invariant. `OnlyCreateRevives` needs `CreatePath`: only a
create reaches the statements that insert or revive.

### Agentic answers

*Topics* (`TopicsInv`). Neither `TypeOK` nor `OutcomeClosesTopic` says enough
of the step before. For each question the invariant ties `phase` to what its
topic ends with: no outcome and no DONE while the agent runs, an outcome and
nothing after it when DONE is next, an ERROR where a failed activation has told
one. A task that reports a failure cannot tell whether the broker delivered the
publication that raised, so `"failing"` and `"failed"` allow each of what it may
have left. The final answer is on a topic only once the drivers' manager is
closed; the texts emitted are bounded by `emitted`. A question is activated
once (`AskedOnce`), which is what makes the steps of a server a function of one
question: every action is shown to keep the others as they are.

*Memories* (`MemoriesInv`). `FollowUpSeesSaved` compares the memory a question
starts in with what is saved then. Its invariant has a part for a memory in the
LRU of a process (`ServedOK`): it has whatever of its session that process has
saved, or is still answering and may yet save, but for what was beside its load.
And one for a memory that is being loaded (`LoadOK`): it has what was saved when
it was read, and all that may be saved before it is used is beside it. A question
that finds its session in the LRU takes the first, so only what other processes
answered can be missing; one that loads it takes the second, so nothing but what
is beside it can. An eviction or a restart takes a memory away and adds none.

*Reading tasks* (`LoopsInv`). Up to where `loop` has read there is no DONE but
the last, and if it knows no learning id there was none; so the event is set
without an id only when the topic is over or a message was dropped, and a
header without an id means the same.

*Queues and the contract* (`QueuesInv`). The texts for the client that were read
of a topic are those it has heard followed by those queued, for a synchronous
client the chunks among them; a DONE is the last message of a queue and of
what was read; an ERROR that was read is in the queue until it ends the
response. Each action is then, for its question, one of `Says`, `Concludes`,
`Hears`, `Succeeds`, `GivesUp` or `SameFor`, and `SameFor` for the others, so
it is a step of `AnswerContract` or a stutter. The next text a response yields
is the next one said because it is at the head of the queue, and a response
that succeeds has heard all because the DONE it took left its queue empty and
the topic read to its end.

### Ask without an agentic configuration

*Retrieval and answer* (`AsksInv`). Tasks of a group run only while the group
is awaited or its request has failed. An ask with prefilters has searched
nothing else before they are over; afterwards every query's scope, and so what
it found, is inside what they matched. An ask of one resource has no graph and
no prefilter, and its queries are scoped to that resource. Before the main query
each field of the audit request is empty or tells of a prequery that is done and
writes it (`PrequeriesTold`); the main query comes after the last of them, writes
over its own fields and appends its vector, and nothing writes later
(`MainTold`). For the answer, what of the
stream has been read is a beginning of it, and what is yielded and recorded are
its words; the record is complete once the response tells it.

*Audit* (`AuditInv`). `PublishedInOrder` speaks of two publications; the
invariant relates the queue, the request being sent and all that was ever
enqueued: the queue is the end of it, what is published was taken from it in
that order, each at most as often as it was tried. An ask is enqueued after its
response is over, when its context no longer changes, which gives `AuditsWhole`
and `AuditTellsMainQuery`.

*The contract.* As above, with the ask's stream for the topic.

### Frontends

`ReceiverStopped` is inductive. `CallsStayInKb` and `SearchesNarrow` need
`CallsInv`: a server in the LRU, or one that a request still runs in after its
eviction, was made for a request of the knowledge base it is keyed by; an ask
is made there and for whoever had the server made; its filters contain those
of the tool and those of the configuration it read, even if another one has been
saved since; it has prequeries or the graph only if that configuration does
(`AskedNarrow`); and what is given is in that knowledge base and selected by these
filters, and so is what is listed, unless the ask has prequeries or the graph.

### NucliaDB agent

`FiltersInv` says of every task that the filter it searches with, and the
context it has found, are inside what its call may show of its source: the
driver's filter for an ask or a retrieve, its catalog filter for titles, images
and facets, and the labels; and that nothing is beside a context but in an ask
with prequeries or the graph. One step per function that
prepares a search shows that what it builds is. `LabelsHold` then is a lemma
about lists of labels: when at most one label set is named more than once,
`or_filters` ends as that set's labels, and the filter selects by every set.

### Prompt context

`PromptInv`: until the cap the user's texts are the first blocks of the context
and the cap is the last step left; afterwards nothing is left to do and what is
sent is the cap of what was built. Every strategy is a composition of `Put`,
which keeps the places there are, of removals of blocks that are not the
user's, and of the metadata's move of such blocks to the end, so one lemma for
each of the three carries the first conjunct through all strategies.
`PromptCapped` is a lemma on `Cap` (`CapEntryCaps` for one entry, then induction
on the entries): it returns the entries before the one that crosses the limit,
and the beginning of that one.

`RetrievedKept` needs `KeptInv`: every retrieved paragraph has a block in the
context, its own or that of its field's whole text, from the time the first
step has put them; and a block has the text it is named for (`Telling`), except
for what hierarchy leaves of a resource that was deleted. A step may take a
paragraph's block out only as the whole text of its field, or of one whose id
begins that field's, goes in; the latter is the case the property concedes to
full_resource, and field extension puts back what it lost.

`NoTextTwice` needs `TwiceInv`: no two blocks have the same id, a block has a
paragraph only if it is named for it or for its field, and then once
(`Singly`), and no paragraph is beside its field's whole text (`Apart`). The
last is kept because whole texts are put by one step, full_resource: it is
taken at most once and only metadata, images and the cap follow it. A message
among the remaining text blocks is the exception, since the code looks there
for a field it never finds.

### Finding, ranking and the graph

*The course* (`CourseInv`). Sources come in one by one, so where an ask is
tells how many there are; a failure after the last one is the division of
`compute_best_matches`, and then the total of the weights, and so each, is zero.

*Filters* (`FoundInv`). From its parsing to its reranking a find has valid
filters, and what was found is selected by them. The rest is about
`convert_labels_to_filter_expressions`: the two expressions it makes, of a
field's labels and of a paragraph's, are joined by "and", and with the
combinators it swaps under a negation they select what the filter says, for
each of the five kinds (`LabelsAgree`) and for any list of filters.

*Scores of relations* (`GraphInv`). `ScoresFitRelations` holds of one hop
because of the hop before: names that have scores are those of entities already
explored, those about to be explored are none of them (`Frontier`), and names
determine entities where no two share one. So what a hop puts in `relations`
is under names without scores. Where predict detects entities they have no
group, and only the types are left of the invariant.

*Paragraphs of relations* (`BlocksInv`). One pass keeps, of the blocks of a
field sorted by their starts and the longer first, a sequence in which both ends
only grow (`Later`), and for each block seen so far one that covers it with at
least its score (`KeptUpTo`): a block that ends no later than the last one kept
is inside that one, because it starts no earlier. Blocks of different fields
do not cover each other, so the fields can be joined.

*Best matches* (`SourcesInv`). A source has each paragraph once, which what
`compose_find_resources` keeps ensures, so that its weighted score is the score
it has there times the source's weight. `MergeSums` is an induction over all
the weighted items: so far each paragraph is there once with the sum of what it
has been given. A sort keeps the items and orders them. A source that is alone
with results is not weighted, and its own order is that of the weighted scores,
since all are multiplied by the same number; if that is zero all sums are equal.

### Lemmas

`SequenceLemmas` has what the proofs need of sequences: what is taken from a
queue, which elements are chosen of one that grows or of two joined, how many
publications one more makes. The library's induction theorems take an operator
as a parameter and cannot be cited here, so induction is a lemma about a set of
numbers (`Induction`, from the well-foundedness of `<` on `Nat`), and what
`Chosen`, `Joined`, `Picked`, `Sorted`, `Total`, `PutAll` and `Cap` return is
proved by it: a sort by a strict order leaves the same elements, none behind one
it comes before (`SortedElements`, `SortedOrder`).

### What stays with TLC

- *Liveness*: `QuestionsEnd`, `RequestsEnd`, `LoopsEnd` and `AuditsDrain`. The
  prover has no rule for fairness and ENABLED.
- *The two violations*, which are counterexamples.

## 5. What is not modelled

- *The list endpoints* only read. *Field encryption* is the identity to the store.
- *`transform.py`* beyond its reads of sources: a pure conversion.
- *Session manager*: `memory.rules`, cancellation of a running answer, the
  feedback and OAuth callbacks, a failure of `start_question`: their effects
  are inside hyperforge.
- *Items of a response* other than text, errors and the status: citations,
  JSON object, metadata, token counts, relations' contents.
- *Filter expressions* whose field and paragraph parts are joined by
  `"operator": "or"`: a driver or a client may send one, the code itself joins
  with "and" (`AGENT/agent.py:569`).
- *Find and hydration*: highlighting, the fields a hydrated paragraph has,
  pagination; a `rank_fusion` inside the search index.
- *Prompt*: how a table, a title, metadata or an attachment is laid out; the
  instructions sent beside the context.
- *Agent*: which source, function or model is chosen, which hyperforge or a
  language model decides; `create_context_from_nucliadb_response`, which has no
  caller.
- *MCP*: the wording of the tools' answers; `mcp_content.py`, which has no caller.
- *Audit*: the fields of an audit request besides its answer, status and those
  that tell its searches, whose values are reduced to the query they tell of;
  usage reports to the knowledge box, except as calls that may raise.
- *OAuth callback*: forwards one request to hyperforge.
- *LLM migration and schema migrations*: run once, before any process starts.
- *Predict client, metrics, settings, start-up*: thin or plain initialisation.

## 6. Plan

Modelled, in this order: the configuration store; the agentic answers; the
native ask; prompt context; find parsing, ranking and the graph strategy; the
NucliaDB agent; websocket and MCP. Proved: the safety of all of them, and the
three refinements. Next:

1. *An abstract search*, with the proof that `Retrieval` implements it.
2. *LLM migration* and *transform* as operators on bounded trees.

Abstract specifications worth stating besides the two there are: a store with
at most one bucket of staleness that `KnowledgeBox` implements for both tables
at once, and a search that returns only what its filter allows, which
`Retrieval` with the graph strategy would have to implement.

## 7. Running

    tlc -workers 2 -config configs.cfg MCKnowledgeBox.tla
    tlc -workers 2 -config asking.cfg MCAgenticAsk.tla
    tlc -workers 2 -config native.cfg MCNativeAsk.tla
    tlc -workers 2 -config prompt.cfg MCPromptContext.tla
    tlc -workers 2 -config retrieving.cfg MCKnowledgeBoxRetrieval.tla
    tlc -workers 2 -config agent.cfg MCNucliaDBAgent.tla
    tlc -workers 2 -config frontends.cfg MCFrontends.tla
    tlapm KnowledgeBoxProofs.tla
    tlapm AgenticAskProofs.tla
    tlapm NativeAskProofs.tla
    tlapm FrontendsProofs.tla
    tlapm NucliaDBAgentProofs.tla
    tlapm PromptContextProofs.tla
    tlapm KnowledgeBoxRetrievalProofs.tla

The longest runs are `frontends` (5.7 million states), `activation` (4 million),
`agent` (1.7 million), `native` (930 thousand, with liveness) and `answering`
(770 thousand, with liveness), up to two minutes each.

The longest proofs are those of `AgenticAskProofs`, `NativeAskProofs`,
`PromptContextProofs` and `KnowledgeBoxRetrievalProofs`, about three minutes each
on two cores.
