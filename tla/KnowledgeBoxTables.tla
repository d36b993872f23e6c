------------------------ MODULE KnowledgeBoxTables ------------------------
(***************************************************************************)
(* The state that every request on one (account, kbid) shares: the rows of *)
(* agentic_config_table and sources_table, the CACHE of each Python        *)
(* process, and the wall clock that buckets the cache keys.  The modules   *)
(* AgenticConfigs, Sources and Readers act on it, KnowledgeBox composes    *)
(* them.                                                                   *)
(*                                                                         *)
(* Every `await database...` of the code is one autocommitted statement,   *)
(* so a request is a sequence of atomic steps: one per statement, and one  *)
(* for what the coroutine does after the last statement has answered.      *)
(***************************************************************************)
EXTENDS Integers, FiniteSets

CONSTANTS
    ConfigIds,    \* agentic_id values
    SourceIds,    \* source_id values
    Configs,      \* agentic configurations, as far as they can be told apart
    Refs,         \* Refs[c]: the source ids in c.smart_agent.sources
    Secrets,      \* values of an MCP source's client_secret
    Procs,        \* Python processes: API replicas, agentic servers
    ConfigTasks,  \* asyncio tasks that serve writes on configurations
    SourceTasks,  \* asyncio tasks that serve writes on sources
    ReadTasks,    \* asyncio tasks that read: GET endpoints, session activation
    Home,         \* Home[t]: the process task t runs in
    Retention,    \* agentic_config_deletion_retention_days, in clock units
    MaxTime,      \* bound on the clock
    None          \* Python's None: no row, no cache entry, no secret

\* A source is its kind and its secret; only MCP sources have a secret.
Source == [kind : {"mcp"}, secret : Secrets \cup {None}]
             \cup [kind : {"plain"}, secret : {None}]

Tasks == ConfigTasks \cup SourceTasks \cup ReadTasks

ASSUME TablesAssumption ==
    /\ Refs \in [Configs -> SUBSET SourceIds]
    /\ Home \in [Tasks -> Procs]
    /\ ConfigTasks \cap SourceTasks = {}
    /\ ConfigTasks \cap ReadTasks = {}
    /\ SourceTasks \cap ReadTasks = {}
    /\ Retention \in Nat
    /\ MaxTime \in Nat
    /\ None \notin ConfigIds
    /\ None \notin SourceIds
    /\ None \notin Configs
    /\ None \notin Secrets
    /\ None \notin Source

VARIABLES
    now,           \* int(time()) // 5: the bucket the clock is in
    configs,       \* column `config` of agentic_config_table, None: no row
    deletedAt,     \* column `deleted_at`, NotDeleted: SQL NULL
    sources,       \* column `config` of sources_table, None: no row
    configCache,   \* agentic_configs.CACHE of each process, current bucket
    sourceCache,   \* sources.CACHE of each process, current bucket
    \* History variables: what properties compare the state with.
    configSeen,    \* configurations a row showed, or a statement was meant to
                   \* leave there, during the current bucket
    sourceSeen,    \* likewise for sources
    writtenSince,  \* configs written since a source task's in-use check
    deletedSince,  \* sources deleted since a config task's validation
    lastSecret     \* the secret last set explicitly for a source id

tables == <<configs, deletedAt, sources>>
caches == <<configCache, sourceCache>>
history == <<configSeen, sourceSeen, writtenSince, deletedSince, lastSecret>>
sharedVars == <<now, tables, caches, history>>

NotDeleted == -1

Time == 0..MaxTime

(***************************************************************************)
(* Reading the tables.                                                     *)
(***************************************************************************)

HasRow(id) == configs[id] # None

\* `deleted_at IS NULL`, the condition of every statement a client can see.
Active(id) == HasRow(id) /\ deletedAt[id] = NotDeleted

\* configs_referencing_source
ConfigsReferencing(s) == {id \in ConfigIds : Active(id) /\ s \in Refs[configs[id]]}

\* _validate_sources_exist
MissingSources(c) == {s \in Refs[c] : sources[s] = None}

\* Mutant of Expired: the boundary of the retention is inclusive.
ExpiredInclusive(id, cutoff) ==
    HasRow(id) /\ deletedAt[id] # NotDeleted /\ deletedAt[id] <= cutoff

\* The conditions of hard_delete_expired_configs, for a cutoff computed earlier.
Expired(id, cutoff) ==
    /\ HasRow(id)
    /\ deletedAt[id] # NotDeleted
    /\ deletedAt[id] < cutoff

(***************************************************************************)
(* Writing them.                                                           *)
(***************************************************************************)

\* A statement leaves configuration c active under id.
StoreConfig(id, c) ==
    /\ configs' = [configs EXCEPT ![id] = c]
    /\ deletedAt' = [deletedAt EXCEPT ![id] = NotDeleted]
    /\ configSeen' = [configSeen EXCEPT ![id] = @ \cup {c}]
    /\ writtenSince' = [u \in SourceTasks |-> writtenSince[u] \cup {id}]

\* A statement leaves v stored under s; secret is what its request asked for.
StoreSource(s, v, secret) ==
    /\ sources' = [sources EXCEPT ![s] = v]
    /\ sourceSeen' = [sourceSeen EXCEPT ![s] = @ \cup {v}]
    /\ lastSecret' = [lastSecret EXCEPT ![s] = secret]

(***************************************************************************)
(* CACHE[_cache_key(...)] = v, with a key computed in bucket b.  Keys of   *)
(* past buckets are never looked up again, so the model keeps the entries  *)
(* of the current bucket only: storing under an older key has no effect a  *)
(* reader can see.                                                         *)
(***************************************************************************)
CachePut(cache, p, k, b, v) ==
    IF b = now THEN [cache EXCEPT ![p][k] = v] ELSE cache

CachePop(cache, p, k) == [cache EXCEPT ![p][k] = None]

TablesTypeOK ==
    /\ now \in Time
    /\ configs \in [ConfigIds -> Configs \cup {None}]
    /\ deletedAt \in [ConfigIds -> Time \cup {NotDeleted}]
    /\ sources \in [SourceIds -> Source \cup {None}]
    /\ configCache \in [Procs -> [ConfigIds -> Configs \cup {None}]]
    /\ sourceCache \in [Procs -> [SourceIds -> Source \cup {None}]]
    /\ configSeen \in [ConfigIds -> SUBSET Configs]
    /\ sourceSeen \in [SourceIds -> SUBSET Source]
    /\ writtenSince \in [SourceTasks -> SUBSET ConfigIds]
    /\ deletedSince \in [ConfigTasks -> SUBSET SourceIds]
    /\ lastSecret \in [SourceIds -> Secrets \cup {None}]

TablesInit ==
    /\ now = 0
    /\ configs = [id \in ConfigIds |-> None]
    /\ deletedAt = [id \in ConfigIds |-> NotDeleted]
    /\ sources = [s \in SourceIds |-> None]
    /\ configCache = [p \in Procs |-> [id \in ConfigIds |-> None]]
    /\ sourceCache = [p \in Procs |-> [s \in SourceIds |-> None]]
    /\ configSeen = [id \in ConfigIds |-> {}]
    /\ sourceSeen = [s \in SourceIds |-> {}]
    /\ writtenSince = [u \in SourceTasks |-> {}]
    /\ deletedSince = [t \in ConfigTasks |-> {}]
    /\ lastSecret = [s \in SourceIds |-> None]

===========================================================================
