--------------------------- MODULE KnowledgeBox ---------------------------
(***************************************************************************)
(* The configuration store of one knowledge box: concurrent requests on    *)
(* configurations and sources, served by several processes that share the  *)
(* database and keep a cache each.                                         *)
(***************************************************************************)
EXTENDS AgenticConfigs, Sources, Readers

vars == <<sharedVars, configJob, sourceJob, readJob>>

jobs == <<configJob, sourceJob, readJob>>

Init ==
    /\ TablesInit
    /\ configJob = [t \in ConfigTasks |-> IdleConfigJob]
    /\ sourceJob = [u \in SourceTasks |-> IdleSourceJob]
    /\ readJob = [r \in ReadTasks |-> IdleReadJob]

\* What a reader of the tables sees of id, and of s.
VisibleConfig(id) == IF Active(id) THEN {configs[id]} ELSE {}
VisibleSource(s) == IF sources[s] # None THEN {sources[s]} ELSE {}

\* A write that committed but whose coroutine has not resumed.
WritingConfig(id) ==
    {configJob[t].config : t \in {x \in ConfigTasks : ConfigAt(x, "cache") /\ configJob[x].id = id}}
WritingSource(s) ==
    {sourceJob[u].source : u \in {x \in SourceTasks : SourceAt(x, "cache") /\ sourceJob[x].id = s}}

\* int(time()) // 5 moves on: every cache key from now on is a new one.
Tick ==
    /\ now < MaxTime
    /\ now' = now + 1
    /\ configCache' = [p \in Procs |-> [id \in ConfigIds |-> None]]
    /\ sourceCache' = [p \in Procs |-> [s \in SourceIds |-> None]]
    /\ configSeen' = [id \in ConfigIds |-> VisibleConfig(id) \cup WritingConfig(id)]
    /\ sourceSeen' = [s \in SourceIds |-> VisibleSource(s) \cup WritingSource(s)]
    /\ UNCHANGED <<tables, writtenSince, deletedSince, lastSecret, jobs>>

\* The LRU drops an entry to make room for keys outside the model.
EvictConfig(p, id) ==
    /\ configCache[p][id] # None
    /\ configCache' = CachePop(configCache, p, id)
    /\ UNCHANGED <<now, tables, sourceCache, history, jobs>>

EvictSource(p, s) ==
    /\ sourceCache[p][s] # None
    /\ sourceCache' = CachePop(sourceCache, p, s)
    /\ UNCHANGED <<now, tables, configCache, history, jobs>>

\* A process dies between two steps: its coroutines and its caches are gone,
\* what their statements wrote stays.
Restart(p) ==
    /\ configJob' = [t \in ConfigTasks |-> IF Home[t] = p THEN IdleConfigJob ELSE configJob[t]]
    /\ sourceJob' = [u \in SourceTasks |-> IF Home[u] = p THEN IdleSourceJob ELSE sourceJob[u]]
    /\ readJob' = [r \in ReadTasks |-> IF Home[r] = p THEN IdleReadJob ELSE readJob[r]]
    /\ configCache' = [configCache EXCEPT ![p] = [id \in ConfigIds |-> None]]
    /\ sourceCache' = [sourceCache EXCEPT ![p] = [s \in SourceIds |-> None]]
    /\ UNCHANGED <<now, tables, history>>

ConfigNext(t) == (ConfigRequest(t) \/ ConfigStep(t)) /\ UNCHANGED <<sourceJob, readJob>>
SourceNext(u) == (SourceRequest(u) \/ SourceStep(u)) /\ UNCHANGED <<configJob, readJob>>
ReadNext(r) == (ReadRequest(r) \/ ReadStep(r)) /\ UNCHANGED <<configJob, sourceJob>>

Next ==
    \/ \E t \in ConfigTasks : ConfigNext(t)
    \/ \E u \in SourceTasks : SourceNext(u)
    \/ \E r \in ReadTasks : ReadNext(r)
    \/ Tick
    \/ \E p \in Procs, id \in ConfigIds : EvictConfig(p, id)
    \/ \E p \in Procs, s \in SourceIds : EvictSource(p, s)
    \/ \E p \in Procs : Restart(p)

Spec == Init /\ [][Next]_vars

(***************************************************************************)
(* Properties.                                                             *)
(***************************************************************************)

\* Every part of the state has its type; the locals of a coroutine are bound
\* wherever a statement still to come uses them.
TypeOK ==
    /\ TablesTypeOK
    /\ ConfigJobsOK
    /\ SourceJobsOK
    /\ ReadJobsOK

\* A configuration a process can answer with from its cache was in the table
\* at some moment of the current 5-second bucket, or was written in it (by a
\* create whose row the purge took, which caches it all the same), or belongs
\* to a write that had not been answered when the bucket began: how stale the
\* bucketed keys of agentic_configs._cache_key let a cached answer be, with any
\* number of writers, readers and processes.
CachedConfigFresh ==
    \A p \in Procs, id \in ConfigIds :
        configCache[p][id] # None => configCache[p][id] \in configSeen[id]

\* The same bound for sources._cache_key.
CachedSourceFresh ==
    \A p \in Procs, s \in SourceIds :
        sourceCache[p][s] # None => sourceCache[p][s] \in sourceSeen[s]

\* delete_source_endpoint, at the moment it removes the row, strands only
\* configurations that were written after its in-use check: a configuration
\* that already named the source when the deletion looked keeps it.
SettledReferencesKept ==
    \A u \in SourceTasks :
        SourceAt(u, "remove") => ConfigsReferencing(sourceJob[u].id) \subseteq writtenSince[u]

\* create_agentic_config and patch_agentic_config, at the moment they write,
\* name only sources that exist, or were deleted after their validation.
WritesNameValidatedSources ==
    \A t \in ConfigTasks :
        configJob[t].pc \in {"update", "lookup", "revive", "insert"}
            => MissingSources(configJob[t].config) \subseteq deletedSince[t]

\* No concurrent patch that leaves client_secret out brings back, or loses, a
\* secret: the stored one is the one last set explicitly (README.md:64-66).
StoredSecretIsLastSet ==
    \A s \in SourceIds : sources[s] # None => sources[s].secret = lastSecret[s]

\* Only a create makes a hidden or missing row visible again: a patch that
\* validated its sources before a delete committed does not undo the delete.
OnlyCreateRevives ==
    [][\A id \in ConfigIds :
          ~Active(id) /\ Active(id)' =>
             \E t \in ConfigTasks : /\ configJob[t].op = "create"
                                    /\ configJob[t].id = id
                                    /\ ConfigAt(t, "cache")']_vars

\* The table, under all the requests and the purge, goes through the states of
\* ConfigLifecycle.
Lifecycle == INSTANCE ConfigLifecycle
LifecycleSpec == Lifecycle!Spec

(***************************************************************************)
(* The inductive invariants behind them.                                   *)
(***************************************************************************)

\* A time a coroutine took is never ahead of the clock.
TimesTaken ==
    /\ \A t \in ConfigTasks : configJob[t].at <= now
    /\ \A r \in ReadTasks : readJob[r].at <= now

\* Whatever may still reach a cache under a current key has been seen: what the
\* row shows, what a write is about to cache, and what a read whose key is of
\* this bucket is about to cache.
ConfigsFresh ==
    /\ CachedConfigFresh
    /\ \A id \in ConfigIds : Active(id) => configs[id] \in configSeen[id]
    /\ \A t \in ConfigTasks :
          ConfigAt(t, "cache") => configJob[t].config \in configSeen[configJob[t].id]
    /\ \A r \in ReadTasks :
          ReadAt(r, "fill") /\ readJob[r].at = now
             => readJob[r].config \in configSeen[readJob[r].id]

SourcesFresh ==
    /\ CachedSourceFresh
    /\ \A s \in SourceIds : sources[s] # None => sources[s] \in sourceSeen[s]
    /\ \A u \in SourceTasks :
          SourceAt(u, "cache") => sourceJob[u].source \in sourceSeen[sourceJob[u].id]
    /\ \A r \in ReadTasks :
          ReadAt(r, "fillSource") /\ readJob[r].at = now
             => readJob[r].row \in sourceSeen[readJob[r].source]

\* Only create_agentic_config gets to the statements that revive or insert.
CreatePath ==
    \A t \in ConfigTasks :
        configJob[t].pc \in {"lookup", "revive", "insert"} => configJob[t].op = "create"

===========================================================================
