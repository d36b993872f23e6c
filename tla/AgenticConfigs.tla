-------------------------- MODULE AgenticConfigs --------------------------
(***************************************************************************)
(* The writes of AgenticConfigs (db/agentic_configs.py) behind the create, *)
(* patch and delete endpoints, and the purge of the command line.          *)
(* configJob[t] is the coroutine of task t: where it is (pc), and its      *)
(* locals.                                                                 *)
(***************************************************************************)
EXTENDS KnowledgeBoxTables

VARIABLE configJob

ConfigPC == {"idle", "validate", "lookup", "revive", "insert", "update",
             "cache", "delete", "uncache", "count", "purge"}

ConfigJob == [pc : ConfigPC,
              op : {"none", "create", "patch", "delete", "purge"},
              id : ConfigIds \cup {None},
              config : Configs \cup {None},
              at : Time]          \* utc_now() when the statement was built

\* The locals the statements at each pc use.
ConfigLocals(job) ==
    /\ job.pc \notin {"idle", "count", "purge"} => job.id \in ConfigIds
    /\ job.pc \in {"validate", "lookup", "revive", "insert", "update", "cache"}
          => job.config \in Configs

ConfigJobsOK ==
    /\ configJob \in [ConfigTasks -> ConfigJob]
    /\ \A t \in ConfigTasks : ConfigLocals(configJob[t])

IdleConfigJob ==
    [pc |-> "idle", op |-> "none", id |-> None, config |-> None, at |-> 0]

ConfigAt(t, pc) == configJob[t].pc = pc
ConfigGoto(t, pc) == configJob' = [configJob EXCEPT ![t].pc = pc]
ConfigReply(t) == configJob' = [configJob EXCEPT ![t] = IdleConfigJob]

BeginConfigJob(t, pc, op, id, c, at) ==
    /\ ConfigAt(t, "idle")
    /\ configJob' = [configJob EXCEPT
          ![t] = [pc |-> pc, op |-> op, id |-> id, config |-> c, at |-> at]]
    /\ UNCHANGED sharedVars

(***************************************************************************)
(* create_agentic_config and patch_agentic_config validate the sources     *)
(* first, when the configuration names any.                                *)
(***************************************************************************)
BeginCreate(t, id, c) ==
    BeginConfigJob(t, IF Refs[c] = {} THEN "lookup" ELSE "validate",
                   "create", id, c, 0)

\* Mutant of BeginPatch: the sources are not validated.
BeginPatchUnvalidated(t, id, c) == BeginConfigJob(t, "update", "patch", id, c, 0)

BeginPatch(t, id, c) ==
    BeginConfigJob(t, IF Refs[c] = {} THEN "update" ELSE "validate",
                   "patch", id, c, 0)

ValidateSources(t) ==
    /\ ConfigAt(t, "validate")
    /\ \/ /\ MissingSources(configJob[t].config) # {}
          /\ ConfigReply(t)                               \* InvalidReference
          /\ UNCHANGED deletedSince
       \/ /\ MissingSources(configJob[t].config) = {}
          /\ ConfigGoto(t, IF configJob[t].op = "create" THEN "lookup" ELSE "update")
          /\ deletedSince' = [deletedSince EXCEPT ![t] = {}]
    /\ UNCHANGED <<now, tables, caches, configSeen, sourceSeen, writtenSince, lastSecret>>

\* Mutant of UpdateRow: `deleted_at IS NULL` is missing.
UpdateRowAnyRow(t) ==
    /\ ConfigAt(t, "update")
    /\ \/ /\ HasRow(configJob[t].id)
          /\ StoreConfig(configJob[t].id, configJob[t].config)
          /\ ConfigGoto(t, "cache")
       \/ /\ ~HasRow(configJob[t].id)
          /\ ConfigReply(t)
          /\ UNCHANGED <<configs, deletedAt, configSeen, writtenSince>>
    /\ UNCHANGED <<now, sources, caches, sourceSeen, deletedSince, lastSecret>>

\* UPDATE ... WHERE deleted_at IS NULL RETURNING
UpdateRow(t) ==
    /\ ConfigAt(t, "update")
    /\ \/ /\ Active(configJob[t].id)
          /\ StoreConfig(configJob[t].id, configJob[t].config)
          /\ ConfigGoto(t, "cache")
       \/ /\ ~Active(configJob[t].id)
          /\ ConfigReply(t)                               \* NotFound
          /\ UNCHANGED <<configs, deletedAt, configSeen, writtenSince>>
    /\ UNCHANGED <<now, sources, caches, sourceSeen, deletedSince, lastSecret>>

\* SELECT deleted_at
LookupRow(t) ==
    /\ ConfigAt(t, "lookup")
    /\ \/ /\ Active(configJob[t].id)
          /\ ConfigReply(t)                               \* Conflict
       \/ /\ HasRow(configJob[t].id) /\ ~Active(configJob[t].id)
          /\ ConfigGoto(t, "revive")
       \/ /\ ~HasRow(configJob[t].id)
          /\ ConfigGoto(t, "insert")
    /\ UNCHANGED sharedVars

\* The UPDATE that recreates a soft-deleted row matches on the primary key
\* only, and nobody looks at the number of rows it changed.
ReviveRow(t) ==
    /\ ConfigAt(t, "revive")
    /\ \/ /\ HasRow(configJob[t].id)
          /\ StoreConfig(configJob[t].id, configJob[t].config)
       \/ /\ ~HasRow(configJob[t].id)
          /\ configSeen' = [configSeen EXCEPT ![configJob[t].id] = @ \cup {configJob[t].config}]
          /\ UNCHANGED <<configs, deletedAt, writtenSince>>
    /\ ConfigGoto(t, "cache")
    /\ UNCHANGED <<now, sources, caches, sourceSeen, deletedSince, lastSecret>>

InsertRow(t) ==
    /\ ConfigAt(t, "insert")
    /\ \/ /\ HasRow(configJob[t].id)
          /\ ConfigReply(t)                 \* unique violation: unhandled, 500
          /\ UNCHANGED <<configs, deletedAt, configSeen, writtenSince>>
       \/ /\ ~HasRow(configJob[t].id)
          /\ StoreConfig(configJob[t].id, configJob[t].config)
          /\ ConfigGoto(t, "cache")
    /\ UNCHANGED <<now, sources, caches, sourceSeen, deletedSince, lastSecret>>

\* CACHE[_cache_key(...)] = config: the key is computed after the write.
CacheConfig(t) ==
    /\ ConfigAt(t, "cache")
    /\ configCache' = CachePut(configCache, Home[t], configJob[t].id, now,
                               configJob[t].config)
    /\ ConfigReply(t)
    /\ UNCHANGED <<now, tables, sourceCache, history>>

(***************************************************************************)
(* delete_agentic_config                                                   *)
(***************************************************************************)
BeginDelete(t, id) == BeginConfigJob(t, "delete", "delete", id, None, now)

\* Mutant of DeleteRow: stores when the row may be purged.
DeleteRowPurgeTime(t) ==
    /\ ConfigAt(t, "delete")
    /\ \/ /\ Active(configJob[t].id)
          /\ deletedAt' = [deletedAt EXCEPT ![configJob[t].id] = configJob[t].at + Retention]
          /\ ConfigGoto(t, "uncache")
       \/ /\ ~Active(configJob[t].id)
          /\ ConfigReply(t)
          /\ UNCHANGED deletedAt
    /\ UNCHANGED <<now, configs, sources, caches, history>>

DeleteRow(t) ==
    /\ ConfigAt(t, "delete")
    /\ \/ /\ Active(configJob[t].id)
          /\ deletedAt' = [deletedAt EXCEPT ![configJob[t].id] = configJob[t].at]
          /\ ConfigGoto(t, "uncache")
       \/ /\ ~Active(configJob[t].id)
          /\ ConfigReply(t)                               \* NotFound
          /\ UNCHANGED deletedAt
    /\ UNCHANGED <<now, configs, sources, caches, history>>

UncacheConfig(t) ==
    /\ ConfigAt(t, "uncache")
    /\ configCache' = CachePop(configCache, Home[t], configJob[t].id)
    /\ ConfigReply(t)
    /\ UNCHANGED <<now, tables, sourceCache, history>>

(***************************************************************************)
(* hard_delete_expired_configs: the cutoff is computed once, the DELETE    *)
(* evaluates the conditions again.                                         *)
(***************************************************************************)
BeginPurge(t) == BeginConfigJob(t, "count", "purge", None, None, now)

Cutoff(t) == configJob[t].at - Retention

CountExpired(t) ==
    /\ ConfigAt(t, "count")
    /\ \/ /\ \A id \in ConfigIds : ~Expired(id, Cutoff(t))
          /\ ConfigReply(t)
       \/ /\ \E id \in ConfigIds : Expired(id, Cutoff(t))
          /\ ConfigGoto(t, "purge")
    /\ UNCHANGED sharedVars

PurgeExpired(t) ==
    /\ ConfigAt(t, "purge")
    /\ configs' = [id \in ConfigIds |->
                     IF Expired(id, Cutoff(t)) THEN None ELSE configs[id]]
    /\ deletedAt' = [id \in ConfigIds |->
                     IF Expired(id, Cutoff(t)) THEN NotDeleted ELSE deletedAt[id]]
    /\ ConfigReply(t)
    /\ UNCHANGED <<now, sources, caches, history>>

ConfigStep(t) ==
    \/ ValidateSources(t) \/ UpdateRow(t)
    \/ LookupRow(t) \/ ReviveRow(t) \/ InsertRow(t) \/ CacheConfig(t)
    \/ DeleteRow(t) \/ UncacheConfig(t)
    \/ CountExpired(t) \/ PurgeExpired(t)

ConfigRequest(t) ==
    \/ \E id \in ConfigIds, c \in Configs : BeginCreate(t, id, c) \/ BeginPatch(t, id, c)
    \/ \E id \in ConfigIds : BeginDelete(t, id)
    \/ BeginPurge(t)

===========================================================================
