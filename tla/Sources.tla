------------------------------ MODULE Sources ------------------------------
(***************************************************************************)
(* The writes of Sources (db/sources.py) behind the create, patch and      *)
(* delete endpoints of v1/sources.py.  Deleting asks AgenticConfigs first  *)
(* whether an active configuration names the source.                       *)
(***************************************************************************)
EXTENDS KnowledgeBoxTables

VARIABLE sourceJob

SourcePC == {"idle", "exists", "insert", "update", "cache", "inuse", "remove", "uncache"}

SourceJob == [pc : SourcePC,
              id : SourceIds \cup {None},
              source : Source \cup {None},
              keep : BOOLEAN]     \* the payload leaves client_secret unset

\* The locals the statements at each pc use.
SourceLocals(job) ==
    /\ job.pc # "idle" => job.id \in SourceIds
    /\ job.pc \in {"exists", "insert", "update", "cache"} => job.source \in Source

SourceJobsOK ==
    /\ sourceJob \in [SourceTasks -> SourceJob]
    /\ \A u \in SourceTasks : SourceLocals(sourceJob[u])

IdleSourceJob == [pc |-> "idle", id |-> None, source |-> None, keep |-> FALSE]

SourceAt(u, pc) == sourceJob[u].pc = pc
SourceGoto(u, pc) == sourceJob' = [sourceJob EXCEPT ![u].pc = pc]
SourceReply(u) == sourceJob' = [sourceJob EXCEPT ![u] = IdleSourceJob]

BeginSourceJob(u, pc, s, v, keep) ==
    /\ SourceAt(u, "idle")
    /\ sourceJob' = [sourceJob EXCEPT
          ![u] = [pc |-> pc, id |-> s, source |-> v, keep |-> keep]]
    /\ UNCHANGED sharedVars

(***************************************************************************)
(* create_source                                                           *)
(***************************************************************************)
BeginCreateSource(u, s, v) == BeginSourceJob(u, "exists", s, v, FALSE)

SourceExists(u) ==
    /\ SourceAt(u, "exists")
    /\ \/ /\ sources[sourceJob[u].id] # None
          /\ SourceReply(u)                               \* Conflict
       \/ /\ sources[sourceJob[u].id] = None
          /\ SourceGoto(u, "insert")
    /\ UNCHANGED sharedVars

InsertSource(u) ==
    /\ SourceAt(u, "insert")
    /\ \/ /\ sources[sourceJob[u].id] # None
          /\ SourceReply(u)                 \* unique violation: unhandled, 500
          /\ UNCHANGED <<sources, sourceSeen, lastSecret>>
       \/ /\ sources[sourceJob[u].id] = None
          /\ StoreSource(sourceJob[u].id, sourceJob[u].source,
                         sourceJob[u].source.secret)
          /\ SourceGoto(u, "cache")
    /\ UNCHANGED <<now, configs, deletedAt, caches, configSeen, writtenSince, deletedSince>>

(***************************************************************************)
(* patch_source: one UPDATE, which takes the secret of the row itself when *)
(* the payload of an MCP source leaves client_secret out.                  *)
(***************************************************************************)
BeginPatchSource(u, s, v, keep) ==
    /\ keep => v = [kind |-> "mcp", secret |-> None]
    /\ BeginSourceJob(u, "update", s, v, keep)

\* Mutant of Patched: the secret to keep is the one this process has cached.
PatchedFromCache(u) ==
    LET cached == sourceCache[Home[u]][sourceJob[u].id]
        row == IF cached # None THEN cached ELSE sources[sourceJob[u].id]
    IN  IF sourceJob[u].keep
        THEN [kind |-> "mcp", secret |-> row.secret]
        ELSE sourceJob[u].source

\* The row the UPDATE leaves and returns.
Patched(u) ==
    IF sourceJob[u].keep
    THEN [kind |-> "mcp", secret |-> sources[sourceJob[u].id].secret]
    ELSE sourceJob[u].source

\* Mutant of UpdateSource: caches the payload, not the row it returned.
UpdateSourceCachesPayload(u) ==
    /\ SourceAt(u, "update")
    /\ \/ /\ sources[sourceJob[u].id] = None
          /\ SourceReply(u)
          /\ UNCHANGED <<sources, sourceSeen, lastSecret>>
       \/ /\ sources[sourceJob[u].id] # None
          /\ StoreSource(sourceJob[u].id, Patched(u), Patched(u).secret)
          /\ SourceGoto(u, "cache")
    /\ UNCHANGED <<now, configs, deletedAt, caches, configSeen, writtenSince, deletedSince>>

UpdateSource(u) ==
    /\ SourceAt(u, "update")
    /\ \/ /\ sources[sourceJob[u].id] = None
          /\ SourceReply(u)                               \* NotFound
          /\ UNCHANGED <<sources, sourceSeen, lastSecret>>
       \/ /\ sources[sourceJob[u].id] # None
          /\ StoreSource(sourceJob[u].id, Patched(u),
                         IF sourceJob[u].keep THEN lastSecret[sourceJob[u].id]
                         ELSE sourceJob[u].source.secret)
          /\ sourceJob' = [sourceJob EXCEPT ![u] =
                [pc |-> "cache", id |-> @.id, source |-> Patched(u), keep |-> @.keep]]
    /\ UNCHANGED <<now, configs, deletedAt, caches, configSeen, writtenSince, deletedSince>>

CacheSource(u) ==
    /\ SourceAt(u, "cache")
    /\ sourceCache' = CachePut(sourceCache, Home[u], sourceJob[u].id, now,
                               sourceJob[u].source)
    /\ SourceReply(u)
    /\ UNCHANGED <<now, tables, configCache, history>>

(***************************************************************************)
(* delete_source_endpoint                                                  *)
(***************************************************************************)
BeginDeleteSource(u, s) == BeginSourceJob(u, "inuse", s, None, FALSE)

\* Mutant of CheckInUse: asks the cache of this process.
CheckInUseCached(u) ==
    /\ SourceAt(u, "inuse")
    /\ \E used \in BOOLEAN :
          /\ used <=> \E c \in {configCache[Home[u]][id] : id \in ConfigIds} \ {None} :
                         sourceJob[u].id \in Refs[c]
          /\ IF used THEN SourceReply(u) ELSE SourceGoto(u, "remove")
          /\ writtenSince' = IF used THEN writtenSince ELSE [writtenSince EXCEPT ![u] = {}]
    /\ UNCHANGED <<now, tables, caches, configSeen, sourceSeen, deletedSince, lastSecret>>

CheckInUse(u) ==
    /\ SourceAt(u, "inuse")
    /\ \/ /\ ConfigsReferencing(sourceJob[u].id) # {}
          /\ SourceReply(u)                               \* InUse
          /\ UNCHANGED writtenSince
       \/ /\ ConfigsReferencing(sourceJob[u].id) = {}
          /\ SourceGoto(u, "remove")
          /\ writtenSince' = [writtenSince EXCEPT ![u] = {}]
    /\ UNCHANGED <<now, tables, caches, configSeen, sourceSeen, deletedSince, lastSecret>>

RemoveSource(u) ==
    /\ SourceAt(u, "remove")
    /\ \/ /\ sources[sourceJob[u].id] = None
          /\ SourceReply(u)                               \* NotFound
          /\ UNCHANGED <<sources, deletedSince, lastSecret>>
       \/ /\ sources[sourceJob[u].id] # None
          /\ sources' = [sources EXCEPT ![sourceJob[u].id] = None]
          /\ lastSecret' = [lastSecret EXCEPT ![sourceJob[u].id] = None]
          /\ deletedSince' = [t \in ConfigTasks |->
                                deletedSince[t] \cup {sourceJob[u].id}]
          /\ SourceGoto(u, "uncache")
    /\ UNCHANGED <<now, configs, deletedAt, caches, configSeen, sourceSeen, writtenSince>>

UncacheSource(u) ==
    /\ SourceAt(u, "uncache")
    /\ sourceCache' = CachePop(sourceCache, Home[u], sourceJob[u].id)
    /\ SourceReply(u)
    /\ UNCHANGED <<now, tables, configCache, history>>

SourceStep(u) ==
    \/ SourceExists(u) \/ InsertSource(u)
    \/ UpdateSource(u) \/ CacheSource(u)
    \/ CheckInUse(u) \/ RemoveSource(u) \/ UncacheSource(u)

SourceRequest(u) ==
    \E s \in SourceIds :
       \/ \E v \in Source : BeginCreateSource(u, s, v)
       \/ \E v \in Source, keep \in BOOLEAN : BeginPatchSource(u, s, v, keep)
       \/ BeginDeleteSource(u, s)

===========================================================================
