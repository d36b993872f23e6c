------------------------ MODULE KnowledgeBoxProofs ------------------------
(***************************************************************************)
(* Proofs about KnowledgeBox, for any number of tasks, processes,          *)
(* configurations and sources: types; the freshness of the caches, by the  *)
(* inductive invariants ConfigsFresh and SourcesFresh; the secrets of MCP  *)
(* sources; and the life of a row: the table of configurations under all   *)
(* the requests and the purge implements ConfigLifecycle, deletions are    *)
(* undone by creates only, and what is about to be written has been        *)
(* validated.                                                              *)
(***************************************************************************)
EXTENDS KnowledgeBox, TLAPS

---------------------------------------------------------------------------
(***************************************************************************)
(* Types.                                                                  *)
(***************************************************************************)

\* At the start every part of the state has its type.
LEMMA InitType == Init => TypeOK
BY TablesAssumption
   DEF Init, TablesInit, TypeOK, TablesTypeOK, Time, NotDeleted, Source,
       ConfigJob, ConfigPC, IdleConfigJob, SourceJob, SourcePC, IdleSourceJob,
       ReadJob, ReadPC, IdleReadJob, ConfigLocals, SourceLocals, ReadLocals,
       ConfigJobsOK, SourceJobsOK, ReadJobsOK

\* A coroutine that answers, or goes on with its locals as they are.
LEMMA ConfigReplyType ==
    ASSUME ConfigJobsOK, NEW t \in ConfigTasks, ConfigReply(t)
    PROVE  ConfigJobsOK'
<1>1. IdleConfigJob \in ConfigJob /\ ConfigLocals(IdleConfigJob)
  BY TablesAssumption DEF IdleConfigJob, ConfigJob, ConfigPC, ConfigLocals, Time
<1> QED
  BY <1>1 DEF ConfigJobsOK, ConfigReply

\* A request about configurations goes on, with the locals the place it goes to needs.
LEMMA ConfigGotoType ==
    ASSUME ConfigJobsOK, NEW t \in ConfigTasks, NEW pc \in ConfigPC, ConfigGoto(t, pc),
           pc \notin {"idle", "count", "purge"} => configJob[t].id \in ConfigIds,
           pc \in {"validate", "lookup", "revive", "insert", "update", "cache"}
              => configJob[t].config \in Configs
    PROVE  ConfigJobsOK'
<1> DEFINE next == [configJob[t] EXCEPT !.pc = pc]
<1>1. configJob[t] \in ConfigJob
  BY DEF ConfigJobsOK
<1>2. next \in ConfigJob /\ next.pc = pc /\ next.id = configJob[t].id
         /\ next.config = configJob[t].config
  BY <1>1 DEF ConfigJob
<1>3. ConfigLocals(next)
  BY <1>2 DEF ConfigLocals
<1>4. configJob' = [configJob EXCEPT ![t] = next]
  BY DEF ConfigGoto
<1> HIDE DEF next
<1> QED
  BY <1>2, <1>3, <1>4 DEF ConfigJobsOK

\* A request about configurations begins, with the locals it needs.
LEMMA BeginConfigType ==
    ASSUME TypeOK, NEW t \in ConfigTasks, NEW pc \in ConfigPC,
           NEW op \in {"none", "create", "patch", "delete", "purge"},
           NEW id \in ConfigIds \cup {None}, NEW c \in Configs \cup {None},
           NEW at \in Time, BeginConfigJob(t, pc, op, id, c, at),
           UNCHANGED <<sourceJob, readJob>>,
           pc \notin {"idle", "count", "purge"} => id \in ConfigIds,
           pc \in {"validate", "lookup", "revive", "insert", "update", "cache"}
              => c \in Configs
    PROVE  TypeOK'
<1> DEFINE job == [pc |-> pc, op |-> op, id |-> id, config |-> c, at |-> at]
<1>1. job \in ConfigJob /\ ConfigLocals(job)
  BY DEF ConfigJob, ConfigLocals
<1>2. configJob' = [configJob EXCEPT ![t] = job]
  BY DEF BeginConfigJob
<1> HIDE DEF job
<1>3. ConfigJobsOK'
  BY <1>1, <1>2 DEF ConfigJobsOK, TypeOK
<1>4. TablesTypeOK' /\ SourceJobsOK' /\ ReadJobsOK'
  BY DEF TypeOK, TablesTypeOK, SourceJobsOK, ReadJobsOK, BeginConfigJob,
         sharedVars, tables, caches, history
<1> QED
  BY <1>3, <1>4 DEF TypeOK

\* The table part of a write of a configuration.
LEMMA StoreConfigType ==
    ASSUME TablesTypeOK, NEW id \in ConfigIds, NEW c \in Configs, StoreConfig(id, c),
           UNCHANGED <<now, sources, caches, sourceSeen, deletedSince, lastSecret>>
    PROVE  TablesTypeOK'
BY DEF TablesTypeOK, StoreConfig, caches, NotDeleted

\* One more configuration was written or read.
LEMMA SeenType ==
    ASSUME TablesTypeOK, NEW id \in ConfigIds, NEW c \in Configs,
           configSeen' = [configSeen EXCEPT ![id] = @ \cup {c}]
    PROVE  configSeen' \in [ConfigIds -> SUBSET Configs]
BY DEF TablesTypeOK

\* What a write request on a configuration does keeps the types.
LEMMA ConfigType ==
    ASSUME TypeOK, NEW t \in ConfigTasks, ConfigNext(t)
    PROVE  TypeOK'
<1> USE TablesAssumption
<1>1. UNCHANGED <<sourceJob, readJob>>
  BY DEF ConfigNext
<1>2. SourceJobsOK' /\ ReadJobsOK'
  BY <1>1 DEF TypeOK, SourceJobsOK, ReadJobsOK
<1>3. configJob[t] \in ConfigJob /\ ConfigLocals(configJob[t])
  BY DEF TypeOK, ConfigJobsOK
<1>4. TablesTypeOK /\ ConfigJobsOK
  BY DEF TypeOK
<1>5. ASSUME ConfigRequest(t) PROVE TypeOK'
  <2>1. ASSUME NEW id \in ConfigIds, NEW c \in Configs, BeginCreate(t, id, c)
        PROVE  TypeOK'
    <3>1. (IF Refs[c] = {} THEN "lookup" ELSE "validate") \in {"lookup", "validate"}
      OBVIOUS
    <3> QED
      BY <1>1, <2>1, <3>1, BeginConfigType DEF BeginCreate, ConfigPC, Time
  <2>2. ASSUME NEW id \in ConfigIds, NEW c \in Configs, BeginPatch(t, id, c)
        PROVE  TypeOK'
    <3>1. (IF Refs[c] = {} THEN "update" ELSE "validate") \in {"update", "validate"}
      OBVIOUS
    <3> QED
      BY <1>1, <2>2, <3>1, BeginConfigType DEF BeginPatch, ConfigPC, Time
  <2>3. ASSUME NEW id \in ConfigIds, BeginDelete(t, id)
        PROVE  TypeOK'
    BY <1>1, <1>4, <2>3, BeginConfigType DEF BeginDelete, ConfigPC, TablesTypeOK
  <2>4. CASE BeginPurge(t)
    BY <1>1, <1>4, <2>4, BeginConfigType DEF BeginPurge, ConfigPC, TablesTypeOK
  <2> QED
    BY <1>5, <2>1, <2>2, <2>3, <2>4 DEF ConfigRequest
<1>6. ASSUME ConfigStep(t) PROVE ConfigJobsOK'
  <2>1. CASE ConfigReply(t)
    BY <1>4, <2>1, ConfigReplyType
  <2>2. ASSUME NEW pc \in ConfigPC, ConfigGoto(t, pc),
               pc \notin {"idle", "count", "purge"} => configJob[t].id \in ConfigIds,
               pc \in {"validate", "lookup", "revive", "insert", "update", "cache"}
                  => configJob[t].config \in Configs
        PROVE  ConfigJobsOK'
    BY <1>4, <2>2, ConfigGotoType
  <2> QED
    BY <1>3, <1>6, <2>1, <2>2, Zenon
       DEF ConfigStep, ValidateSources, UpdateRow, LookupRow, ReviveRow, InsertRow,
           CacheConfig, DeleteRow, UncacheConfig, CountExpired, PurgeExpired,
           ConfigAt, ConfigLocals, ConfigPC
<1>7. ASSUME ConfigStep(t) PROVE TablesTypeOK'
  <2> USE <1>3, <1>4
      DEF sharedVars, tables, caches, history, ConfigAt, ConfigLocals, TablesTypeOK
  <2>1. CASE ValidateSources(t)
    BY <2>1 DEF ValidateSources
  <2>2. CASE UpdateRow(t)
    BY <2>2, StoreConfigType DEF UpdateRow
  <2>3. CASE LookupRow(t)
    BY <2>3 DEF LookupRow
  <2>4. CASE ReviveRow(t)
    <3>1. configJob[t].id \in ConfigIds /\ configJob[t].config \in Configs
      BY <2>4 DEF ReviveRow
    <3>2. CASE HasRow(configJob[t].id)
      BY <2>4, <3>1, <3>2, StoreConfigType DEF ReviveRow
    <3>3. CASE ~HasRow(configJob[t].id)
      <4>1. configSeen' \in [ConfigIds -> SUBSET Configs]
        BY <2>4, <3>1, <3>3, SeenType DEF ReviveRow
      <4>2. UNCHANGED <<now, configs, deletedAt, sources, configCache, sourceCache,
                        sourceSeen, writtenSince, deletedSince, lastSecret>>
        BY <2>4, <3>3 DEF ReviveRow
      <4> QED
        BY <4>1, <4>2
    <3> QED
      BY <3>2, <3>3
  <2>5. CASE InsertRow(t)
    BY <2>5, StoreConfigType DEF InsertRow
  <2>6. CASE CacheConfig(t)
    BY <2>6 DEF CacheConfig, CachePut
  <2>7. CASE DeleteRow(t)
    BY <2>7 DEF DeleteRow, ConfigJob
  <2>8. CASE UncacheConfig(t)
    BY <2>8 DEF UncacheConfig, CachePop
  <2>9. CASE CountExpired(t)
    BY <2>9 DEF CountExpired
  <2>10. CASE PurgeExpired(t)
    BY <2>10 DEF PurgeExpired, NotDeleted
  <2> QED
    BY <1>7, <2>1, <2>2, <2>3, <2>4, <2>5, <2>6, <2>7, <2>8, <2>9, <2>10 DEF ConfigStep
<1> QED
  BY <1>2, <1>5, <1>6, <1>7 DEF ConfigNext, TypeOK

---------------------------------------------------------------------------
\* A request about sources is answered.
LEMMA SourceReplyType ==
    ASSUME SourceJobsOK, NEW u \in SourceTasks, SourceReply(u)
    PROVE  SourceJobsOK'
<1>1. IdleSourceJob \in SourceJob /\ SourceLocals(IdleSourceJob)
  BY DEF IdleSourceJob, SourceJob, SourcePC, SourceLocals
<1> QED
  BY <1>1 DEF SourceJobsOK, SourceReply

\* A request about sources goes on, with the locals the place it goes to needs.
LEMMA SourceGotoType ==
    ASSUME SourceJobsOK, NEW u \in SourceTasks, NEW pc \in SourcePC, SourceGoto(u, pc),
           pc # "idle" => sourceJob[u].id \in SourceIds,
           pc \in {"exists", "insert", "update", "cache"} => sourceJob[u].source \in Source
    PROVE  SourceJobsOK'
<1> DEFINE next == [sourceJob[u] EXCEPT !.pc = pc]
<1>1. sourceJob[u] \in SourceJob
  BY DEF SourceJobsOK
<1>2. next \in SourceJob /\ next.pc = pc /\ next.id = sourceJob[u].id
         /\ next.source = sourceJob[u].source
  BY <1>1 DEF SourceJob
<1>3. SourceLocals(next)
  BY <1>2 DEF SourceLocals
<1>4. sourceJob' = [sourceJob EXCEPT ![u] = next]
  BY DEF SourceGoto
<1> HIDE DEF next
<1> QED
  BY <1>2, <1>3, <1>4 DEF SourceJobsOK

\* A request about sources begins, with the locals it needs.
LEMMA BeginSourceType ==
    ASSUME TypeOK, NEW u \in SourceTasks, NEW pc \in SourcePC, NEW s \in SourceIds,
           NEW v \in Source \cup {None}, NEW keep \in BOOLEAN,
           BeginSourceJob(u, pc, s, v, keep), UNCHANGED <<configJob, readJob>>,
           pc \in {"exists", "insert", "update", "cache"} => v \in Source
    PROVE  TypeOK'
<1> DEFINE job == [pc |-> pc, id |-> s, source |-> v, keep |-> keep]
<1>1. job \in SourceJob /\ SourceLocals(job)
  BY DEF SourceJob, SourceLocals
<1>2. sourceJob' = [sourceJob EXCEPT ![u] = job]
  BY DEF BeginSourceJob
<1> HIDE DEF job
<1>3. SourceJobsOK'
  BY <1>1, <1>2 DEF SourceJobsOK, TypeOK
<1>4. TablesTypeOK' /\ ConfigJobsOK' /\ ReadJobsOK'
  BY DEF TypeOK, TablesTypeOK, ConfigJobsOK, ReadJobsOK, BeginSourceJob,
         sharedVars, tables, caches, history
<1> QED
  BY <1>3, <1>4 DEF TypeOK

\* The table part of a write, and of a deletion, of a source.
LEMMA StoreSourceType ==
    ASSUME TablesTypeOK, NEW s \in SourceIds, NEW v \in Source,
           NEW secret \in Secrets \cup {None}, StoreSource(s, v, secret),
           UNCHANGED <<now, configs, deletedAt, caches, configSeen, writtenSince, deletedSince>>
    PROVE  TablesTypeOK'
BY DEF TablesTypeOK, StoreSource, caches

\* A source is removed.
LEMMA RemoveSourceType ==
    ASSUME TablesTypeOK, NEW s \in SourceIds,
           sources' = [sources EXCEPT ![s] = None],
           lastSecret' = [lastSecret EXCEPT ![s] = None],
           deletedSince' = [t \in ConfigTasks |-> deletedSince[t] \cup {s}],
           UNCHANGED <<now, configs, deletedAt, caches, configSeen, sourceSeen, writtenSince>>
    PROVE  TablesTypeOK'
BY DEF TablesTypeOK, caches

\* The row a patch leaves is a source, whatever the row was before.
LEMMA PatchedIsSource ==
    ASSUME TypeOK, NEW u \in SourceTasks, SourceAt(u, "update"),
           sources[sourceJob[u].id] # None
    PROVE  Patched(u) \in Source
<1>1. sourceJob[u].id \in SourceIds /\ sourceJob[u].source \in Source
  BY DEF TypeOK, SourceJobsOK, SourceLocals, SourceAt
<1>2. sources[sourceJob[u].id] \in Source
  BY <1>1 DEF TypeOK, TablesTypeOK
<1>3. sources[sourceJob[u].id].secret \in Secrets \cup {None}
  BY <1>2 DEF Source
<1> QED
  BY <1>1, <1>3 DEF Patched, Source

\* What a write request on a source does keeps the types.
LEMMA SourceType ==
    ASSUME TypeOK, NEW u \in SourceTasks, SourceNext(u)
    PROVE  TypeOK'
<1> USE TablesAssumption
<1>1. UNCHANGED <<configJob, readJob>>
  BY DEF SourceNext
<1>2. ConfigJobsOK' /\ ReadJobsOK'
  BY <1>1 DEF TypeOK, ConfigJobsOK, ReadJobsOK
<1>3. sourceJob[u] \in SourceJob /\ SourceLocals(sourceJob[u])
  BY DEF TypeOK, SourceJobsOK
<1>4. TablesTypeOK /\ SourceJobsOK
  BY DEF TypeOK
<1>5. ASSUME SourceRequest(u) PROVE TypeOK'
  <2>1. ASSUME NEW s \in SourceIds, NEW v \in Source, BeginCreateSource(u, s, v)
        PROVE  TypeOK'
    BY <1>1, <2>1, BeginSourceType DEF BeginCreateSource, SourcePC
  <2>2. ASSUME NEW s \in SourceIds, NEW v \in Source, NEW keep \in BOOLEAN,
               BeginPatchSource(u, s, v, keep)
        PROVE  TypeOK'
    BY <1>1, <2>2, BeginSourceType DEF BeginPatchSource, SourcePC
  <2>3. ASSUME NEW s \in SourceIds, BeginDeleteSource(u, s)
        PROVE  TypeOK'
    BY <1>1, <2>3, BeginSourceType DEF BeginDeleteSource, SourcePC
  <2> QED
    BY <1>5, <2>1, <2>2, <2>3 DEF SourceRequest
<1>6. ASSUME SourceStep(u), ~UpdateSource(u) PROVE SourceJobsOK'
  <2>1. CASE SourceReply(u)
    BY <1>4, <2>1, SourceReplyType
  <2>2. ASSUME NEW pc \in SourcePC, SourceGoto(u, pc),
               pc # "idle" => sourceJob[u].id \in SourceIds,
               pc \in {"exists", "insert", "update", "cache"}
                  => sourceJob[u].source \in Source
        PROVE  SourceJobsOK'
    BY <1>4, <2>2, SourceGotoType
  <2> QED
    BY <1>3, <1>6, <2>1, <2>2, Zenon
       DEF SourceStep, SourceExists, InsertSource, CacheSource, CheckInUse,
           RemoveSource, UncacheSource, SourceAt, SourceLocals, SourcePC
<1>7. ASSUME UpdateSource(u) PROVE TypeOK'
  <2>1. CASE sources[sourceJob[u].id] = None
    <3>1. SourceReply(u) /\ UNCHANGED <<sharedVars>>
      BY <1>7, <2>1 DEF UpdateSource, sharedVars, tables, caches, history
    <3> QED
      BY <1>2, <1>4, <3>1, SourceReplyType
         DEF TypeOK, TablesTypeOK, sharedVars, tables, caches, history
  <2>2. CASE sources[sourceJob[u].id] # None
    <3> DEFINE row == Patched(u)
               job == [pc |-> "cache", id |-> sourceJob[u].id, source |-> row,
                       keep |-> sourceJob[u].keep]
               secret == IF sourceJob[u].keep THEN lastSecret[sourceJob[u].id]
                         ELSE sourceJob[u].source.secret
    <3>1. row \in Source
      BY <1>7, <2>2, PatchedIsSource DEF UpdateSource
    <3>2. sourceJob[u].id \in SourceIds /\ sourceJob[u].source \in Source
      BY <1>3, <1>7 DEF UpdateSource, SourceAt, SourceLocals
    <3>3. secret \in Secrets \cup {None}
      BY <1>4, <3>2 DEF TablesTypeOK, Source
    <3>4. /\ StoreSource(sourceJob[u].id, row, secret)
          /\ sourceJob' = [sourceJob EXCEPT ![u] = job]
          /\ UNCHANGED <<now, configs, deletedAt, caches, configSeen, writtenSince, deletedSince>>
      BY <1>7, <2>2 DEF UpdateSource
    <3> HIDE DEF row, secret
    <3>5. job \in SourceJob /\ SourceLocals(job)
      BY <1>3, <3>1, <3>2 DEF SourceJob, SourcePC, SourceLocals
    <3>6. SourceJobsOK'
      <4> HIDE DEF job
      <4> QED
        BY <1>4, <3>4, <3>5 DEF SourceJobsOK
    <3>7. TablesTypeOK'
      BY <1>4, <3>1, <3>2, <3>3, <3>4 DEF TablesTypeOK, StoreSource, caches
    <3> QED
      BY <1>2, <3>6, <3>7 DEF TypeOK
  <2> QED
    BY <2>1, <2>2
<1>8. ASSUME SourceStep(u), ~UpdateSource(u) PROVE TablesTypeOK'
  <2> USE <1>3, <1>4
      DEF sharedVars, tables, caches, history, SourceAt, SourceLocals, TablesTypeOK
  <2>1. CASE SourceExists(u)
    BY <2>1 DEF SourceExists
  <2>2. CASE InsertSource(u)
    <3>1. sourceJob[u].id \in SourceIds /\ sourceJob[u].source \in Source
      BY <2>2 DEF InsertSource
    <3>2. sourceJob[u].source.secret \in Secrets \cup {None}
      BY <3>1 DEF Source
    <3>3. CASE sources[sourceJob[u].id] # None
      BY <2>2, <3>3 DEF InsertSource
    <3>4. CASE sources[sourceJob[u].id] = None
      BY <2>2, <3>1, <3>2, <3>4, StoreSourceType DEF InsertSource
    <3> QED
      BY <3>3, <3>4
  <2>3. CASE CacheSource(u)
    BY <2>3 DEF CacheSource, CachePut
  <2>4. CASE CheckInUse(u)
    BY <2>4 DEF CheckInUse
  <2>5. CASE RemoveSource(u)
    <3>1. sourceJob[u].id \in SourceIds
      BY <2>5 DEF RemoveSource
    <3>2. CASE sources[sourceJob[u].id] = None
      BY <2>5, <3>2 DEF RemoveSource
    <3>3. CASE sources[sourceJob[u].id] # None
      BY <2>5, <3>1, <3>3, RemoveSourceType DEF RemoveSource
    <3> QED
      BY <3>2, <3>3
  <2>6. CASE UncacheSource(u)
    BY <2>6 DEF UncacheSource, CachePop
  <2> QED
    BY <1>8, <2>1, <2>2, <2>3, <2>4, <2>5, <2>6 DEF SourceStep
<1> QED
  BY <1>2, <1>5, <1>6, <1>7, <1>8 DEF SourceNext, TypeOK

---------------------------------------------------------------------------
\* A task that reads nothing.
LEMMA IdleReadJobType == IdleReadJob \in ReadJob /\ IdleReadJob.pc = "idle"
BY TablesAssumption DEF IdleReadJob, ReadJob, ReadPC, Time

\* A reader is answered.
LEMMA ReadReplyType ==
    ASSUME ReadJobsOK, NEW r \in ReadTasks, ReadReply(r)
    PROVE  ReadJobsOK'
BY IdleReadJobType DEF ReadJobsOK, ReadReply, ReadLocals

\* A job that goes through the sources in todo.
LEMMA SourcesJobType ==
    ASSUME NEW op \in {"none", "config", "source", "agent"}, NEW todo \in SUBSET SourceIds
    PROVE  LET job == [IdleReadJob EXCEPT !.pc = "sources", !.op = op, !.todo = todo]
           IN  job \in ReadJob /\ ReadLocals(job)
<1> DEFINE job == [IdleReadJob EXCEPT !.pc = "sources", !.op = op, !.todo = todo]
<1>1. job \in ReadJob /\ job.pc = "sources"
  BY IdleReadJobType DEF ReadJob, ReadPC
<1> QED
  BY <1>1 DEF ReadLocals

\* A read job replaced by a well-typed one.
LEMMA ReadJobType ==
    ASSUME ReadJobsOK, NEW r \in ReadTasks, NEW job \in ReadJob, ReadLocals(job),
           readJob' = [readJob EXCEPT ![r] = job]
    PROVE  ReadJobsOK'
BY DEF ReadJobsOK

\* Reads going on with the sources of a configuration, or answering.
LEMMA HaveConfigType ==
    ASSUME ReadJobsOK, NEW r \in ReadTasks, NEW c \in Configs, HaveConfig(r, c)
    PROVE  ReadJobsOK'
<1> DEFINE job == [IdleReadJob EXCEPT !.pc = "sources", !.op = "agent", !.todo = Refs[c]]
<1>1. job \in ReadJob /\ ReadLocals(job)
  BY SourcesJobType, TablesAssumption
<1>2. ReadReply(r) \/ readJob' = [readJob EXCEPT ![r] = job]
  BY DEF HaveConfig
<1> HIDE DEF job
<1> QED
  BY <1>1, <1>2, ReadReplyType, ReadJobType

\* A reader has one of its sources, and goes on to the others.
LEMMA HaveSourceType ==
    ASSUME ReadJobsOK, NEW r \in ReadTasks, NEW s \in SourceIds, HaveSource(r, s)
    PROVE  ReadJobsOK'
<1> DEFINE job == [IdleReadJob EXCEPT !.pc = "sources", !.op = readJob[r].op,
                                      !.todo = readJob[r].todo \ {s}]
<1>1. readJob[r] \in ReadJob
  BY DEF ReadJobsOK
<1>2. job \in ReadJob /\ ReadLocals(job)
  <2>1. readJob[r].op \in {"none", "config", "source", "agent"}
          /\ readJob[r].todo \ {s} \in SUBSET SourceIds
    BY <1>1 DEF ReadJob
  <2> QED
    BY <2>1, SourcesJobType
<1>3. ReadReply(r) \/ readJob' = [readJob EXCEPT ![r] = job]
  BY DEF HaveSource
<1> HIDE DEF job
<1> QED
  BY <1>2, <1>3, ReadReplyType, ReadJobType

\* What a read does keeps the types.
LEMMA ReadType ==
    ASSUME TypeOK, NEW r \in ReadTasks, ReadNext(r)
    PROVE  TypeOK'
<1>1. UNCHANGED <<configJob, sourceJob>>
  BY DEF ReadNext
<1>2. ConfigJobsOK' /\ SourceJobsOK'
  BY <1>1 DEF TypeOK, ConfigJobsOK, SourceJobsOK
<1>3. readJob[r] \in ReadJob /\ ReadLocals(readJob[r])
  BY DEF TypeOK, ReadJobsOK
<1>4. TablesTypeOK /\ ReadJobsOK
  BY DEF TypeOK
<1>5. Home[r] \in Procs
  BY TablesAssumption DEF Tasks
<1>6. ASSUME UNCHANGED sharedVars PROVE TablesTypeOK'
  BY <1>4, <1>6 DEF TablesTypeOK, sharedVars, tables, caches, history
<1>7. ASSUME ReadRequest(r) PROVE TypeOK'
  <2>1. ASSUME NEW job \in ReadJob, ReadLocals(job), BeginRead(r, job)
        PROVE  TypeOK'
    BY <1>2, <1>4, <1>6, <2>1, ReadJobType DEF BeginRead, TypeOK
  <2>2. ASSUME NEW id \in ConfigIds, BeginGetConfig(r, id) \/ BeginGetAgent(r, id)
        PROVE  TypeOK'
    <3>1. ASSUME NEW op \in {"config", "agent"}
          PROVE  LET job == [IdleReadJob EXCEPT !.pc = "config", !.op = op, !.id = id]
                 IN  job \in ReadJob /\ ReadLocals(job)
      <4> DEFINE job == [IdleReadJob EXCEPT !.pc = "config", !.op = op, !.id = id]
      <4>1. job \in ReadJob /\ job.pc = "config" /\ job.id = id
        BY IdleReadJobType DEF ReadJob, ReadPC
      <4> QED
        BY <4>1 DEF ReadLocals
    <3> QED
      BY <2>1, <2>2, <3>1 DEF BeginGetConfig, BeginGetAgent
  <2>3. ASSUME NEW s \in SourceIds, BeginGetSource(r, s)
        PROVE  TypeOK'
    <3> DEFINE job == [IdleReadJob EXCEPT !.pc = "sources", !.op = "source", !.todo = {s}]
    <3>1. job \in ReadJob /\ ReadLocals(job)
      BY SourcesJobType
    <3> QED
      BY <2>1, <2>3, <3>1 DEF BeginGetSource
  <2> QED
    BY <1>7, <2>2, <2>3 DEF ReadRequest
<1>8. ASSUME LookupConfig(r) PROVE TypeOK'
  <2> DEFINE cached == configCache[Home[r]][readJob[r].id]
             job == [readJob[r] EXCEPT !.pc = "select", !.at = now]
  <2>1. readJob[r].id \in ConfigIds
    BY <1>3, <1>8 DEF LookupConfig, ReadAt, ReadLocals
  <2>2. CASE cached # None
    BY <1>2, <1>4, <1>5, <1>6, <1>8, <2>1, <2>2, HaveConfigType
       DEF LookupConfig, TypeOK, TablesTypeOK
  <2>3. CASE cached = None
    <3>1. job \in ReadJob /\ ReadLocals(job)
      BY <1>3, <1>4, <2>1 DEF ReadJob, ReadPC, ReadLocals, TablesTypeOK
    <3>2. readJob' = [readJob EXCEPT ![r] = job]
      BY <1>8, <2>3 DEF LookupConfig
    <3> HIDE DEF job
    <3> QED
      BY <1>2, <1>4, <1>6, <1>8, <3>1, <3>2, ReadJobType DEF LookupConfig, TypeOK
  <2> QED
    BY <2>2, <2>3
<1>9. ASSUME SelectConfig(r) PROVE TypeOK'
  <2> DEFINE job == [readJob[r] EXCEPT !.pc = "fill", !.config = configs[readJob[r].id]]
  <2>1. readJob[r].id \in ConfigIds
    BY <1>3, <1>9 DEF SelectConfig, ReadAt, ReadLocals
  <2>2. CASE Active(readJob[r].id)
    <3>1. configs[readJob[r].id] \in Configs
      BY <1>4, <2>1, <2>2 DEF Active, HasRow, TablesTypeOK
    <3>2. job \in ReadJob /\ ReadLocals(job)
      BY <1>3, <2>1, <3>1 DEF ReadJob, ReadPC, ReadLocals
    <3>3. readJob' = [readJob EXCEPT ![r] = job]
      BY <1>9, <2>2 DEF SelectConfig
    <3> HIDE DEF job
    <3> QED
      BY <1>2, <1>4, <1>6, <1>9, <3>2, <3>3, ReadJobType DEF SelectConfig, TypeOK
  <2>3. CASE ~Active(readJob[r].id)
    BY <1>2, <1>4, <1>6, <1>9, <2>3, ReadReplyType DEF SelectConfig, TypeOK
  <2> QED
    BY <2>2, <2>3
<1>10. ASSUME FillConfig(r) PROVE TypeOK'
  <2>1. readJob[r].id \in ConfigIds /\ readJob[r].config \in Configs
    BY <1>3, <1>10 DEF FillConfig, ReadAt, ReadLocals
  <2>2. TablesTypeOK'
    BY <1>4, <1>10, <2>1
       DEF FillConfig, CachePut, TablesTypeOK, tables, history
  <2> QED
    BY <1>2, <1>4, <1>10, <2>1, <2>2, HaveConfigType DEF FillConfig, TypeOK
<1>11. ASSUME LookupSource(r) PROVE TypeOK'
  <2>1. PICK s \in readJob[r].todo :
          \/ HaveSource(r, s)
          \/ readJob' = [readJob EXCEPT ![r].pc = "selectSource",
                                        ![r].source = s, ![r].at = now]
    BY <1>11 DEF LookupSource
  <2>2. s \in SourceIds
    BY <1>3 DEF ReadJob
  <2>3. CASE HaveSource(r, s)
    BY <1>2, <1>4, <1>6, <1>11, <2>2, <2>3, HaveSourceType DEF LookupSource, TypeOK
  <2>4. CASE ~HaveSource(r, s)
    <3> DEFINE job == [readJob[r] EXCEPT !.pc = "selectSource", !.source = s, !.at = now]
    <3>1. job \in ReadJob /\ ReadLocals(job)
      BY <1>3, <1>4, <2>2 DEF ReadJob, ReadPC, ReadLocals, TablesTypeOK
    <3>2. readJob' = [readJob EXCEPT ![r] = job]
      BY <2>1, <2>4
    <3> HIDE DEF job
    <3> QED
      BY <1>2, <1>4, <1>6, <1>11, <3>1, <3>2, ReadJobType DEF LookupSource, TypeOK
  <2> QED
    BY <2>3, <2>4
<1>12. ASSUME SelectSource(r) PROVE TypeOK'
  <2> DEFINE job == [readJob[r] EXCEPT !.pc = "fillSource",
                                       !.row = sources[readJob[r].source]]
  <2>1. readJob[r].source \in SourceIds
    BY <1>3, <1>12 DEF SelectSource, ReadAt, ReadLocals
  <2>2. CASE sources[readJob[r].source] # None
    <3>1. sources[readJob[r].source] \in Source
      BY <1>4, <2>1, <2>2 DEF TablesTypeOK
    <3>2. job \in ReadJob /\ ReadLocals(job)
      BY <1>3, <2>1, <3>1 DEF ReadJob, ReadPC, ReadLocals
    <3>3. readJob' = [readJob EXCEPT ![r] = job]
      BY <1>12, <2>2 DEF SelectSource
    <3> HIDE DEF job
    <3> QED
      BY <1>2, <1>4, <1>6, <1>12, <3>2, <3>3, ReadJobType DEF SelectSource, TypeOK
  <2>3. CASE sources[readJob[r].source] = None
    BY <1>2, <1>4, <1>6, <1>12, <2>3, ReadReplyType DEF SelectSource, TypeOK
  <2> QED
    BY <2>2, <2>3
<1>13. ASSUME FillSource(r) PROVE TypeOK'
  <2>1. readJob[r].source \in SourceIds /\ readJob[r].row \in Source
    BY <1>3, <1>13 DEF FillSource, ReadAt, ReadLocals
  <2>2. TablesTypeOK'
    BY <1>4, <1>13, <2>1
       DEF FillSource, CachePut, TablesTypeOK, tables, history
  <2> QED
    BY <1>2, <1>4, <1>13, <2>1, <2>2, HaveSourceType DEF FillSource, TypeOK
<1> QED
  BY <1>7, <1>8, <1>9, <1>10, <1>11, <1>12, <1>13 DEF ReadNext, ReadStep

---------------------------------------------------------------------------
\* The clock, evictions and restarts keep the types.
LEMMA EnvironmentType ==
    ASSUME TypeOK,
           \/ Tick
           \/ \E p \in Procs, id \in ConfigIds : EvictConfig(p, id)
           \/ \E p \in Procs, s \in SourceIds : EvictSource(p, s)
           \/ \E p \in Procs : Restart(p)
    PROVE  TypeOK'
<1>1. ASSUME Tick PROVE TypeOK'
  <2>1. \A id \in ConfigIds : VisibleConfig(id) \cup WritingConfig(id) \in SUBSET Configs
    BY DEF TypeOK, TablesTypeOK, VisibleConfig, WritingConfig, Active, HasRow,
           ConfigJobsOK, ConfigLocals, ConfigAt
  <2>2. \A s \in SourceIds : VisibleSource(s) \cup WritingSource(s) \in SUBSET Source
    BY DEF TypeOK, TablesTypeOK, VisibleSource, WritingSource, SourceJobsOK,
           SourceLocals, SourceAt
  <2>3. TablesTypeOK'
    BY <1>1, <2>1, <2>2, TablesAssumption DEF Tick, TypeOK, TablesTypeOK, tables, Time
  <2> QED
    BY <1>1, <2>3 DEF Tick, TypeOK, ConfigJobsOK, SourceJobsOK, ReadJobsOK, jobs
<1>2. ASSUME NEW p \in Procs, NEW id \in ConfigIds, EvictConfig(p, id) PROVE TypeOK'
  BY <1>2 DEF EvictConfig, CachePop, TypeOK, TablesTypeOK, tables, history, jobs,
              ConfigJobsOK, SourceJobsOK, ReadJobsOK
<1>3. ASSUME NEW p \in Procs, NEW s \in SourceIds, EvictSource(p, s) PROVE TypeOK'
  BY <1>3 DEF EvictSource, CachePop, TypeOK, TablesTypeOK, tables, history, jobs,
              ConfigJobsOK, SourceJobsOK, ReadJobsOK
<1>4. ASSUME NEW p \in Procs, Restart(p) PROVE TypeOK'
  <2>1. TablesTypeOK'
    BY <1>4 DEF Restart, TypeOK, TablesTypeOK, tables, history
  <2>2. ConfigJobsOK'
    <3>1. IdleConfigJob \in ConfigJob /\ ConfigLocals(IdleConfigJob)
      BY TablesAssumption DEF IdleConfigJob, ConfigJob, ConfigPC, ConfigLocals, Time
    <3> QED
      BY <1>4, <3>1 DEF Restart, TypeOK, ConfigJobsOK
  <2>3. SourceJobsOK'
    <3>1. IdleSourceJob \in SourceJob /\ SourceLocals(IdleSourceJob)
      BY DEF IdleSourceJob, SourceJob, SourcePC, SourceLocals
    <3> QED
      BY <1>4, <3>1 DEF Restart, TypeOK, SourceJobsOK
  <2>4. ReadJobsOK'
    <3>1. IdleReadJob \in ReadJob /\ ReadLocals(IdleReadJob)
      BY IdleReadJobType DEF ReadLocals
    <3> QED
      BY <1>4, <3>1 DEF Restart, TypeOK, ReadJobsOK
  <2> QED
    BY <2>1, <2>2, <2>3, <2>4 DEF TypeOK
<1> QED
  BY <1>1, <1>2, <1>3, <1>4

\* Every part of the state always has its type (TypeOK), the locals of every
\* coroutine included.
THEOREM TypeCorrect == Spec => []TypeOK
<1>1. ASSUME TypeOK, [Next]_vars PROVE TypeOK'
  <2>1. CASE UNCHANGED vars
    BY <1>1, <2>1 DEF vars, sharedVars, tables, caches, history, TypeOK, TablesTypeOK,
                      ConfigJobsOK, SourceJobsOK, ReadJobsOK
  <2>2. CASE Next
    BY <1>1, <2>2, ConfigType, SourceType, ReadType, EnvironmentType DEF Next
  <2> QED
    BY <1>1, <2>1, <2>2
<1> QED
  BY <1>1, InitType, PTL DEF Spec

---------------------------------------------------------------------------
(***************************************************************************)
(* References between the two tables.                                      *)
(***************************************************************************)

\* A deletion of a source strands only configurations written after its in-use
\* check (SettledReferencesKept): v1/sources.py delete_source_endpoint.
THEOREM SettledReferences == Spec => []SettledReferencesKept
<1> USE DEF SettledReferencesKept, SourceAt
<1>1. Init => SettledReferencesKept
  BY DEF Init, IdleSourceJob
<1>2. ASSUME TypeOK, TypeOK', SettledReferencesKept, [Next]_vars
      PROVE  SettledReferencesKept'
  <2> SUFFICES ASSUME NEW u \in SourceTasks, (sourceJob[u].pc = "remove")'
               PROVE  (ConfigsReferencing(sourceJob[u].id) \subseteq writtenSince[u])'
    OBVIOUS
  <2>1. ASSUME sourceJob[u].pc = "remove", sourceJob'[u].id = sourceJob[u].id,
               writtenSince[u] \subseteq writtenSince'[u],
               \A id \in ConfigIds : Active(id)' =>
                  \/ Active(id) /\ configs'[id] = configs[id]
                  \/ id \in writtenSince'[u]
        PROVE  (ConfigsReferencing(sourceJob[u].id) \subseteq writtenSince[u])'
    BY <1>2, <2>1 DEF ConfigsReferencing
  <2>2. ASSUME NEW t \in ConfigTasks, ConfigNext(t)
        PROVE  /\ writtenSince[u] \subseteq writtenSince'[u]
               /\ \A id \in ConfigIds : Active(id)' =>
                     \/ Active(id) /\ configs'[id] = configs[id]
                     \/ id \in writtenSince'[u]
    <3> USE <1>2 DEF TypeOK, TablesTypeOK, Active, HasRow, sharedVars, tables, history
    <3>1. CASE ConfigRequest(t)
      BY <3>1 DEF ConfigRequest, BeginCreate, BeginPatch, BeginDelete, BeginPurge,
                  BeginConfigJob
    <3>2. CASE \/ ValidateSources(t) \/ LookupRow(t) \/ CacheConfig(t)
               \/ UncacheConfig(t) \/ CountExpired(t)
      BY <3>2 DEF ValidateSources, LookupRow, CacheConfig, UncacheConfig, CountExpired
    <3>3. ASSUME NEW id \in ConfigIds, NEW c, StoreConfig(id, c)
          PROVE  /\ writtenSince[u] \subseteq writtenSince'[u]
                 /\ \A k \in ConfigIds : Active(k)' =>
                       \/ Active(k) /\ configs'[k] = configs[k]
                       \/ k \in writtenSince'[u]
      BY <3>3 DEF StoreConfig
    <3>4. CASE UpdateRow(t) \/ ReviveRow(t) \/ InsertRow(t)
      <4>1. configJob[t].id \in ConfigIds
        BY <3>4 DEF UpdateRow, ReviveRow, InsertRow, ConfigAt, ConfigJobsOK, ConfigLocals
      <4>2. CASE StoreConfig(configJob[t].id, configJob[t].config)
        BY <3>3, <4>1, <4>2
      <4>3. CASE UNCHANGED <<configs, deletedAt, writtenSince>>
        BY <4>3
      <4> QED
        BY <3>4, <4>2, <4>3 DEF UpdateRow, ReviveRow, InsertRow
    <3>5. CASE DeleteRow(t)
      <4>1. configJob[t].at \in Time /\ configJob[t].id \in ConfigIds
        BY <3>5 DEF DeleteRow, ConfigAt, ConfigJobsOK, ConfigLocals, ConfigJob
      <4>2. UNCHANGED <<configs, writtenSince>>
        BY <3>5 DEF DeleteRow
      <4>3. \A id \in ConfigIds : deletedAt'[id] = NotDeleted => deletedAt[id] = NotDeleted
        BY <3>5, <4>1 DEF DeleteRow, NotDeleted, Time
      <4> QED
        BY <4>2, <4>3
    <3>6. CASE PurgeExpired(t)
      BY <3>6 DEF PurgeExpired, Expired
    <3> QED
      BY <2>2, <3>1, <3>2, <3>4, <3>5, <3>6 DEF ConfigNext, ConfigStep
  <2>3. CASE \E t \in ConfigTasks : ConfigNext(t)
    BY <2>1, <2>2, <2>3 DEF ConfigNext
  <2>4. CASE \E v \in SourceTasks : SourceNext(v)
    <3> PICK v \in SourceTasks : SourceNext(v)
      BY <2>4
    <3>1. UNCHANGED <<configs, deletedAt>>
      BY DEF SourceNext, SourceRequest, SourceStep, BeginCreateSource, BeginPatchSource,
             BeginDeleteSource, BeginSourceJob, SourceExists, InsertSource, UpdateSource,
             CacheSource, CheckInUse, RemoveSource, UncacheSource, sharedVars, tables
    <3>2. CASE CheckInUse(v) /\ v = u
      BY <1>2, <2>1, <3>1, <3>2
         DEF CheckInUse, SourceReply, SourceGoto, IdleSourceJob, TypeOK, TablesTypeOK,
             SourceJobsOK, SourceJob, ConfigsReferencing, Active, HasRow
    <3>3. CASE ~(CheckInUse(v) /\ v = u)
      <4>1. writtenSince'[u] = writtenSince[u]
        BY <1>2, <3>3
           DEF SourceNext, SourceRequest, SourceStep, BeginCreateSource, BeginPatchSource,
               BeginDeleteSource, BeginSourceJob, SourceExists, InsertSource, UpdateSource,
               CacheSource, CheckInUse, RemoveSource, UncacheSource, sharedVars, history,
               TypeOK, TablesTypeOK
      <4>2. sourceJob[u].pc = "remove" /\ sourceJob'[u].id = sourceJob[u].id
        BY <1>2, <3>3
           DEF SourceNext, SourceRequest, SourceStep, BeginCreateSource, BeginPatchSource,
               BeginDeleteSource, BeginSourceJob, SourceExists, InsertSource, UpdateSource,
               CacheSource, CheckInUse, RemoveSource, UncacheSource, SourceReply,
               SourceGoto, IdleSourceJob, TypeOK, SourceJobsOK, SourceJob
      <4> QED
        BY <2>1, <3>1, <4>1, <4>2 DEF Active, HasRow
    <3> QED
      BY <3>2, <3>3
  <2>5. CASE \/ \E r \in ReadTasks : ReadNext(r)
             \/ Tick
             \/ \E p \in Procs, id \in ConfigIds : EvictConfig(p, id)
             \/ \E p \in Procs, s \in SourceIds : EvictSource(p, s)
             \/ UNCHANGED vars
    <3>1. UNCHANGED <<configs, deletedAt, writtenSince, sourceJob>>
      BY <2>5 DEF ReadNext, ReadRequest, ReadStep, BeginGetConfig, BeginGetAgent,
             BeginGetSource, BeginRead, LookupConfig, SelectConfig, FillConfig,
             LookupSource, SelectSource, FillSource, Tick, EvictConfig, EvictSource,
             vars, sharedVars, tables, history, jobs
    <3> QED
      BY <2>1, <3>1 DEF Active, HasRow
  <2>6. CASE \E p \in Procs : Restart(p)
    <3>1. UNCHANGED <<configs, deletedAt, writtenSince>>
      BY <2>6 DEF Restart, tables, history
    <3>2. sourceJob'[u] = sourceJob[u]
      BY <2>6 DEF Restart, IdleSourceJob
    <3> QED
      BY <2>1, <3>1, <3>2 DEF Active, HasRow
  <2> QED
    BY <1>2, <2>3, <2>4, <2>5, <2>6 DEF Next
<1> QED
  BY <1>1, <1>2, TypeCorrect, PTL DEF Spec

---------------------------------------------------------------------------
(***************************************************************************)
(* Times.                                                                  *)
(***************************************************************************)

\* No coroutine holds a time ahead of the clock (TimesTaken): utc_now() and
\* the keys of _cache_key are taken before they are used.
THEOREM TimesBehindClock == Spec => []TimesTaken
<1>1. Init => TimesTaken
  BY DEF Init, TablesInit, IdleConfigJob, IdleReadJob, TimesTaken
<1>2. ASSUME TypeOK, TypeOK', TimesTaken, [Next]_vars PROVE TimesTaken'
  <2> USE DEF TimesTaken
  <2>0. now \in Nat /\ now' \in Nat
    BY <1>2, TablesAssumption DEF TypeOK, TablesTypeOK, Time
  <2>1. ASSUME NEW t \in ConfigTasks, ConfigNext(t) PROVE TimesTaken'
    <3>1. now' = now /\ readJob' = readJob
      BY <2>1 DEF ConfigNext, ConfigRequest, ConfigStep, BeginCreate, BeginPatch, BeginDelete,
             BeginPurge, BeginConfigJob, ValidateSources, UpdateRow, LookupRow, ReviveRow,
             InsertRow, CacheConfig, DeleteRow, UncacheConfig, CountExpired, PurgeExpired,
             sharedVars
    <3>2. ASSUME NEW x \in ConfigTasks
          PROVE  configJob'[x].at = configJob[x].at \/ configJob'[x].at = 0
                   \/ configJob'[x].at = now
      <4>1. CASE ConfigRequest(t)
        BY <1>2, <4>1 DEF ConfigRequest, BeginCreate, BeginPatch, BeginDelete, BeginPurge,
               BeginConfigJob, TypeOK, ConfigJobsOK
      <4>2. CASE ConfigStep(t)
        BY <1>2, <4>2 DEF ConfigStep, ValidateSources, UpdateRow, LookupRow, ReviveRow,
               InsertRow, CacheConfig, DeleteRow, UncacheConfig, CountExpired, PurgeExpired,
               ConfigGoto, ConfigReply, IdleConfigJob, TypeOK, ConfigJobsOK, ConfigJob
      <4> QED
        BY <2>1, <4>1, <4>2 DEF ConfigNext
    <3> QED
      BY <1>2, <2>0, <3>1, <3>2
  <2>2. ASSUME NEW u \in SourceTasks, SourceNext(u) PROVE TimesTaken'
    BY <1>2, <2>2 DEF SourceNext, SourceRequest, SourceStep, BeginCreateSource,
           BeginPatchSource, BeginDeleteSource, BeginSourceJob, SourceExists, InsertSource,
           UpdateSource, CacheSource, CheckInUse, RemoveSource, UncacheSource, sharedVars
  <2>3. ASSUME NEW r \in ReadTasks, ReadNext(r) PROVE TimesTaken'
    <3>1. now' = now /\ configJob' = configJob
      BY <2>3 DEF ReadNext, ReadRequest, ReadStep, BeginGetConfig, BeginGetAgent,
             BeginGetSource, BeginRead, LookupConfig, SelectConfig, FillConfig,
             LookupSource, SelectSource, FillSource, sharedVars
    <3>2. ASSUME NEW x \in ReadTasks
          PROVE  readJob'[x].at = readJob[x].at \/ readJob'[x].at = 0 \/ readJob'[x].at = now
      <4>1. CASE ReadRequest(r)
        BY <1>2, <4>1 DEF ReadRequest, BeginGetConfig, BeginGetAgent, BeginGetSource,
               BeginRead, IdleReadJob, TypeOK, ReadJobsOK
      <4>2. IdleReadJob.at = 0
        BY DEF IdleReadJob
      <4>3. \A op, todo : [IdleReadJob EXCEPT !.pc = "sources", !.op = op, !.todo = todo].at = 0
        BY DEF IdleReadJob
      <4>4. readJob \in [ReadTasks -> ReadJob]
        BY <1>2 DEF TypeOK, ReadJobsOK
      <4>5. ASSUME NEW job, readJob' = [readJob EXCEPT ![r] = job],
                   job.at \in {0, now, readJob[r].at}
            PROVE  readJob'[x].at \in {0, now, readJob[x].at}
        BY <4>4, <4>5
      <4>6. ASSUME NEW c, HaveConfig(r, c) PROVE readJob'[x].at \in {0, now, readJob[x].at}
        <5> DEFINE next == [IdleReadJob EXCEPT !.pc = "sources", !.op = "agent", !.todo = Refs[c]]
        <5>1. next.at = 0
          BY <4>3
        <5>2. readJob' = [readJob EXCEPT ![r] = next] \/ readJob' = [readJob EXCEPT ![r] = IdleReadJob]
          BY <4>6, Zenon DEF HaveConfig, ReadReply
        <5> HIDE DEF next
        <5> QED
          BY <4>2, <4>5, <5>1, <5>2
      <4>7. ASSUME NEW s, HaveSource(r, s) PROVE readJob'[x].at \in {0, now, readJob[x].at}
        <5> DEFINE next == [IdleReadJob EXCEPT !.pc = "sources", !.op = readJob[r].op,
                                               !.todo = readJob[r].todo \ {s}]
        <5>1. next.at = 0
          BY <4>3
        <5>2. readJob' = [readJob EXCEPT ![r] = next] \/ readJob' = [readJob EXCEPT ![r] = IdleReadJob]
          BY <4>7, Zenon DEF HaveSource, ReadReply
        <5> HIDE DEF next
        <5> QED
          BY <4>2, <4>5, <5>1, <5>2
      <4>8. CASE LookupConfig(r) \/ FillConfig(r)
        BY <4>4, <4>6, <4>8 DEF LookupConfig, FillConfig, ReadJob
      <4>9. CASE SelectConfig(r)
        BY <4>2, <4>4, <4>9 DEF SelectConfig, ReadReply, ReadJob
      <4>10. CASE LookupSource(r)
        BY <4>4, <4>7, <4>10, ZenonT(30) DEF LookupSource, ReadJob
      <4>11. CASE FillSource(r)
        BY <4>4, <4>7, <4>11, ZenonT(30) DEF FillSource, ReadJob
      <4>12. CASE SelectSource(r)
        BY <4>2, <4>4, <4>12 DEF SelectSource, ReadReply, ReadJob
      <4> QED
        BY <2>3, <4>1, <4>8, <4>9, <4>10, <4>11, <4>12 DEF ReadNext, ReadStep
    <3> QED
      BY <1>2, <2>0, <3>1, <3>2
  <2>4. CASE Tick
    <3>1. \A t \in ConfigTasks : configJob[t].at \in Int
      BY <1>2 DEF TypeOK, ConfigJobsOK, ConfigJob, Time
    <3>2. \A r \in ReadTasks : readJob[r].at \in Int
      BY <1>2 DEF TypeOK, ReadJobsOK, ReadJob, Time
    <3> QED
      BY <1>2, <2>0, <2>4, <3>1, <3>2 DEF Tick, jobs
  <2>5. CASE \/ \E p \in Procs, id \in ConfigIds : EvictConfig(p, id)
             \/ \E p \in Procs, s \in SourceIds : EvictSource(p, s)
             \/ UNCHANGED vars
    BY <1>2, <2>5 DEF EvictConfig, EvictSource, jobs, vars, sharedVars
  <2>6. CASE \E p \in Procs : Restart(p)
    BY <1>2, <2>0, <2>6 DEF Restart, IdleConfigJob, IdleReadJob
  <2> QED
    BY <1>2, <2>1, <2>2, <2>3, <2>4, <2>5, <2>6 DEF Next
<1> QED
  BY <1>1, <1>2, TypeCorrect, PTL DEF Spec

---------------------------------------------------------------------------
(***************************************************************************)
(* Configurations.                                                         *)
(***************************************************************************)

\* A step within a bucket keeps ConfigsFresh when whatever it puts in a cache,
\* a row or the locals of a coroutine has been seen.
LEMMA ConfigsFreshStep ==
    ASSUME TypeOK, TypeOK', ConfigsFresh,
           now' = now,
           \A id \in ConfigIds : configSeen[id] \subseteq configSeen'[id],
           \A p \in Procs, id \in ConfigIds :
              configCache'[p][id] \in {None, configCache[p][id]} \cup configSeen[id],
           \A id \in ConfigIds : Active(id)' =>
              \/ Active(id) /\ configs'[id] = configs[id]
              \/ configs'[id] \in configSeen'[id],
           \A x \in ConfigTasks : configJob'[x].pc = "cache" =>
              \/ configJob'[x] = configJob[x]
              \/ configJob'[x].config \in configSeen'[configJob'[x].id],
           \A x \in ReadTasks : readJob'[x].pc = "fill" =>
              \/ readJob'[x] = readJob[x]
              \/ readJob'[x].config \in configSeen[readJob'[x].id]
    PROVE  ConfigsFresh'
<1>1. CachedConfigFresh'
  BY DEF ConfigsFresh, CachedConfigFresh
<1>2. \A id \in ConfigIds : Active(id)' => configs'[id] \in configSeen'[id]
  BY DEF ConfigsFresh
<1>3. ASSUME NEW t \in ConfigTasks, configJob'[t].pc = "cache"
      PROVE  configJob'[t].config \in configSeen'[configJob'[t].id]
  <2>1. configJob'[t].id \in ConfigIds
    BY <1>3 DEF TypeOK, ConfigJobsOK, ConfigLocals
  <2> QED
    BY <1>3, <2>1 DEF ConfigsFresh, ConfigAt
<1>4. ASSUME NEW r \in ReadTasks, readJob'[r].pc = "fill", readJob'[r].at = now'
      PROVE  readJob'[r].config \in configSeen'[readJob'[r].id]
  <2>1. readJob'[r].id \in ConfigIds
    BY <1>4 DEF TypeOK, ReadJobsOK, ReadLocals
  <2> QED
    BY <1>4, <2>1 DEF ConfigsFresh, ReadAt
<1> QED
  BY <1>1, <1>2, <1>3, <1>4 DEF ConfigsFresh, ConfigAt, ReadAt

\* Writers.
LEMMA ConfigWritesFresh ==
    ASSUME TypeOK, TypeOK', ConfigsFresh, NEW t \in ConfigTasks, ConfigNext(t)
    PROVE  ConfigsFresh'
<1> USE DEF TypeOK, TablesTypeOK
<1>0. readJob' = readJob
  BY DEF ConfigNext
<1>1. CASE ConfigRequest(t)
  <2>1. UNCHANGED sharedVars
    BY <1>1 DEF ConfigRequest, BeginCreate, BeginPatch, BeginDelete, BeginPurge, BeginConfigJob
  <2>2. \A x \in ConfigTasks : configJob'[x].pc = "cache" => configJob'[x] = configJob[x]
    BY <1>1 DEF ConfigRequest, BeginCreate, BeginPatch, BeginDelete, BeginPurge,
           BeginConfigJob, ConfigJobsOK
  <2> QED
    BY <1>0, <2>1, <2>2, ConfigsFreshStep
       DEF sharedVars, tables, caches, history, Active, HasRow
<1>2. ASSUME configSeen' = configSeen, UNCHANGED <<now, configCache>>,
             \A id \in ConfigIds : Active(id)' => Active(id) /\ configs'[id] = configs[id],
             \A x \in ConfigTasks : configJob'[x].pc = "cache" => configJob'[x] = configJob[x]
      PROVE  ConfigsFresh'
  BY <1>0, <1>2, ConfigsFreshStep
<1>goto. ASSUME NEW pc, ConfigGoto(t, pc), pc # "cache"
      PROVE  \A x \in ConfigTasks : configJob'[x].pc = "cache" => configJob'[x] = configJob[x]
  BY <1>goto DEF ConfigGoto, ConfigJobsOK, ConfigJob
<1>reply. ASSUME ConfigReply(t)
      PROVE  \A x \in ConfigTasks : configJob'[x].pc = "cache" => configJob'[x] = configJob[x]
  BY <1>reply DEF ConfigReply, IdleConfigJob, ConfigJobsOK, ConfigJob
<1>3. CASE ValidateSources(t) \/ LookupRow(t) \/ CountExpired(t)
  <2>1. UNCHANGED <<now, configs, deletedAt, configCache, configSeen>>
    BY <1>3 DEF ValidateSources, LookupRow, CountExpired, sharedVars, tables, caches, history
  <2>2. \A x \in ConfigTasks : configJob'[x].pc = "cache" => configJob'[x] = configJob[x]
    BY <1>3, <1>goto, <1>reply DEF ValidateSources, LookupRow, CountExpired
  <2> QED
    BY <1>2, <2>1, <2>2 DEF Active, HasRow
<1>4. CASE DeleteRow(t)
  <2>1. configJob[t].at \in Time /\ configJob[t].id \in ConfigIds
    BY <1>4 DEF DeleteRow, ConfigAt, ConfigJobsOK, ConfigLocals, ConfigJob
  <2>2. UNCHANGED <<now, configs, configCache, configSeen>>
    BY <1>4 DEF DeleteRow, caches, history
  <2>3. \A id \in ConfigIds : deletedAt'[id] = NotDeleted => deletedAt[id] = NotDeleted
    BY <1>4, <2>1 DEF DeleteRow, NotDeleted, Time
  <2>4. \A x \in ConfigTasks : configJob'[x].pc = "cache" => configJob'[x] = configJob[x]
    BY <1>4, <1>goto, <1>reply DEF DeleteRow
  <2> QED
    BY <1>2, <2>2, <2>3, <2>4 DEF Active, HasRow
<1>5. CASE PurgeExpired(t)
  <2>1. UNCHANGED <<now, configCache, configSeen>>
    BY <1>5 DEF PurgeExpired, caches, history
  <2>2. \A id \in ConfigIds : Active(id)' => Active(id) /\ configs'[id] = configs[id]
    BY <1>5 DEF PurgeExpired, Active, HasRow, Expired
  <2>3. \A x \in ConfigTasks : configJob'[x].pc = "cache" => configJob'[x] = configJob[x]
    BY <1>5 DEF PurgeExpired, ConfigReply, IdleConfigJob, ConfigJobsOK
  <2> QED
    BY <1>2, <2>1, <2>2, <2>3
<1>6. CASE UpdateRow(t) \/ ReviveRow(t) \/ InsertRow(t)
  <2>1. configJob[t].id \in ConfigIds /\ configJob[t].config \in Configs
    BY <1>6 DEF UpdateRow, ReviveRow, InsertRow, ConfigAt, ConfigJobsOK, ConfigLocals
  <2>2. UNCHANGED <<now, configCache>>
    BY <1>6 DEF UpdateRow, ReviveRow, InsertRow, caches
  <2>3. CASE configJob' = [configJob EXCEPT ![t] = IdleConfigJob]
                /\ UNCHANGED <<configs, deletedAt, configSeen>>
    <3>1. \A x \in ConfigTasks : configJob'[x].pc = "cache" => configJob'[x] = configJob[x]
      BY <2>3 DEF IdleConfigJob, ConfigJobsOK
    <3> QED
      BY <1>2, <2>2, <2>3, <3>1 DEF Active, HasRow
  <2>4. CASE /\ configJob' = [configJob EXCEPT ![t].pc = "cache"]
             /\ configSeen' = [configSeen EXCEPT ![configJob[t].id] = @ \cup {configJob[t].config}]
             /\ \/ UNCHANGED <<configs, deletedAt>>
                \/ /\ configs' = [configs EXCEPT ![configJob[t].id] = configJob[t].config]
                   /\ deletedAt' = [deletedAt EXCEPT ![configJob[t].id] = NotDeleted]
    <3>1. \A id \in ConfigIds : configSeen[id] \subseteq configSeen'[id]
      BY <2>4
    <3>2. configJob[t].config \in configSeen'[configJob[t].id]
      BY <2>1, <2>4
    <3>3. \A id \in ConfigIds : Active(id)' =>
              \/ Active(id) /\ configs'[id] = configs[id]
              \/ configs'[id] \in configSeen'[id]
      BY <2>1, <2>4, <3>2 DEF Active, HasRow
    <3>4. \A x \in ConfigTasks : configJob'[x].pc = "cache" =>
              \/ configJob'[x] = configJob[x]
              \/ configJob'[x].config \in configSeen'[configJob'[x].id]
      BY <2>4, <3>2 DEF ConfigJobsOK, ConfigJob
    <3> QED
      BY <1>0, <2>2, <3>1, <3>3, <3>4, ConfigsFreshStep
  <2> QED
    BY <1>6, <2>3, <2>4
       DEF UpdateRow, ReviveRow, InsertRow, StoreConfig, ConfigGoto, ConfigReply
<1>7. CASE CacheConfig(t) \/ UncacheConfig(t)
  <2>1. UNCHANGED <<now, configs, deletedAt, configSeen>>
    BY <1>7 DEF CacheConfig, UncacheConfig, tables, history
  <2>2. \A x \in ConfigTasks : configJob'[x].pc = "cache" => configJob'[x] = configJob[x]
    BY <1>7 DEF CacheConfig, UncacheConfig, ConfigReply, IdleConfigJob, ConfigJobsOK
  <2>3. \A p \in Procs, id \in ConfigIds :
              configCache'[p][id] \in {None, configCache[p][id]} \cup configSeen[id]
    <3>1. CASE CacheConfig(t)
      <4>1. configJob[t].config \in configSeen[configJob[t].id]
        BY <3>1 DEF CacheConfig, ConfigsFresh
      <4> QED
        BY <3>1, <4>1 DEF CacheConfig, CachePut
    <3>2. CASE UncacheConfig(t)
      BY <3>2 DEF UncacheConfig, CachePop
    <3> QED
      BY <1>7, <3>1, <3>2
  <2> QED
    BY <1>0, <2>1, <2>2, <2>3, ConfigsFreshStep DEF Active, HasRow
<1> QED
  BY <1>1, <1>3, <1>4, <1>5, <1>6, <1>7 DEF ConfigNext, ConfigStep

\* Where a read goes next: never straight to the caching of a row.
LEMMA ReadContinues ==
    ASSUME TypeOK, NEW r \in ReadTasks,
           \/ ReadRequest(r) \/ ReadReply(r)
           \/ \E c : HaveConfig(r, c)
           \/ \E s : HaveSource(r, s)
    PROVE  \A x \in ReadTasks :
              readJob'[x].pc \in {"fill", "fillSource"} => readJob'[x] = readJob[x]
<1>1. readJob \in [ReadTasks -> ReadJob]
  BY DEF TypeOK, ReadJobsOK
<1>2. ASSUME NEW job, readJob' = [readJob EXCEPT ![r] = job],
             job.pc \notin {"fill", "fillSource"}
      PROVE  \A x \in ReadTasks :
              readJob'[x].pc \in {"fill", "fillSource"} => readJob'[x] = readJob[x]
  BY <1>1, <1>2
<1>3. IdleReadJob.pc = "idle"
  BY DEF IdleReadJob
<1>4. \A op, todo : [IdleReadJob EXCEPT !.pc = "sources", !.op = op, !.todo = todo].pc = "sources"
  BY DEF IdleReadJob
<1>5. CASE ReadReply(r)
  BY <1>2, <1>3, <1>5 DEF ReadReply
<1>6. ASSUME NEW op, NEW todo,
             readJob' = [readJob EXCEPT
                ![r] = [IdleReadJob EXCEPT !.pc = "sources", !.op = op, !.todo = todo]]
      PROVE  \A x \in ReadTasks :
              readJob'[x].pc \in {"fill", "fillSource"} => readJob'[x] = readJob[x]
  <2> DEFINE next == [IdleReadJob EXCEPT !.pc = "sources", !.op = op, !.todo = todo]
  <2>1. next.pc = "sources"
    BY <1>4
  <2>2. readJob' = [readJob EXCEPT ![r] = next]
    BY <1>6
  <2> HIDE DEF next
  <2> QED
    BY <1>2, <2>1, <2>2
<1>7. ASSUME NEW c, HaveConfig(r, c)
      PROVE  \A x \in ReadTasks :
              readJob'[x].pc \in {"fill", "fillSource"} => readJob'[x] = readJob[x]
  BY <1>5, <1>6, <1>7, Zenon DEF HaveConfig
<1>8. ASSUME NEW s, HaveSource(r, s)
      PROVE  \A x \in ReadTasks :
              readJob'[x].pc \in {"fill", "fillSource"} => readJob'[x] = readJob[x]
  BY <1>5, <1>6, <1>8, Zenon DEF HaveSource
<1>9. ASSUME NEW id, NEW op, BeginRead(r, [IdleReadJob EXCEPT !.pc = "config", !.op = op, !.id = id])
      PROVE  \A x \in ReadTasks :
              readJob'[x].pc \in {"fill", "fillSource"} => readJob'[x] = readJob[x]
  <2> DEFINE next == [IdleReadJob EXCEPT !.pc = "config", !.op = op, !.id = id]
  <2>1. next.pc = "config"
    BY DEF IdleReadJob
  <2>2. readJob' = [readJob EXCEPT ![r] = next]
    BY <1>9 DEF BeginRead
  <2> HIDE DEF next
  <2> QED
    BY <1>2, <2>1, <2>2
<1>10. CASE ReadRequest(r)
  BY <1>6, <1>9, <1>10, Zenon
     DEF ReadRequest, BeginGetConfig, BeginGetAgent, BeginGetSource, BeginRead
<1> QED
  BY <1>5, <1>7, <1>8, <1>10

\* Readers.
LEMMA ConfigReadsFresh ==
    ASSUME TypeOK, TypeOK', ConfigsFresh, NEW r \in ReadTasks, ReadNext(r)
    PROVE  ConfigsFresh'
<1> USE DEF TypeOK, TablesTypeOK
<1>1. UNCHANGED <<now, configs, deletedAt, configSeen, configJob>>
  BY DEF ReadNext, ReadRequest, ReadStep, BeginGetConfig, BeginGetAgent, BeginGetSource,
         BeginRead, LookupConfig, SelectConfig, FillConfig, LookupSource, SelectSource,
         FillSource, sharedVars, tables, history
<1>2. ASSUME \A p \in Procs, id \in ConfigIds :
                configCache'[p][id] \in {None, configCache[p][id]} \cup configSeen[id],
             \A x \in ReadTasks : readJob'[x].pc = "fill" =>
                \/ readJob'[x] = readJob[x]
                \/ readJob'[x].config \in configSeen[readJob'[x].id]
      PROVE  ConfigsFresh'
  BY <1>1, <1>2, ConfigsFreshStep DEF Active, HasRow
<1>3. CASE ReadRequest(r) \/ LookupConfig(r) \/ LookupSource(r) \/ SelectSource(r)
  <2>1. configCache' = configCache
    BY <1>3 DEF ReadRequest, BeginGetConfig, BeginGetAgent, BeginGetSource, BeginRead,
           LookupConfig, LookupSource, SelectSource, sharedVars, caches
  <2>2. CASE ReadRequest(r) \/ ReadReply(r)
                \/ (\E c : HaveConfig(r, c)) \/ (\E s : HaveSource(r, s))
    BY <1>2, <2>1, <2>2, ReadContinues
  <2>3. CASE LookupConfig(r) /\ readJob' = [readJob EXCEPT ![r].pc = "select", ![r].at = now]
    BY <1>2, <2>1, <2>3 DEF ReadJobsOK, ReadJob
  <2>4. ASSUME NEW s, readJob' = [readJob EXCEPT
                   ![r].pc = "selectSource", ![r].source = s, ![r].at = now]
        PROVE  ConfigsFresh'
    BY <1>2, <2>1, <2>4 DEF ReadJobsOK, ReadJob
  <2>5. ASSUME NEW row, readJob' = [readJob EXCEPT ![r].pc = "fillSource", ![r].row = row]
        PROVE  ConfigsFresh'
    BY <1>2, <2>1, <2>5 DEF ReadJobsOK, ReadJob
  <2> QED
    BY <1>3, <2>2, <2>3, <2>4, <2>5, Zenon DEF LookupConfig, LookupSource, SelectSource
<1>4. CASE SelectConfig(r)
  <2>1. configCache' = configCache
    BY <1>4 DEF SelectConfig, sharedVars, caches
  <2>2. CASE ReadReply(r)
    BY <1>2, <2>1, <2>2, ReadContinues
  <2>3. CASE /\ Active(readJob[r].id)
             /\ readJob' = [readJob EXCEPT ![r].pc = "fill",
                                           ![r].config = configs[readJob[r].id]]
    <3>1. readJob[r].id \in ConfigIds
      BY <1>4 DEF SelectConfig, ReadAt, ReadJobsOK, ReadLocals
    <3>2. configs[readJob[r].id] \in configSeen[readJob[r].id]
      BY <2>3, <3>1 DEF ConfigsFresh
    <3> QED
      BY <1>2, <2>1, <2>3, <3>2 DEF ReadJobsOK, ReadJob
  <2> QED
    BY <1>4, <2>2, <2>3 DEF SelectConfig
<1>5. CASE FillConfig(r)
  <2>1. \A p \in Procs, id \in ConfigIds :
                configCache'[p][id] \in {None, configCache[p][id]} \cup configSeen[id]
    <3>1. readJob[r].at = now => readJob[r].config \in configSeen[readJob[r].id]
      BY <1>5 DEF FillConfig, ConfigsFresh
    <3> QED
      BY <1>5, <3>1 DEF FillConfig, CachePut
  <2>2. HaveConfig(r, readJob[r].config)
    BY <1>5 DEF FillConfig
  <2> QED
    BY <1>2, <2>1, <2>2, ReadContinues
<1>6. CASE FillSource(r)
  <2>1. configCache' = configCache /\ HaveSource(r, readJob[r].source)
    BY <1>6 DEF FillSource
  <2> QED
    BY <1>2, <2>1, ReadContinues
<1> QED
  BY <1>3, <1>4, <1>5, <1>6 DEF ReadNext, ReadStep

\* The clock: what a cache may hold in the new bucket starts from the visible
\* rows and the writes in flight; reads in flight hold keys of the old one.
LEMMA ConfigsFreshTick ==
    ASSUME TypeOK, TimesTaken, ConfigsFresh, Tick
    PROVE  ConfigsFresh'
<1>1. UNCHANGED <<configs, deletedAt, configJob, readJob>> /\ now' = now + 1 /\ now \in Int
  BY TablesAssumption DEF Tick, tables, jobs, TypeOK, TablesTypeOK, Time
<1>2. CachedConfigFresh'
  BY DEF Tick, CachedConfigFresh
<1>3. \A id \in ConfigIds : Active(id)' => configs'[id] \in configSeen'[id]
  BY <1>1 DEF Tick, VisibleConfig, Active, HasRow
<1>4. ASSUME NEW t \in ConfigTasks, ConfigAt(t, "cache")'
      PROVE  configJob'[t].config \in configSeen'[configJob'[t].id]
  <2>1. configJob[t].id \in ConfigIds
    BY <1>1, <1>4 DEF ConfigAt, TypeOK, ConfigJobsOK, ConfigLocals
  <2>2. configJob[t].config \in WritingConfig(configJob[t].id)
    BY <1>1, <1>4 DEF ConfigAt, WritingConfig
  <2> QED
    BY <1>1, <2>1, <2>2 DEF Tick
<1>5. \A r \in ReadTasks : readJob'[r].at # now'
  <2>1. \A r \in ReadTasks : readJob[r].at \in Int /\ readJob[r].at <= now
    BY DEF TypeOK, ReadJobsOK, ReadJob, TimesTaken, Time
  <2> QED
    BY <1>1, <2>1
<1> QED
  BY <1>2, <1>3, <1>4, <1>5 DEF ConfigsFresh

\* A configuration in a cache was in the table, or being written to it, in the
\* current bucket (ConfigsFresh): db/agentic_configs.py _cache_key.
THEOREM ConfigsAreFresh == Spec => []ConfigsFresh
<1>1. Init => ConfigsFresh
  BY DEF Init, TablesInit, ConfigsFresh, CachedConfigFresh, Active, HasRow, ConfigAt,
         ReadAt, IdleConfigJob, IdleReadJob
<1>2. ASSUME TypeOK, TypeOK', TimesTaken, ConfigsFresh, [Next]_vars PROVE ConfigsFresh'
  <2>1. CASE \E t \in ConfigTasks : ConfigNext(t)
    BY <1>2, <2>1, ConfigWritesFresh
  <2>2. CASE \E r \in ReadTasks : ReadNext(r)
    BY <1>2, <2>2, ConfigReadsFresh
  <2>3. ASSUME UNCHANGED <<now, configs, deletedAt, configCache, configSeen, configJob, readJob>>
        PROVE  ConfigsFresh'
    BY <1>2, <2>3, ConfigsFreshStep DEF Active, HasRow
  <2>4. CASE \E u \in SourceTasks : SourceNext(u)
    <3>1. UNCHANGED <<now, configs, deletedAt, configCache, configSeen, configJob, readJob>>
      BY <2>4 DEF SourceNext, SourceRequest, SourceStep, BeginCreateSource,
           BeginPatchSource, BeginDeleteSource, BeginSourceJob, SourceExists, InsertSource,
           UpdateSource, CacheSource, CheckInUse, RemoveSource, UncacheSource, sharedVars,
           tables, caches, history
    <3> QED
      BY <2>3, <3>1
  <2>5. CASE Tick
    BY <1>2, <2>5, ConfigsFreshTick
  <2>6. CASE \E p \in Procs, id \in ConfigIds : EvictConfig(p, id)
    <3>1. UNCHANGED <<now, configs, deletedAt, configSeen, configJob, readJob>>
      BY <2>6 DEF EvictConfig, tables, history, jobs
    <3>2. \A p \in Procs, id \in ConfigIds :
              configCache'[p][id] \in {None, configCache[p][id]} \cup configSeen[id]
      BY <1>2, <2>6 DEF EvictConfig, CachePop, TypeOK, TablesTypeOK
    <3> QED
      BY <1>2, <3>1, <3>2, ConfigsFreshStep DEF Active, HasRow
  <2>7. CASE \E p \in Procs, s \in SourceIds : EvictSource(p, s)
    BY <2>3, <2>7 DEF EvictSource, tables, history, jobs
  <2>8. CASE \E p \in Procs : Restart(p)
    <3>1. UNCHANGED <<now, configs, deletedAt, configSeen>>
      BY <2>8 DEF Restart, tables, history
    <3>2. \A p \in Procs, id \in ConfigIds :
              configCache'[p][id] \in {None, configCache[p][id]} \cup configSeen[id]
      BY <1>2, <2>8 DEF Restart, TypeOK, TablesTypeOK
    <3>3. \A x \in ConfigTasks : configJob'[x].pc = "cache" => configJob'[x] = configJob[x]
      BY <2>8 DEF Restart, IdleConfigJob
    <3>4. \A x \in ReadTasks : readJob'[x].pc = "fill" => readJob'[x] = readJob[x]
      BY <2>8 DEF Restart, IdleReadJob
    <3> QED
      BY <1>2, <3>1, <3>2, <3>3, <3>4, ConfigsFreshStep DEF Active, HasRow
  <2>9. CASE UNCHANGED vars
    BY <2>3, <2>9 DEF vars, sharedVars, tables, caches, history
  <2> QED
    BY <1>2, <2>1, <2>2, <2>4, <2>5, <2>6, <2>7, <2>8, <2>9 DEF Next
<1> QED
  BY <1>1, <1>2, TypeCorrect, TimesBehindClock, PTL DEF Spec

\* What get_agentic_config answers from a cache is at most a bucket old
\* (CachedConfigFresh).
THEOREM CachedConfigsFresh == Spec => []CachedConfigFresh
<1>1. ConfigsFresh => CachedConfigFresh
  BY DEF ConfigsFresh
<1> QED
  BY <1>1, ConfigsAreFresh, PTL

---------------------------------------------------------------------------
\* A step within a bucket keeps SourcesFresh when whatever it puts in a cache,
\* a row or the locals of a coroutine has been seen.
LEMMA SourcesFreshStep ==
    ASSUME TypeOK, TypeOK', SourcesFresh,
           now' = now,
           \A s \in SourceIds : sourceSeen[s] \subseteq sourceSeen'[s],
           \A p \in Procs, s \in SourceIds :
              sourceCache'[p][s] \in {None, sourceCache[p][s]} \cup sourceSeen[s],
           \A s \in SourceIds : sources'[s] # None =>
              sources'[s] = sources[s] \/ sources'[s] \in sourceSeen'[s],
           \A x \in SourceTasks : sourceJob'[x].pc = "cache" =>
              \/ sourceJob'[x] = sourceJob[x]
              \/ sourceJob'[x].source \in sourceSeen'[sourceJob'[x].id],
           \A x \in ReadTasks : readJob'[x].pc = "fillSource" =>
              \/ readJob'[x] = readJob[x]
              \/ readJob'[x].row \in sourceSeen[readJob'[x].source]
    PROVE  SourcesFresh'
<1>1. CachedSourceFresh'
  BY DEF SourcesFresh, CachedSourceFresh
<1>2. \A s \in SourceIds : sources'[s] # None => sources'[s] \in sourceSeen'[s]
  BY DEF SourcesFresh
<1>3. ASSUME NEW u \in SourceTasks, sourceJob'[u].pc = "cache"
      PROVE  sourceJob'[u].source \in sourceSeen'[sourceJob'[u].id]
  <2>1. sourceJob'[u].id \in SourceIds
    BY <1>3 DEF TypeOK, SourceJobsOK, SourceLocals
  <2> QED
    BY <1>3, <2>1 DEF SourcesFresh, SourceAt
<1>4. ASSUME NEW r \in ReadTasks, readJob'[r].pc = "fillSource", readJob'[r].at = now'
      PROVE  readJob'[r].row \in sourceSeen'[readJob'[r].source]
  <2>1. readJob'[r].source \in SourceIds
    BY <1>4 DEF TypeOK, ReadJobsOK, ReadLocals
  <2> QED
    BY <1>4, <2>1 DEF SourcesFresh, ReadAt
<1> QED
  BY <1>1, <1>2, <1>3, <1>4 DEF SourcesFresh, SourceAt, ReadAt

\* Writers.
LEMMA SourceWritesFresh ==
    ASSUME TypeOK, TypeOK', SourcesFresh, NEW u \in SourceTasks, SourceNext(u)
    PROVE  SourcesFresh'
<1> USE DEF TypeOK, TablesTypeOK
<1>0. readJob' = readJob
  BY DEF SourceNext
<1>goto. ASSUME NEW pc, SourceGoto(u, pc), pc # "cache"
      PROVE  \A x \in SourceTasks : sourceJob'[x].pc = "cache" => sourceJob'[x] = sourceJob[x]
  BY <1>goto DEF SourceGoto, SourceJobsOK, SourceJob
<1>reply. ASSUME SourceReply(u)
      PROVE  \A x \in SourceTasks : sourceJob'[x].pc = "cache" => sourceJob'[x] = sourceJob[x]
  BY <1>reply DEF SourceReply, IdleSourceJob, SourceJobsOK, SourceJob
<1>1. ASSUME sourceSeen' = sourceSeen, UNCHANGED <<now, sourceCache>>,
             \A s \in SourceIds : sources'[s] # None => sources'[s] = sources[s],
             \A x \in SourceTasks : sourceJob'[x].pc = "cache" => sourceJob'[x] = sourceJob[x]
      PROVE  SourcesFresh'
  BY <1>0, <1>1, SourcesFreshStep
<1>2. CASE SourceRequest(u)
  <2>1. UNCHANGED sharedVars
    BY <1>2 DEF SourceRequest, BeginCreateSource, BeginPatchSource, BeginDeleteSource,
           BeginSourceJob
  <2>2. \A x \in SourceTasks : sourceJob'[x].pc = "cache" => sourceJob'[x] = sourceJob[x]
    BY <1>2 DEF SourceRequest, BeginCreateSource, BeginPatchSource, BeginDeleteSource,
           BeginSourceJob, SourceJobsOK
  <2> QED
    BY <1>1, <2>1, <2>2 DEF sharedVars, tables, caches, history
<1>3. CASE SourceExists(u)
  BY <1>1, <1>goto, <1>reply, <1>3 DEF SourceExists, sharedVars, tables, caches, history
<1>4. CASE CheckInUse(u)
  BY <1>1, <1>goto, <1>reply, <1>4 DEF CheckInUse, tables, caches
<1>5. CASE RemoveSource(u)
  <2>1. \A s \in SourceIds : sources'[s] # None => sources'[s] = sources[s]
    BY <1>5 DEF RemoveSource
  <2> QED
    BY <1>1, <1>goto, <1>reply, <1>5, <2>1 DEF RemoveSource, caches
<1>6. CASE CacheSource(u) \/ UncacheSource(u)
  <2>1. UNCHANGED <<now, sources, sourceSeen>> /\ SourceReply(u)
    BY <1>6 DEF CacheSource, UncacheSource, tables, history
  <2>2. \A p \in Procs, s \in SourceIds :
              sourceCache'[p][s] \in {None, sourceCache[p][s]} \cup sourceSeen[s]
    <3>1. CASE CacheSource(u)
      <4>1. sourceJob[u].source \in sourceSeen[sourceJob[u].id]
        BY <3>1 DEF CacheSource, SourcesFresh
      <4> QED
        BY <3>1, <4>1 DEF CacheSource, CachePut
    <3>2. CASE UncacheSource(u)
      BY <3>2 DEF UncacheSource, CachePop
    <3> QED
      BY <1>6, <3>1, <3>2
  <2> QED
    BY <1>0, <1>reply, <2>1, <2>2, SourcesFreshStep
<1>7. ASSUME NEW s \in SourceIds, NEW v, NEW secret, StoreSource(s, v, secret),
             UNCHANGED <<now, caches>>,
             \A x \in SourceTasks : sourceJob'[x].pc = "cache" =>
                \/ sourceJob'[x] = sourceJob[x]
                \/ sourceJob'[x].id = s /\ sourceJob'[x].source = v
      PROVE  SourcesFresh'
  <2>1. v \in sourceSeen'[s] /\ \A k \in SourceIds : sourceSeen[k] \subseteq sourceSeen'[k]
    BY <1>7 DEF StoreSource
  <2>2. \A k \in SourceIds : sources'[k] # None =>
              sources'[k] = sources[k] \/ sources'[k] \in sourceSeen'[k]
    BY <1>7, <2>1 DEF StoreSource
  <2> QED
    BY <1>0, <1>7, <2>1, <2>2, SourcesFreshStep DEF caches
<1>8. CASE InsertSource(u)
  <2>1. sourceJob[u].id \in SourceIds /\ sourceJob \in [SourceTasks -> SourceJob]
    BY <1>8 DEF InsertSource, SourceAt, SourceJobsOK, SourceLocals
  <2>2. CASE SourceReply(u) /\ UNCHANGED <<sources, sourceSeen>>
    BY <1>1, <1>reply, <1>8, <2>2 DEF InsertSource, caches
  <2>3. CASE /\ StoreSource(sourceJob[u].id, sourceJob[u].source, sourceJob[u].source.secret)
             /\ SourceGoto(u, "cache")
    <3>1. ASSUME NEW x \in SourceTasks, sourceJob'[x].pc = "cache"
          PROVE  \/ sourceJob'[x] = sourceJob[x]
                 \/ sourceJob'[x].id = sourceJob[u].id /\ sourceJob'[x].source = sourceJob[u].source
      BY <2>1, <2>3 DEF SourceGoto, SourceJob
    <3> QED
      BY <1>7, <1>8, <2>1, <2>3, <3>1, ZenonT(30) DEF InsertSource, caches
  <2> QED
    BY <1>8, <2>2, <2>3 DEF InsertSource
<1>9. CASE UpdateSource(u)
  <2>1. sourceJob[u].id \in SourceIds /\ sourceJob \in [SourceTasks -> SourceJob]
    BY <1>9 DEF UpdateSource, SourceAt, SourceJobsOK, SourceLocals
  <2>2. CASE SourceReply(u) /\ UNCHANGED <<sources, sourceSeen>>
    BY <1>1, <1>reply, <1>9, <2>2 DEF UpdateSource, caches
  <2>3. ASSUME NEW secret, StoreSource(sourceJob[u].id, Patched(u), secret),
               sourceJob' = [sourceJob EXCEPT ![u] =
                  [pc |-> "cache", id |-> @.id, source |-> Patched(u), keep |-> @.keep]]
        PROVE  SourcesFresh'
    <3>1. ASSUME NEW x \in SourceTasks, sourceJob'[x].pc = "cache"
          PROVE  \/ sourceJob'[x] = sourceJob[x]
                 \/ sourceJob'[x].id = sourceJob[u].id /\ sourceJob'[x].source = Patched(u)
      BY <2>1, <2>3
    <3> QED
      BY <1>7, <1>9, <2>1, <2>3, <3>1 DEF UpdateSource, caches
  <2> QED
    BY <1>9, <2>2, <2>3 DEF UpdateSource
<1> QED
  BY <1>2, <1>3, <1>4, <1>5, <1>6, <1>8, <1>9 DEF SourceNext, SourceStep

\* Readers.
LEMMA SourceReadsFresh ==
    ASSUME TypeOK, TypeOK', SourcesFresh, NEW r \in ReadTasks, ReadNext(r)
    PROVE  SourcesFresh'
<1> USE DEF TypeOK, TablesTypeOK
<1>1. UNCHANGED <<now, sources, sourceSeen, sourceJob>>
  BY DEF ReadNext, ReadRequest, ReadStep, BeginGetConfig, BeginGetAgent, BeginGetSource,
         BeginRead, LookupConfig, SelectConfig, FillConfig, LookupSource, SelectSource,
         FillSource, sharedVars, tables, history
<1>2. ASSUME \A p \in Procs, s \in SourceIds :
                sourceCache'[p][s] \in {None, sourceCache[p][s]} \cup sourceSeen[s],
             \A x \in ReadTasks : readJob'[x].pc = "fillSource" =>
                \/ readJob'[x] = readJob[x]
                \/ readJob'[x].row \in sourceSeen[readJob'[x].source]
      PROVE  SourcesFresh'
  BY <1>1, <1>2, SourcesFreshStep
<1>3. CASE ReadRequest(r) \/ LookupConfig(r) \/ SelectConfig(r) \/ FillConfig(r)
              \/ LookupSource(r)
  <2>1. sourceCache' = sourceCache
    BY <1>3 DEF ReadRequest, BeginGetConfig, BeginGetAgent, BeginGetSource, BeginRead,
           LookupConfig, SelectConfig, FillConfig, LookupSource, sharedVars, caches
  <2>2. CASE ReadRequest(r) \/ ReadReply(r)
                \/ (\E c : HaveConfig(r, c)) \/ (\E s : HaveSource(r, s))
    BY <1>2, <2>1, <2>2, ReadContinues
  <2>3. CASE readJob' = [readJob EXCEPT ![r].pc = "select", ![r].at = now]
    BY <1>2, <2>1, <2>3 DEF ReadJobsOK, ReadJob
  <2>4. ASSUME NEW c, readJob' = [readJob EXCEPT ![r].pc = "fill", ![r].config = c]
        PROVE  SourcesFresh'
    BY <1>2, <2>1, <2>4 DEF ReadJobsOK, ReadJob
  <2>5. ASSUME NEW s, readJob' = [readJob EXCEPT
                   ![r].pc = "selectSource", ![r].source = s, ![r].at = now]
        PROVE  SourcesFresh'
    BY <1>2, <2>1, <2>5 DEF ReadJobsOK, ReadJob
  <2> QED
    BY <1>3, <2>2, <2>3, <2>4, <2>5, Zenon
       DEF LookupConfig, SelectConfig, FillConfig, LookupSource
<1>4. CASE SelectSource(r)
  <2>1. sourceCache' = sourceCache
    BY <1>4 DEF SelectSource, sharedVars, caches
  <2>2. CASE ReadReply(r)
    BY <1>2, <2>1, <2>2, ReadContinues
  <2>3. CASE /\ sources[readJob[r].source] # None
             /\ readJob' = [readJob EXCEPT ![r].pc = "fillSource",
                                           ![r].row = sources[readJob[r].source]]
    <3>1. readJob[r].source \in SourceIds
      BY <1>4 DEF SelectSource, ReadAt, ReadJobsOK, ReadLocals
    <3>2. sources[readJob[r].source] \in sourceSeen[readJob[r].source]
      BY <2>3, <3>1 DEF SourcesFresh
    <3> QED
      BY <1>2, <2>1, <2>3, <3>2 DEF ReadJobsOK, ReadJob
  <2> QED
    BY <1>4, <2>2, <2>3 DEF SelectSource
<1>5. CASE FillSource(r)
  <2>1. \A p \in Procs, s \in SourceIds :
                sourceCache'[p][s] \in {None, sourceCache[p][s]} \cup sourceSeen[s]
    <3>1. readJob[r].at = now => readJob[r].row \in sourceSeen[readJob[r].source]
      BY <1>5 DEF FillSource, SourcesFresh
    <3> QED
      BY <1>5, <3>1 DEF FillSource, CachePut
  <2>2. HaveSource(r, readJob[r].source)
    BY <1>5 DEF FillSource
  <2> QED
    BY <1>2, <2>1, <2>2, ReadContinues
<1> QED
  BY <1>3, <1>4, <1>5 DEF ReadNext, ReadStep

\* The clock.
LEMMA SourcesFreshTick ==
    ASSUME TypeOK, TimesTaken, SourcesFresh, Tick
    PROVE  SourcesFresh'
<1>1. UNCHANGED <<sources, sourceJob, readJob>> /\ now' = now + 1 /\ now \in Int
  BY TablesAssumption DEF Tick, tables, jobs, TypeOK, TablesTypeOK, Time
<1>2. CachedSourceFresh'
  BY DEF Tick, CachedSourceFresh
<1>3. \A s \in SourceIds : sources'[s] # None => sources'[s] \in sourceSeen'[s]
  BY <1>1 DEF Tick, VisibleSource
<1>4. ASSUME NEW u \in SourceTasks, SourceAt(u, "cache")'
      PROVE  sourceJob'[u].source \in sourceSeen'[sourceJob'[u].id]
  <2>1. sourceJob[u].id \in SourceIds
    BY <1>1, <1>4 DEF SourceAt, TypeOK, SourceJobsOK, SourceLocals
  <2>2. sourceJob[u].source \in WritingSource(sourceJob[u].id)
    BY <1>1, <1>4 DEF SourceAt, WritingSource
  <2> QED
    BY <1>1, <2>1, <2>2 DEF Tick
<1>5. \A r \in ReadTasks : readJob'[r].at # now'
  <2>1. \A r \in ReadTasks : readJob[r].at \in Int /\ readJob[r].at <= now
    BY DEF TypeOK, ReadJobsOK, ReadJob, TimesTaken, Time
  <2> QED
    BY <1>1, <2>1
<1> QED
  BY <1>2, <1>3, <1>4, <1>5 DEF SourcesFresh

\* A source in a cache was in the table, or being written to it, in the current
\* bucket (SourcesFresh): db/sources.py _cache_key.
THEOREM SourcesAreFresh == Spec => []SourcesFresh
<1>1. Init => SourcesFresh
  BY DEF Init, TablesInit, SourcesFresh, CachedSourceFresh, SourceAt, ReadAt,
         IdleSourceJob, IdleReadJob
<1>2. ASSUME TypeOK, TypeOK', TimesTaken, SourcesFresh, [Next]_vars PROVE SourcesFresh'
  <2>1. CASE \E u \in SourceTasks : SourceNext(u)
    BY <1>2, <2>1, SourceWritesFresh
  <2>2. CASE \E r \in ReadTasks : ReadNext(r)
    BY <1>2, <2>2, SourceReadsFresh
  <2>3. ASSUME UNCHANGED <<now, sources, sourceCache, sourceSeen, sourceJob, readJob>>
        PROVE  SourcesFresh'
    BY <1>2, <2>3, SourcesFreshStep
  <2>4. CASE \E t \in ConfigTasks : ConfigNext(t)
    <3>1. UNCHANGED <<now, sources, sourceCache, sourceSeen, sourceJob, readJob>>
      BY <2>4 DEF ConfigNext, ConfigRequest, ConfigStep, BeginCreate, BeginPatch,
           BeginDelete, BeginPurge, BeginConfigJob, ValidateSources, UpdateRow, LookupRow,
           ReviveRow, InsertRow, CacheConfig, DeleteRow, UncacheConfig, CountExpired,
           PurgeExpired, sharedVars, tables, caches, history
    <3> QED
      BY <2>3, <3>1
  <2>5. CASE Tick
    BY <1>2, <2>5, SourcesFreshTick
  <2>6. CASE \E p \in Procs, s \in SourceIds : EvictSource(p, s)
    <3>1. UNCHANGED <<now, sources, sourceSeen, sourceJob, readJob>>
      BY <2>6 DEF EvictSource, tables, history, jobs
    <3>2. \A p \in Procs, s \in SourceIds :
              sourceCache'[p][s] \in {None, sourceCache[p][s]} \cup sourceSeen[s]
      BY <1>2, <2>6 DEF EvictSource, CachePop, TypeOK, TablesTypeOK
    <3> QED
      BY <1>2, <3>1, <3>2, SourcesFreshStep
  <2>7. CASE \E p \in Procs, id \in ConfigIds : EvictConfig(p, id)
    BY <2>3, <2>7 DEF EvictConfig, tables, history, jobs
  <2>8. CASE \E p \in Procs : Restart(p)
    <3>1. UNCHANGED <<now, sources, sourceSeen>>
      BY <2>8 DEF Restart, tables, history
    <3>2. \A p \in Procs, s \in SourceIds :
              sourceCache'[p][s] \in {None, sourceCache[p][s]} \cup sourceSeen[s]
      BY <1>2, <2>8 DEF Restart, TypeOK, TablesTypeOK
    <3>3. \A x \in SourceTasks : sourceJob'[x].pc = "cache" => sourceJob'[x] = sourceJob[x]
      BY <2>8 DEF Restart, IdleSourceJob
    <3>4. \A x \in ReadTasks : readJob'[x].pc = "fillSource" => readJob'[x] = readJob[x]
      BY <2>8 DEF Restart, IdleReadJob
    <3> QED
      BY <1>2, <3>1, <3>2, <3>3, <3>4, SourcesFreshStep
  <2>9. CASE UNCHANGED vars
    BY <2>3, <2>9 DEF vars, sharedVars, tables, caches, history
  <2> QED
    BY <1>2, <2>1, <2>2, <2>4, <2>5, <2>6, <2>7, <2>8, <2>9 DEF Next
<1> QED
  BY <1>1, <1>2, TypeCorrect, TimesBehindClock, PTL DEF Spec

\* What get_source answers from a cache is at most a bucket old
\* (CachedSourceFresh).
THEOREM CachedSourcesFresh == Spec => []CachedSourceFresh
<1>1. SourcesFresh => CachedSourceFresh
  BY DEF SourcesFresh
<1> QED
  BY <1>1, SourcesAreFresh, PTL

---------------------------------------------------------------------------
\* The secret of a stored MCP source is the one last set explicitly
\* (StoredSecretIsLastSet): the UPDATE of patch_source takes client_secret from
\* the row itself when the payload leaves it out.
THEOREM SecretsKept == Spec => []StoredSecretIsLastSet
<1> USE DEF StoredSecretIsLastSet
<1>1. Init => StoredSecretIsLastSet
  BY DEF Init, TablesInit
<1>2. ASSUME TypeOK, StoredSecretIsLastSet, [Next]_vars PROVE StoredSecretIsLastSet'
  <2>1. ASSUME NEW u \in SourceTasks, SourceNext(u) PROVE StoredSecretIsLastSet'
    <3> USE <1>2 DEF TypeOK, TablesTypeOK
    <3>1. ASSUME NEW s \in SourceIds, NEW v, NEW secret, StoreSource(s, v, secret),
                 v.secret = secret
          PROVE  StoredSecretIsLastSet'
      BY <3>1 DEF StoreSource
    <3>2. CASE UNCHANGED <<sources, lastSecret>>
      BY <3>2
    <3>3. CASE InsertSource(u)
      BY <3>1, <3>2, <3>3 DEF InsertSource, SourceAt, SourceJobsOK, SourceLocals
    <3>4. CASE UpdateSource(u)
      <4>1. sourceJob[u].id \in SourceIds
        BY <3>4 DEF UpdateSource, SourceAt, SourceJobsOK, SourceLocals
      <4>2. sources[sourceJob[u].id] # None => Patched(u).secret =
               IF sourceJob[u].keep THEN lastSecret[sourceJob[u].id]
                                    ELSE sourceJob[u].source.secret
        BY <4>1 DEF Patched
      <4> QED
        BY <3>1, <3>2, <3>4, <4>1, <4>2 DEF UpdateSource
    <3>5. CASE RemoveSource(u)
      BY <3>5 DEF RemoveSource
    <3> QED
      BY <2>1, <3>2, <3>3, <3>4, <3>5 DEF SourceNext, SourceRequest, SourceStep,
         BeginCreateSource, BeginPatchSource, BeginDeleteSource, BeginSourceJob, SourceExists,
         CacheSource, CheckInUse, UncacheSource, sharedVars, tables, history
  <2>2. CASE UNCHANGED <<sources, lastSecret>>
    BY <1>2, <2>2
  <2>3. CASE \/ \E t \in ConfigTasks : ConfigNext(t)
             \/ \E r \in ReadTasks : ReadNext(r)
    BY <2>2, <2>3, ZenonT(30) DEF ConfigNext, ConfigRequest, ConfigStep, BeginCreate, BeginPatch,
         BeginDelete, BeginPurge, BeginConfigJob, ValidateSources, UpdateRow, LookupRow,
         ReviveRow, InsertRow, CacheConfig, DeleteRow, UncacheConfig, CountExpired,
         PurgeExpired, ReadNext, ReadRequest, ReadStep, BeginGetConfig, BeginGetAgent,
         BeginGetSource, BeginRead, LookupConfig, SelectConfig, FillConfig, LookupSource,
         SelectSource, FillSource, sharedVars, tables, history
  <2>4. CASE \/ Tick
             \/ \E p \in Procs, id \in ConfigIds : EvictConfig(p, id)
             \/ \E p \in Procs, s \in SourceIds : EvictSource(p, s)
             \/ \E p \in Procs : Restart(p)
             \/ UNCHANGED vars
    BY <2>2, <2>4 DEF Tick, EvictConfig, EvictSource, Restart, vars, sharedVars, tables,
         history
  <2> QED
    BY <1>2, <2>1, <2>3, <2>4 DEF Next
<1> QED
  BY <1>1, <1>2, TypeCorrect, PTL DEF Spec

---------------------------------------------------------------------------
(***************************************************************************)
(* The life of a row.                                                      *)
(***************************************************************************)

\* Every step of a writer is a step of the lifecycle, or leaves it unchanged.
LEMMA ConfigStepsLifecycle ==
    ASSUME TypeOK, TimesTaken, NEW t \in ConfigTasks, ConfigNext(t)
    PROVE  [Lifecycle!Next]_Lifecycle!vars
<1> USE DEF TypeOK, TablesTypeOK
<1>1. ASSUME UNCHANGED <<now, configs, deletedAt>>
      PROVE  [Lifecycle!Next]_Lifecycle!vars
  BY <1>1 DEF Lifecycle!vars
<1>2. CASE ConfigRequest(t)
  BY <1>1, <1>2 DEF ConfigRequest, BeginCreate, BeginPatch, BeginDelete, BeginPurge,
         BeginConfigJob, sharedVars, tables
<1>3. CASE \/ ValidateSources(t) \/ LookupRow(t) \/ CacheConfig(t)
           \/ UncacheConfig(t) \/ CountExpired(t)
  BY <1>1, <1>3 DEF ValidateSources, LookupRow, CacheConfig, UncacheConfig, CountExpired,
         sharedVars, tables
<1>4. CASE UpdateRow(t) \/ ReviveRow(t) \/ InsertRow(t)
  <2>1. configJob[t].id \in ConfigIds /\ configJob[t].config \in Configs
    BY <1>4 DEF UpdateRow, ReviveRow, InsertRow, ConfigAt, ConfigJobsOK, ConfigLocals
  <2>2. CASE StoreConfig(configJob[t].id, configJob[t].config)
    <3>1. Lifecycle!Store(configJob[t].id, configJob[t].config)
      BY <1>4, <2>2 DEF UpdateRow, ReviveRow, InsertRow, StoreConfig, Lifecycle!Store,
             NotDeleted, Lifecycle!NotDeleted
    <3> QED
      BY <2>1, <3>1 DEF Lifecycle!Next
  <2>3. CASE UNCHANGED <<configs, deletedAt>>
    BY <1>1, <1>4, <2>3 DEF UpdateRow, ReviveRow, InsertRow
  <2>4. StoreConfig(configJob[t].id, configJob[t].config) \/ UNCHANGED <<configs, deletedAt>>
    BY <1>4 DEF UpdateRow, ReviveRow, InsertRow
  <2> QED
    BY <2>2, <2>3, <2>4
<1>5. CASE DeleteRow(t)
  <2>1. configJob[t].id \in ConfigIds /\ configJob[t].at \in 0..now
    <3>1. configJob[t].id \in ConfigIds
      BY <1>5 DEF DeleteRow, ConfigAt, ConfigJobsOK, ConfigLocals
    <3>2. configJob[t].at \in Nat /\ now \in Nat /\ configJob[t].at <= now
      BY TablesAssumption DEF ConfigJobsOK, ConfigJob, TimesTaken, Time
    <3> QED
      BY <3>1, <3>2
  <2>2. CASE Active(configJob[t].id)
    <3>1. Lifecycle!Hide(configJob[t].id)
      BY <1>5, <2>1, <2>2 DEF DeleteRow, Active, HasRow, Lifecycle!Hide, NotDeleted,
             Lifecycle!NotDeleted
    <3> QED
      BY <2>1, <3>1 DEF Lifecycle!Next
  <2>3. CASE ~Active(configJob[t].id)
    BY <1>1, <1>5, <2>3 DEF DeleteRow
  <2> QED
    BY <2>2, <2>3
<1>6. CASE PurgeExpired(t)
  <2> DEFINE ids == {id \in ConfigIds : Expired(id, Cutoff(t))}
  <2>1. configJob[t].at \in Int /\ configJob[t].at <= now /\ now \in Int /\ Retention \in Int
    BY TablesAssumption DEF ConfigJobsOK, ConfigJob, TimesTaken, Time
  <2>2. ASSUME NEW id \in ConfigIds, Expired(id, Cutoff(t))
        PROVE  /\ configs[id] # None
               /\ deletedAt[id] # NotDeleted
               /\ deletedAt[id] + Retention < now
    <3>1. deletedAt[id] \in Int
      BY DEF Time, NotDeleted
    <3> QED
      BY <2>1, <2>2, <3>1 DEF Expired, Cutoff, HasRow
  <2>3. Lifecycle!Forget(ids)
    BY <1>6, <2>2 DEF PurgeExpired, Lifecycle!Forget, NotDeleted, Lifecycle!NotDeleted
  <2> QED
    BY <2>3 DEF Lifecycle!Next
<1> QED
  BY <1>2, <1>3, <1>4, <1>5, <1>6 DEF ConfigNext, ConfigStep

\* The table of configurations, under any number of writers, readers, purges
\* and restarts, goes through the states of ConfigLifecycle: in particular a
\* row disappears only when it has been hidden for longer than the retention.
THEOREM ImplementsLifecycle == Spec => LifecycleSpec
<1>1. Init => Lifecycle!Init
  BY DEF Init, TablesInit, Lifecycle!Init, NotDeleted, Lifecycle!NotDeleted
<1>2. ASSUME TypeOK, TimesTaken, [Next]_vars PROVE [Lifecycle!Next]_Lifecycle!vars
  <2>1. CASE \E t \in ConfigTasks : ConfigNext(t)
    BY <1>2, <2>1, ConfigStepsLifecycle
  <2>2. ASSUME UNCHANGED <<now, configs, deletedAt>>
        PROVE  [Lifecycle!Next]_Lifecycle!vars
    BY <2>2 DEF Lifecycle!vars
  <2>3. CASE \E u \in SourceTasks : SourceNext(u)
    BY <2>2, <2>3 DEF SourceNext, SourceRequest, SourceStep, BeginCreateSource,
           BeginPatchSource, BeginDeleteSource, BeginSourceJob, SourceExists, InsertSource,
           UpdateSource, CacheSource, CheckInUse, RemoveSource, UncacheSource, sharedVars,
           tables
  <2>4. CASE \E r \in ReadTasks : ReadNext(r)
    BY <2>2, <2>4 DEF ReadNext, ReadRequest, ReadStep, BeginGetConfig, BeginGetAgent,
           BeginGetSource, BeginRead, LookupConfig, SelectConfig, FillConfig, LookupSource,
           SelectSource, FillSource, sharedVars, tables
  <2>5. CASE Tick
    <3>1. Lifecycle!Tick
      BY <2>5 DEF Tick, tables, Lifecycle!Tick
    <3> QED
      BY <3>1 DEF Lifecycle!Next
  <2>6. CASE \/ \E p \in Procs, id \in ConfigIds : EvictConfig(p, id)
             \/ \E p \in Procs, s \in SourceIds : EvictSource(p, s)
             \/ \E p \in Procs : Restart(p)
             \/ UNCHANGED vars
    BY <2>2, <2>6 DEF EvictConfig, EvictSource, Restart, vars, sharedVars, tables
  <2> QED
    BY <1>2, <2>1, <2>3, <2>4, <2>5, <2>6 DEF Next
<1> QED
  BY <1>1, <1>2, TypeCorrect, TimesBehindClock, PTL DEF Spec, LifecycleSpec, Lifecycle!Spec

---------------------------------------------------------------------------
\* Only creates reach the statements that make a row visible again.
LEMMA OnCreatePath == Spec => []CreatePath
<1> USE DEF CreatePath
<1>1. Init => CreatePath
  BY DEF Init, IdleConfigJob
<1>2. ASSUME TypeOK, CreatePath, [Next]_vars PROVE CreatePath'
  <2>1. ASSUME NEW t \in ConfigTasks, ConfigNext(t) PROVE CreatePath'
    <3>1. CASE ConfigRequest(t)
      BY <1>2, <3>1 DEF ConfigRequest, BeginCreate, BeginPatch, BeginDelete, BeginPurge,
             BeginConfigJob, TypeOK, ConfigJobsOK
    <3>2. CASE ConfigStep(t)
      <4>1. configJob \in [ConfigTasks -> ConfigJob]
        BY <1>2 DEF TypeOK, ConfigJobsOK
      <4>2. ASSUME NEW pc, ConfigGoto(t, pc),
                   pc \in {"lookup", "revive", "insert"} => configJob[t].op = "create"
            PROVE  CreatePath'
        BY <1>2, <4>1, <4>2 DEF ConfigGoto, ConfigJob
      <4>3. CASE ConfigReply(t)
        BY <1>2, <4>1, <4>3 DEF ConfigReply, IdleConfigJob
      <4> QED
        BY <1>2, <3>2, <4>2, <4>3 DEF ConfigStep, ValidateSources, UpdateRow, LookupRow,
               ReviveRow, InsertRow, CacheConfig, DeleteRow, UncacheConfig, CountExpired,
               PurgeExpired, ConfigAt
    <3> QED
      BY <2>1, <3>1, <3>2 DEF ConfigNext
  <2>2. CASE \E p \in Procs : Restart(p)
    BY <1>2, <2>2 DEF Restart, IdleConfigJob
  <2>3. CASE UNCHANGED configJob
    BY <1>2, <2>3
  <2> QED
    BY <1>2, <2>1, <2>2, <2>3 DEF Next, SourceNext, ReadNext, Tick, EvictConfig,
           EvictSource, jobs, vars
<1> QED
  BY <1>1, <1>2, TypeCorrect, PTL DEF Spec

\* A row that is hidden or missing becomes visible only by the write of a
\* create (OnlyCreateRevives): a patch racing a delete does not undo it.
THEOREM OnlyCreatesRevive == Spec => OnlyCreateRevives
<1> DEFINE Step == \A id \in ConfigIds :
          ~Active(id) /\ Active(id)' =>
             \E t \in ConfigTasks : /\ configJob[t].op = "create"
                                    /\ configJob[t].id = id
                                    /\ ConfigAt(t, "cache")'
<1>1. ASSUME TypeOK, CreatePath, [Next]_vars PROVE [Step]_vars
  <2> SUFFICES ASSUME NEW id \in ConfigIds, ~Active(id), Active(id)'
               PROVE  \E t \in ConfigTasks : /\ configJob[t].op = "create"
                                             /\ configJob[t].id = id
                                             /\ ConfigAt(t, "cache")'
    OBVIOUS
  <2> USE <1>1 DEF TypeOK, TablesTypeOK
  <2>1. ASSUME NEW t \in ConfigTasks, ConfigNext(t)
        PROVE  /\ configJob[t].op = "create"
               /\ configJob[t].id = id
               /\ ConfigAt(t, "cache")'
    <3>1. CASE UNCHANGED <<configs, deletedAt>>
      BY <3>1 DEF Active, HasRow
    <3>2. CASE ReviveRow(t) \/ InsertRow(t)
      <4>1. configJob[t].op = "create"
        <5>1. configJob[t].pc \in {"lookup", "revive", "insert"}
          BY <3>2 DEF ReviveRow, InsertRow, ConfigAt
        <5> QED
          BY <5>1 DEF CreatePath
      <4>2. ConfigAt(t, "cache")'
        BY <3>2 DEF ReviveRow, InsertRow, ConfigGoto, ConfigReply, ConfigAt, ConfigJobsOK,
               ConfigJob, Active, HasRow
      <4>3. CASE StoreConfig(configJob[t].id, configJob[t].config)
        <5>1. configJob[t].id = id
          BY <4>3 DEF StoreConfig, Active, HasRow
        <5> QED
          BY <4>1, <4>2, <5>1
      <4>4. CASE UNCHANGED <<configs, deletedAt>>
        BY <3>1, <4>4
      <4> QED
        BY <3>2, <4>3, <4>4 DEF ReviveRow, InsertRow
    <3>3. CASE UpdateRow(t)
      BY <3>1, <3>3 DEF UpdateRow, StoreConfig, Active, HasRow
    <3>4. CASE DeleteRow(t)
      <4>1. configJob[t].at \in Time
        BY DEF ConfigJobsOK, ConfigJob
      <4> QED
        BY <3>4, <4>1 DEF DeleteRow, Active, HasRow, NotDeleted, Time
    <3>5. CASE PurgeExpired(t)
      BY <3>5 DEF PurgeExpired, Active, HasRow, Expired
    <3> QED
      BY <2>1, <3>1, <3>2, <3>3, <3>4, <3>5 DEF ConfigNext, ConfigRequest, ConfigStep,
             BeginCreate, BeginPatch, BeginDelete, BeginPurge, BeginConfigJob,
             ValidateSources, LookupRow, CacheConfig, UncacheConfig, CountExpired,
             sharedVars, tables
  <2>2. CASE UNCHANGED <<configs, deletedAt>>
    BY <2>2 DEF Active, HasRow
  <2>3. CASE \E u \in SourceTasks : SourceNext(u)
    BY <2>2, <2>3 DEF SourceNext, SourceRequest, SourceStep, BeginCreateSource,
           BeginPatchSource, BeginDeleteSource, BeginSourceJob, SourceExists, InsertSource,
           UpdateSource, CacheSource, CheckInUse, RemoveSource, UncacheSource, sharedVars,
           tables
  <2>4. CASE \E r \in ReadTasks : ReadNext(r)
    BY <2>2, <2>4 DEF ReadNext, ReadRequest, ReadStep, BeginGetConfig, BeginGetAgent,
           BeginGetSource, BeginRead, LookupConfig, SelectConfig, FillConfig, LookupSource,
           SelectSource, FillSource, sharedVars, tables
  <2>5. CASE \/ Tick
             \/ \E p \in Procs, k \in ConfigIds : EvictConfig(p, k)
             \/ \E p \in Procs, s \in SourceIds : EvictSource(p, s)
             \/ \E p \in Procs : Restart(p)
             \/ UNCHANGED vars
    BY <2>2, <2>5 DEF Tick, EvictConfig, EvictSource, Restart, vars, sharedVars, tables
  <2> QED
    BY <2>1, <2>3, <2>4, <2>5 DEF Next
<1> QED
  BY <1>1, TypeCorrect, OnCreatePath, PTL DEF Spec, OnlyCreateRevives

---------------------------------------------------------------------------
\* What a create or a patch is about to write names only sources that exist or
\* were deleted after its validation (WritesNameValidatedSources).
THEOREM WritesValidated == Spec => []WritesNameValidatedSources
<1> DEFINE Writing(t) == configJob[t].pc \in {"update", "lookup", "revive", "insert"}
<1>1. Init => WritesNameValidatedSources
  BY DEF Init, IdleConfigJob, WritesNameValidatedSources
<1>2. ASSUME TypeOK, TypeOK', WritesNameValidatedSources, [Next]_vars
      PROVE  WritesNameValidatedSources'
  <2> USE <1>2 DEF TypeOK, TablesTypeOK
  <2>1. ASSUME NEW t \in ConfigTasks, ConfigNext(t) PROVE WritesNameValidatedSources'
    <3>1. sources' = sources
      BY <2>1 DEF ConfigNext, ConfigRequest, ConfigStep, BeginCreate, BeginPatch,
             BeginDelete, BeginPurge, BeginConfigJob, ValidateSources, UpdateRow, LookupRow,
             ReviveRow, InsertRow, CacheConfig, DeleteRow, UncacheConfig, CountExpired,
             PurgeExpired, sharedVars, tables
    <3>2. ASSUME NEW x \in ConfigTasks, x # t
          PROVE  configJob'[x] = configJob[x] /\ deletedSince'[x] = deletedSince[x]
      BY <2>1, <3>2 DEF ConfigNext, ConfigRequest, ConfigStep, BeginCreate, BeginPatch,
             BeginDelete, BeginPurge, BeginConfigJob, ValidateSources, UpdateRow, LookupRow,
             ReviveRow, InsertRow, CacheConfig, DeleteRow, UncacheConfig, CountExpired,
             PurgeExpired, ConfigGoto, ConfigReply, sharedVars, history, ConfigJobsOK
    <3>3. Writing(t)' => MissingSources(configJob[t].config)' \subseteq deletedSince'[t]
      <4>1. CASE ConfigRequest(t)
        BY <4>1 DEF ConfigRequest, BeginCreate, BeginPatch, BeginDelete, BeginPurge,
               BeginConfigJob, ConfigJobsOK, MissingSources
      <4>2. CASE ValidateSources(t)
        <5>1. CASE ConfigReply(t)
          BY <5>1 DEF ConfigReply, IdleConfigJob, ConfigJobsOK
        <5>2. CASE MissingSources(configJob[t].config) = {}
          <6>1. CASE ConfigReply(t)
            BY <5>1, <6>1
          <6>2. CASE \E pc \in ConfigPC : ConfigGoto(t, pc)
            <7>1. MissingSources(configJob[t].config)' = {}
              BY <3>1, <5>2, <6>2 DEF MissingSources, ConfigGoto, ConfigJobsOK, ConfigJob
            <7> QED
              BY <7>1
          <6> QED
            BY <4>2, <6>1, <6>2 DEF ValidateSources, ConfigPC
        <5> QED
          BY <4>2, <5>1, <5>2 DEF ValidateSources
      <4>3. CASE LookupRow(t)
        <5>1. CASE ConfigReply(t)
          BY <5>1 DEF ConfigReply, IdleConfigJob, ConfigJobsOK
        <5>2. CASE \E pc \in ConfigPC : ConfigGoto(t, pc)
          <6>1. configJob'[t].config = configJob[t].config
            BY <5>2 DEF ConfigGoto, ConfigJobsOK, ConfigJob
          <6>2. MissingSources(configJob[t].config) \subseteq deletedSince[t]
            BY <4>3 DEF LookupRow, ConfigAt, WritesNameValidatedSources
          <6>3. deletedSince' = deletedSince
            BY <4>3 DEF LookupRow, sharedVars, history
          <6> QED
            BY <3>1, <6>1, <6>2, <6>3 DEF MissingSources
        <5> QED
          BY <4>3, <5>1, <5>2 DEF LookupRow, ConfigPC
      <4>4. CASE \/ UpdateRow(t) \/ ReviveRow(t) \/ InsertRow(t) \/ CacheConfig(t)
                 \/ DeleteRow(t) \/ UncacheConfig(t) \/ CountExpired(t) \/ PurgeExpired(t)
        <5>1. ConfigReply(t) \/ \E pc \in {"cache", "uncache", "purge"} : ConfigGoto(t, pc)
          BY <4>4 DEF UpdateRow, ReviveRow, InsertRow, CacheConfig, DeleteRow,
                 UncacheConfig, CountExpired, PurgeExpired
        <5> QED
          BY <5>1 DEF ConfigReply, ConfigGoto, IdleConfigJob, ConfigJobsOK, ConfigJob
      <4> QED
        BY <2>1, <4>1, <4>2, <4>3, <4>4 DEF ConfigNext, ConfigStep
    <3> QED
      BY <3>1, <3>2, <3>3 DEF WritesNameValidatedSources, MissingSources
  <2>2. ASSUME configJob' = configJob,
               \A x \in ConfigTasks : deletedSince[x] \subseteq deletedSince'[x],
               \A s \in SourceIds : sources'[s] = None =>
                  \/ sources[s] = None
                  \/ \A x \in ConfigTasks : s \in deletedSince'[x]
        PROVE  WritesNameValidatedSources'
    <3> SUFFICES ASSUME NEW x \in ConfigTasks, Writing(x),
                        NEW s \in Refs[configJob[x].config], sources'[s] = None
                 PROVE  s \in deletedSince'[x]
      BY <2>2 DEF WritesNameValidatedSources, MissingSources
    <3>1. s \in SourceIds
      <4>1. configJob[x].config \in Configs
        BY DEF ConfigJobsOK, ConfigLocals
      <4> QED
        BY <4>1, TablesAssumption
    <3> QED
      BY <2>2, <3>1 DEF WritesNameValidatedSources, MissingSources
  <2>3. ASSUME NEW u \in SourceTasks, SourceNext(u) PROVE WritesNameValidatedSources'
    <3>1. configJob' = configJob
      BY <2>3 DEF SourceNext
    <3>2. CASE RemoveSource(u)
      BY <2>2, <3>1, <3>2 DEF RemoveSource
    <3>3. CASE InsertSource(u)
      <4>1. sourceJob[u].source \in Source
        BY <3>3 DEF InsertSource, SourceAt, SourceJobsOK, SourceLocals
      <4> QED
        BY <2>2, <3>1, <3>3, <4>1, TablesAssumption DEF InsertSource, StoreSource
    <3>4. CASE UpdateSource(u)
      <4>1. CASE sources[sourceJob[u].id] = None
        BY <2>2, <3>1, <3>4, <4>1 DEF UpdateSource
      <4>2. CASE sources[sourceJob[u].id] # None
        <5>1. Patched(u) # None
          BY <3>4, <4>2, PatchedIsSource, TablesAssumption DEF UpdateSource
        <5> QED
          BY <2>2, <3>1, <3>4, <4>2, <5>1 DEF UpdateSource, StoreSource
      <4> QED
        BY <4>1, <4>2
    <3>5. CASE SourceRequest(u) \/ SourceExists(u) \/ CacheSource(u) \/ CheckInUse(u)
                  \/ UncacheSource(u)
      BY <2>2, <3>1, <3>5 DEF SourceRequest, BeginCreateSource, BeginPatchSource,
             BeginDeleteSource, BeginSourceJob, SourceExists, CacheSource, CheckInUse,
             UncacheSource, sharedVars, tables, history
    <3> QED
      BY <2>3, <3>2, <3>3, <3>4, <3>5 DEF SourceNext, SourceStep
  <2>4. CASE \/ \E r \in ReadTasks : ReadNext(r)
             \/ Tick
             \/ \E p \in Procs, id \in ConfigIds : EvictConfig(p, id)
             \/ \E p \in Procs, s \in SourceIds : EvictSource(p, s)
             \/ UNCHANGED vars
    <3>1. UNCHANGED <<configJob, deletedSince, sources>>
      BY <2>4 DEF ReadNext, ReadRequest, ReadStep, BeginGetConfig, BeginGetAgent,
             BeginGetSource, BeginRead, LookupConfig, SelectConfig, FillConfig,
             LookupSource, SelectSource, FillSource, Tick, EvictConfig, EvictSource, vars,
             sharedVars, tables, history, jobs
    <3> QED
      BY <2>2, <3>1
  <2>5. CASE \E p \in Procs : Restart(p)
    BY <2>5 DEF Restart, IdleConfigJob, tables, history, WritesNameValidatedSources,
           MissingSources
  <2> QED
    BY <2>1, <2>3, <2>4, <2>5 DEF Next
<1> QED
  BY <1>1, <1>2, TypeCorrect, PTL DEF Spec

=============================================================================
