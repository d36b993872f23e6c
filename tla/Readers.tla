------------------------------ MODULE Readers ------------------------------
(***************************************************************************)
(* The reads that go through the caches: get_agentic_config (GET endpoint, *)
(* ensure_workflow_active), get_source (GET endpoint) and get_agent_config,*)
(* which a session activation runs: the configuration first, then, in      *)
(* transform_agentic_config, every source it names.                        *)
(***************************************************************************)
EXTENDS KnowledgeBoxTables

VARIABLE readJob

ReadPC == {"idle", "config", "select", "fill", "sources", "selectSource", "fillSource"}

ReadJob == [pc : ReadPC,
            op : {"none", "config", "source", "agent"},
            id : ConfigIds \cup {None},
            config : Configs \cup {None},
            source : SourceIds \cup {None},    \* the source being read
            row : Source \cup {None},          \* what its SELECT returned
            todo : SUBSET SourceIds,           \* sources still to read
            at : Time]                         \* bucket of the cache key in use

\* The locals the statements at each pc use.
ReadLocals(job) ==
    /\ job.pc \in {"config", "select", "fill"} => job.id \in ConfigIds
    /\ job.pc = "fill" => job.config \in Configs
    /\ job.pc \in {"selectSource", "fillSource"} => job.source \in SourceIds
    /\ job.pc = "fillSource" => job.row \in Source

ReadJobsOK ==
    /\ readJob \in [ReadTasks -> ReadJob]
    /\ \A r \in ReadTasks : ReadLocals(readJob[r])

IdleReadJob ==
    [pc |-> "idle", op |-> "none", id |-> None, config |-> None, source |-> None,
     row |-> None, todo |-> {}, at |-> 0]

ReadAt(r, pc) == readJob[r].pc = pc
ReadReply(r) == readJob' = [readJob EXCEPT ![r] = IdleReadJob]

BeginRead(r, job) ==
    /\ ReadAt(r, "idle")
    /\ readJob' = [readJob EXCEPT ![r] = job]
    /\ UNCHANGED sharedVars

BeginGetConfig(r, id) ==
    BeginRead(r, [IdleReadJob EXCEPT !.pc = "config", !.op = "config", !.id = id])
BeginGetAgent(r, id) ==
    BeginRead(r, [IdleReadJob EXCEPT !.pc = "config", !.op = "agent", !.id = id])
BeginGetSource(r, s) ==
    BeginRead(r, [IdleReadJob EXCEPT !.pc = "sources", !.op = "source", !.todo = {s}])

(***************************************************************************)
(* get_agentic_config: the key is computed before the SELECT.              *)
(***************************************************************************)

\* The caller has configuration c: the GET endpoint answers with it, the
\* activation goes on with its sources.
HaveConfig(r, c) ==
    IF readJob[r].op = "agent" /\ Refs[c] # {}
    THEN readJob' = [readJob EXCEPT
            ![r] = [IdleReadJob EXCEPT !.pc = "sources", !.op = "agent", !.todo = Refs[c]]]
    ELSE ReadReply(r)

LookupConfig(r) ==
    /\ ReadAt(r, "config")
    /\ LET cached == configCache[Home[r]][readJob[r].id] IN
       \/ cached # None /\ HaveConfig(r, cached)
       \/ /\ cached = None
          /\ readJob' = [readJob EXCEPT ![r].pc = "select", ![r].at = now]
    /\ UNCHANGED sharedVars

SelectConfig(r) ==
    /\ ReadAt(r, "select")
    /\ \/ /\ Active(readJob[r].id)
          /\ readJob' = [readJob EXCEPT ![r].pc = "fill",
                                        ![r].config = configs[readJob[r].id]]
       \/ ~Active(readJob[r].id) /\ ReadReply(r)          \* NotFound
    /\ UNCHANGED sharedVars

\* Mutant of FillConfig: the key is computed again after the SELECT.
FillConfigLateKey(r) ==
    /\ ReadAt(r, "fill")
    /\ configCache' = CachePut(configCache, Home[r], readJob[r].id, now, readJob[r].config)
    /\ HaveConfig(r, readJob[r].config)
    /\ UNCHANGED <<now, tables, sourceCache, history>>

FillConfig(r) ==
    /\ ReadAt(r, "fill")
    /\ configCache' = CachePut(configCache, Home[r], readJob[r].id,
                               readJob[r].at, readJob[r].config)
    /\ HaveConfig(r, readJob[r].config)
    /\ UNCHANGED <<now, tables, sourceCache, history>>

(***************************************************************************)
(* get_source, for each source still to read.                              *)
(***************************************************************************)
HaveSource(r, s) ==
    IF readJob[r].todo = {s}
    THEN ReadReply(r)
    ELSE readJob' = [readJob EXCEPT
            ![r] = [IdleReadJob EXCEPT !.pc = "sources", !.op = readJob[r].op,
                                       !.todo = readJob[r].todo \ {s}]]

LookupSource(r) ==
    /\ ReadAt(r, "sources")
    /\ \E s \in readJob[r].todo :
          \/ sourceCache[Home[r]][s] # None /\ HaveSource(r, s)
          \/ /\ sourceCache[Home[r]][s] = None
             /\ readJob' = [readJob EXCEPT ![r].pc = "selectSource",
                                           ![r].source = s, ![r].at = now]
    /\ UNCHANGED sharedVars

SelectSource(r) ==
    /\ ReadAt(r, "selectSource")
    /\ \/ /\ sources[readJob[r].source] # None
          /\ readJob' = [readJob EXCEPT ![r].pc = "fillSource",
                                        ![r].row = sources[readJob[r].source]]
       \/ sources[readJob[r].source] = None /\ ReadReply(r)   \* NotFound
    /\ UNCHANGED sharedVars

FillSource(r) ==
    /\ ReadAt(r, "fillSource")
    /\ sourceCache' = CachePut(sourceCache, Home[r], readJob[r].source,
                               readJob[r].at, readJob[r].row)
    /\ HaveSource(r, readJob[r].source)
    /\ UNCHANGED <<now, tables, configCache, history>>

ReadStep(r) ==
    \/ LookupConfig(r) \/ SelectConfig(r) \/ FillConfig(r)
    \/ LookupSource(r) \/ SelectSource(r) \/ FillSource(r)

ReadRequest(r) ==
    \/ \E id \in ConfigIds : BeginGetConfig(r, id) \/ BeginGetAgent(r, id)
    \/ \E s \in SourceIds : BeginGetSource(r, s)

===========================================================================
