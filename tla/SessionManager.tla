--------------------------- MODULE SessionManager ---------------------------
(***************************************************************************)
(* NucliaDBAgenticSessionManager (server/session.py): the agentic server's *)
(* side of a question.  activate loads the agentic configuration, the      *)
(* agent's state and the session memory, and spawns the task answer, which *)
(* runs the agent under a time limit and reports on the topic.             *)
(*                                                                         *)
(* Several processes serve questions (charts/nucliadb_agentic/values.yaml),*)
(* each with memories of its own.                                          *)
(*                                                                         *)
(* The activation and the task it spawns never run at the same time, so    *)
(* one program counter, phase, follows a question through both.            *)
(***************************************************************************)
EXTENDS QuestionTopics, FiniteSets

CONSTANTS
  Sessions,
  SessionOf,   \* question -> the session it is asked in
  Servers,     \* processes of the agentic server
  Assignments, \* ways the broker may give the questions to the processes
  NoMemory,    \* no session memory
  MayEvict     \* may the LRUs of session memories evict, may a server restart?

ASSUME SessionAssumption ==
  /\ SessionOf \in [Questions -> Sessions]
  /\ Assignments \subseteq [Questions -> Servers]
  /\ NoMemory \notin Questions
  /\ MayEvict \in BOOLEAN

VARIABLES
  phase,      \* question -> where its activation or its answer task stands
  failed,     \* question -> did its answer task catch an error?
  final,      \* question -> question_memory.final_answer
  emitted,    \* question -> messages the agent emitted
  manager,    \* question -> the drivers' manager: "none", "open" or "closed"
  keepalive,  \* question -> is its keep-alive task running?
  server,     \* question -> the process the broker gives it to
  memory,     \* process -> session -> the memory object its LRU holds, named by
              \* its loader
  using,      \* question -> the memory object it was started in
  history,    \* memory object -> the questions it holds
  stored,     \* session -> the questions saved in the memory store
  beside      \* question -> questions of its session that were in progress while
              \* it loaded a memory (history of the run, not state of the program)

serverVars ==
  <<phase, failed, final, emitted, manager, keepalive, server, memory, using,
    history, stored, beside>>

Phases ==
  {"idle", "rejecting", "rejected", "config", "state", "memory", "loading",
   "failing", "failed", "starting", "agent", "closing", "reporting", "ending",
   "saving", "over", "lost"}

SessionTypeOK ==
  /\ inbox \subseteq Questions
  /\ topic \in [Questions -> Seq(Message)]
  /\ phase \in [Questions -> Phases]
  /\ failed \in [Questions -> BOOLEAN]
  /\ final \in [Questions -> Texts]
  /\ emitted \in [Questions -> 0..MaxEmitted]
  /\ manager \in [Questions -> {"none", "open", "closed"}]
  /\ keepalive \in [Questions -> BOOLEAN]
  /\ server \in [Questions -> Servers]
  /\ memory \in [Servers -> [Sessions -> Questions \cup {NoMemory}]]
  /\ using \in [Questions -> Questions \cup {NoMemory}]
  /\ history \in [Questions -> SUBSET Questions]
  /\ stored \in [Sessions -> SUBSET Questions]
  /\ beside \in [Questions -> SUBSET Questions]

SessionInit ==
  /\ phase = [q \in Questions |-> "idle"]
  /\ failed = [q \in Questions |-> FALSE]
  /\ final = [q \in Questions |-> <<>>]
  /\ emitted = [q \in Questions |-> 0]
  /\ manager = [q \in Questions |-> "none"]
  /\ keepalive = [q \in Questions |-> FALSE]
  /\ server \in Assignments
  /\ memory = [v \in Servers |-> [s \in Sessions |-> NoMemory]]
  /\ using = [q \in Questions |-> NoMemory]
  /\ history = [q \in Questions |-> {}]
  /\ stored = [s \in Sessions |-> {}]
  /\ beside = [q \in Questions |-> {}]

Goto(q, p) == phase' = [phase EXCEPT ![q] = p]

\* The questions of session s in progress, on any server.
Running(s) ==
  {q \in Questions : SessionOf[q] = s /\ phase[q] \notin {"idle", "over", "lost"}}

(***************************************************************************)
(* activate                                                                *)
(***************************************************************************)
\* The activation message arrives; its ask_request argument parses or not.
Activate(q) ==
  /\ q \in inbox
  /\ inbox' = inbox \ {q}
  /\ \/ Goto(q, "config")
     \/ Goto(q, "rejecting")
  /\ beside' = [r \in Questions |->
                  IF phase[r] = "loading" /\ SessionOf[r] = SessionOf[q]
                  THEN beside[r] \cup {q} ELSE beside[r]]
  /\ UNCHANGED <<topic, failed, final, emitted, manager, keepalive, server, memory,
                 using, history, stored>>

\* The error of an invalid ask_request, then AgentDone.  A publication that
\* raises here is caught by the activation's own handler, which reports again.
Reject(q) ==
  /\ \/ phase[q] = "rejecting" /\ Publish(q, Error) /\ Goto(q, "rejected")
     \/ phase[q] = "rejecting" /\ PublishFails(q, Error) /\ Goto(q, "failing")
     \/ phase[q] = "rejected" /\ Publish(q, Done) /\ Goto(q, "over")
     \/ phase[q] = "rejected" /\ PublishFails(q, Done) /\ Goto(q, "failing")
  /\ UNCHANGED <<inbox, failed, final, emitted, manager, keepalive, server, memory,
                 using, history, stored, beside>>

\* The configuration, the state and the memory may each fail to load.
FailActivation(q) ==
  /\ phase[q] \in {"config", "state", "loading"}
  /\ Goto(q, "failing")
  /\ UNCHANGED <<inbox, topic, failed, final, emitted, manager, keepalive, server,
                 memory, using, history, stored, beside>>

\* Mutant: a failed publication of the error is swallowed, AgentDone follows.
ReportFailureSwallowed(q) ==
  /\ \/ phase[q] = "failing" /\ Publish(q, Error) /\ Goto(q, "failed")
     \/ phase[q] = "failing" /\ PublishFails(q, Error) /\ Goto(q, "failed")
     \/ phase[q] = "failed" /\ Publish(q, Done) /\ Goto(q, "over")
  /\ UNCHANGED <<inbox, failed, final, emitted, manager, keepalive, server, memory,
                 using, history, stored, beside>>

\* The handlers of activate: ERROR, then AgentDone; nothing catches a
\* publication that fails here.
ReportFailedActivation(q) ==
  /\ \/ phase[q] = "failing" /\ Publish(q, Error) /\ Goto(q, "failed")
     \/ phase[q] = "failing" /\ PublishFails(q, Error) /\ Goto(q, "lost")
     \/ phase[q] = "failed" /\ Publish(q, Done) /\ Goto(q, "over")
     \/ phase[q] = "failed" /\ PublishFails(q, Done) /\ Goto(q, "lost")
  /\ UNCHANGED <<inbox, failed, final, emitted, manager, keepalive, server, memory,
                 using, history, stored, beside>>

LoadConfig(q) ==
  /\ phase[q] = "config"
  /\ Goto(q, "state")
  /\ UNCHANGED <<inbox, topic, failed, final, emitted, manager, keepalive, server,
                 memory, using, history, stored, beside>>

LoadState(q) ==
  /\ phase[q] = "state"
  /\ manager' = [manager EXCEPT ![q] = "open"]
  /\ Goto(q, "memory")
  /\ UNCHANGED <<inbox, topic, failed, final, emitted, keepalive, server, memory,
                 using, history, stored, beside>>

\* Mutant: the question is not added to the memory.
StartQuestionApart(q, m) ==
  /\ using' = [using EXCEPT ![q] = m]
  /\ UNCHANGED history
  /\ Goto(q, "starting")

\* start_question on memory object m, and the task that answers.
StartQuestion(q, m) ==
  /\ using' = [using EXCEPT ![q] = m]
  /\ history' = [history EXCEPT ![m] = @ \cup {q}]
  /\ Goto(q, "starting")

\* What the LRU of the process that has question q holds of its session.
MemoryFor(q) == memory[server[q]][SessionOf[q]]

\* The session is in the LRU: no await until the answer task is created.
UseMemory(q) ==
  LET m == MemoryFor(q) IN
  /\ phase[q] = "memory"
  /\ m # NoMemory
  /\ StartQuestion(q, m)
  /\ UNCHANGED <<inbox, topic, failed, final, emitted, manager, keepalive, server,
                 memory, stored, beside>>

\* The session is not in the LRU: get_memory, awaited, reads the saved questions.
MissMemory(q) ==
  /\ phase[q] = "memory"
  /\ MemoryFor(q) = NoMemory
  /\ history' = [history EXCEPT ![q] = stored[SessionOf[q]]]
  /\ beside' = [beside EXCEPT ![q] = Running(SessionOf[q]) \ {q}]
  /\ Goto(q, "loading")
  /\ UNCHANGED <<inbox, topic, failed, final, emitted, manager, keepalive, server,
                 memory, using, stored>>

\* get_memory returned: the object replaces whatever the LRU holds by now.
LoadMemory(q) ==
  /\ phase[q] = "loading"
  /\ memory' = [memory EXCEPT ![server[q]][SessionOf[q]] = q]
  /\ StartQuestion(q, q)
  /\ UNCHANGED <<inbox, topic, failed, final, emitted, manager, keepalive, server,
                 stored, beside>>

(***************************************************************************)
(* answer                                                                  *)
(***************************************************************************)
BeginAnswer(q) ==
  /\ phase[q] = "starting"
  /\ keepalive' = [keepalive EXCEPT ![q] = TRUE]
  /\ \/ /\ Publish(q, Start)
        /\ Goto(q, "agent")
        /\ UNCHANGED failed
     \/ /\ PublishFails(q, Start)
        /\ Goto(q, "closing")
        /\ failed' = [failed EXCEPT ![q] = TRUE]
  /\ UNCHANGED <<inbox, final, emitted, manager, server, memory, using, history,
                 stored, beside>>

\* What the agent may emit next: reasoning, a chunk of the answer, a step.
Emissions(q) ==
  LET text == <<emitted[q] + 1>> IN
  {Reasoning(text), Chunk(text)} \cup {Step(id) : id \in LearningIds \cup {NoId}}

\* Mutant: one message more than the bound.
AgentEmitsTooMuch(q) ==
  /\ phase[q] = "agent"
  /\ emitted[q] <= MaxEmitted
  /\ \E m \in Emissions(q) : Publish(q, m)
  /\ emitted' = [emitted EXCEPT ![q] = @ + 1]
  /\ UNCHANGED <<inbox, phase, failed, final, manager, keepalive, server, memory,
                 using, history, stored, beside>>

AgentEmits(q) ==
  /\ phase[q] = "agent"
  /\ emitted[q] < MaxEmitted
  /\ \E m \in Emissions(q) :
       \/ Publish(q, m) /\ UNCHANGED <<phase, failed>>
       \/ /\ PublishFails(q, m)
          /\ Goto(q, "closing")
          /\ failed' = [failed EXCEPT ![q] = TRUE]
  /\ emitted' = [emitted EXCEPT ![q] = @ + 1]
  /\ UNCHANGED <<inbox, final, manager, keepalive, server, memory, using, history,
                 stored, beside>>

\* The texts of the chunks already published, joined.
ChunkTexts(messages) ==
  Joined([i \in DOMAIN messages |->
            IF messages[i].op = "ANSWER_CHUNK" THEN messages[i].text ELSE <<>>])

\* The final answer is the streamed text, a text never streamed, or none.
AgentFinishes(q) ==
  /\ phase[q] = "agent"
  /\ \E t \in {ChunkTexts(topic[q]), <<MaxEmitted + 1>>, <<>>} :
       final' = [final EXCEPT ![q] = t]
  /\ Goto(q, "closing")
  /\ UNCHANGED <<inbox, topic, failed, emitted, manager, keepalive, server, memory,
                 using, history, stored, beside>>

\* The agent raises, or question_timeout_seconds are over.
AgentFails(q) ==
  /\ phase[q] = "agent"
  /\ failed' = [failed EXCEPT ![q] = TRUE]
  /\ Goto(q, "closing")
  /\ UNCHANGED <<inbox, topic, final, emitted, manager, keepalive, server, memory,
                 using, history, stored, beside>>

\* Mutant: what manager.aclose raises ends the task.
CloseManagerRaises(q) ==
  /\ phase[q] = "closing"
  /\ manager' = [manager EXCEPT ![q] = "closed"]
  /\ keepalive' = [keepalive EXCEPT ![q] = FALSE]
  /\ \/ Goto(q, "reporting")
     \/ Goto(q, "over")
  /\ UNCHANGED <<inbox, topic, failed, final, emitted, server, memory, using, history,
                 stored, beside>>

\* Mutant: the keep-alive is not cancelled.
CloseManagerOnly(q) ==
  /\ phase[q] = "closing"
  /\ manager' = [manager EXCEPT ![q] = "closed"]
  /\ Goto(q, "reporting")
  /\ UNCHANGED <<inbox, topic, failed, final, emitted, keepalive, server, memory,
                 using, history, stored, beside>>

\* The finally block; what manager.aclose raises is swallowed.
CloseManager(q) ==
  /\ phase[q] = "closing"
  /\ manager' = [manager EXCEPT ![q] = "closed"]
  /\ keepalive' = [keepalive EXCEPT ![q] = FALSE]
  /\ Goto(q, "reporting")
  /\ UNCHANGED <<inbox, topic, failed, final, emitted, server, memory, using, history,
                 stored, beside>>

Outcome(q) == IF failed[q] THEN Error ELSE FinalAnswer(final[q])

ReportOutcome(q) ==
  /\ phase[q] = "reporting"
  /\ \/ Publish(q, Outcome(q)) /\ Goto(q, "ending")
     \/ PublishFails(q, Outcome(q)) /\ Goto(q, "lost")
  /\ UNCHANGED <<inbox, failed, final, emitted, manager, keepalive, server, memory,
                 using, history, stored, beside>>

ReportDone(q) ==
  /\ phase[q] = "ending"
  /\ \/ Publish(q, Done) /\ Goto(q, "saving")
     \/ PublishFails(q, Done) /\ Goto(q, "lost")
  /\ UNCHANGED <<inbox, failed, final, emitted, manager, keepalive, server, memory,
                 using, history, stored, beside>>

\* The question is saved after AgentDone; a failure is only logged.
SaveQuestion(q) ==
  /\ phase[q] = "saving"
  /\ \/ stored' = [stored EXCEPT ![SessionOf[q]] = @ \cup {q}]
     \/ UNCHANGED stored
  /\ Goto(q, "over")
  /\ UNCHANGED <<inbox, topic, failed, final, emitted, manager, keepalive, server,
                 memory, using, history, beside>>

(***************************************************************************)
(* The LRU of a process evicts a session other sessions pushed out.        *)
(***************************************************************************)
Evict(v, s) ==
  /\ MayEvict
  /\ memory[v][s] # NoMemory
  /\ memory' = [memory EXCEPT ![v][s] = NoMemory]
  /\ UNCHANGED <<inbox, topic, phase, failed, final, emitted, manager, keepalive,
                 server, using, history, stored, beside>>

\* A process stops and restarts: its tasks and its memories are gone.
Restart(v) ==
  LET stopped == {q \in Questions :
                    server[q] = v /\ phase[q] \notin {"idle", "over", "lost"}} IN
  /\ MayEvict
  /\ stopped # {}
  /\ phase' = [q \in Questions |-> IF q \in stopped THEN "lost" ELSE phase[q]]
  /\ memory' = [memory EXCEPT ![v] = [s \in Sessions |-> NoMemory]]
  /\ keepalive' = [q \in Questions |-> keepalive[q] /\ server[q] # v]
  /\ manager' = [q \in Questions |->
                   IF server[q] = v /\ manager[q] = "open" THEN "closed" ELSE manager[q]]
  /\ UNCHANGED <<inbox, topic, failed, final, emitted, server, using, history, stored,
                 beside>>

ServerStep(q) ==
  \/ Activate(q) \/ Reject(q) \/ FailActivation(q) \/ ReportFailedActivation(q)
  \/ LoadConfig(q) \/ LoadState(q) \/ UseMemory(q) \/ MissMemory(q) \/ LoadMemory(q)
  \/ BeginAnswer(q) \/ AgentEmits(q) \/ AgentFinishes(q) \/ AgentFails(q)
  \/ CloseManager(q) \/ ReportOutcome(q) \/ ReportDone(q) \/ SaveQuestion(q)

=============================================================================
