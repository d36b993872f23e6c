----------------------------- MODULE AgenticAsk -----------------------------
(***************************************************************************)
(* The agentic server and the API composed over the question topics.       *)
(***************************************************************************)
EXTENDS SessionManager, AgenticAskResult

\* A restart of the API, and a question asked twice, are not modelled.
vars == <<inbox, topic, serverVars, askVars>>

Init == TopicsInit /\ SessionInit /\ AskInit

\* The agentic server alone: questions are asked, nobody reads the answers.
ServerNext ==
  \/ \E q \in Questions : Ask(q) /\ UNCHANGED serverVars
  \/ \E q \in Questions : ServerStep(q) /\ UNCHANGED askVars
  \/ \E v \in Servers, s \in Sessions : Evict(v, s) /\ UNCHANGED askVars
  \/ \E v \in Servers : Restart(v) /\ UNCHANGED askVars

Next == ServerNext \/ \E q \in Questions : AskStep(q) /\ UNCHANGED serverVars

Spec == Init /\ [][Next]_vars

(***************************************************************************)
(* Fairness.  The tasks of both processes run on event loops that schedule *)
(* every ready task, and question_timeout_seconds ends an agent that does  *)
(* not end by itself.  Clients need not ask or leave, and nothing has to   *)
(* fail, be evicted or restart.                                            *)
(***************************************************************************)
Reads(q) ==
  LoopPuts(q) \/ StartReturns(q) \/ StreamText(q) \/ SkipStart(q) \/ StreamError(q)
  \/ StreamDone(q)

Fairness ==
  \A q \in Questions :
    /\ WF_vars(ServerStep(q) /\ UNCHANGED askVars)
    /\ WF_vars(Reads(q) /\ UNCHANGED serverVars)

FairSpec == Spec /\ Fairness

ServerSpec ==
  /\ Init /\ [][ServerNext]_vars
  /\ \A q \in Questions : WF_vars(ServerStep(q) /\ UNCHANGED askVars)

TypeOK == SessionTypeOK /\ AskTypeOK

(***************************************************************************)
(* Safety                                                                  *)
(***************************************************************************)
\* What a reader of a topic sees is: whatever the agent said, then an
\* outcome, then DONE.  An outcome is followed by nothing but DONE or a
\* repeated ERROR, and there is no DONE without an outcome before it, even
\* when a publication fails half way.  (session.py, activate and answer.)
OutcomeClosesTopic ==
  \A q \in Questions :
    LET seen == Visible(topic[q]) IN
    \A i \in DOMAIN seen :
      /\ IsOutcome(seen[i]) /\ i < Len(seen) =>
           IsDone(seen[i + 1]) \/ (seen[i] = Error /\ seen[i + 1] = Error)
      /\ IsDone(seen[i]) => i > 1 /\ IsOutcome(seen[i - 1])

\* The drivers of a question are closed and its keep-alive stopped before
\* its outcome is told, so a client that has its answer holds no driver.
\* A failed activation never gets there.  (session.py:280-305.)
AnsweredLeavesNothingOpen ==
  \A q \in Questions :
    /\ (\E i \in DOMAIN topic[q] : topic[q][i].final) =>
         manager[q] = "closed" /\ ~keepalive[q]
    /\ phase[q] \in {"over", "lost"} => ~keepalive[q]

\* A question starts in a memory that has every saved question of its session,
\* but for those in progress beside it while that memory was loaded (the load
\* may read the store before they are saved, and replace the memory object they
\* are in), and, where the process still has a memory, those another process
\* answered.  Evictions, restarts and saves that fail lose nothing else: no LRU
\* serves a memory older than what its own process saved.  (session.py:159-181.)
FollowUpSeesSaved ==
  [][\A q \in Questions :
       phase[q] # "starting" /\ phase'[q] = "starting" =>
         \A p \in stored[SessionOf[q]] :
           \/ p \in history'[using'[q]] \cup beside'[using'[q]]
           \/ using'[q] # q /\ server[p] # server[q]]_vars

\* The texts there may be: one an agent emits, its chunks joined, or one of its own.
Sayable == UNION {[1..n -> 1..(MaxEmitted + 1)] : n \in 1..(MaxEmitted + 1)}

OutcomeOf(q) ==
  LET seen == Visible(topic[q]) IN
  IF ~IsClosed(seen) THEN "pending"
  ELSE IF \E i \in DOMAIN seen : seen[i].op = "ERROR" THEN "refused" ELSE "answered"

\* The text of message m that reaches the client of question q.  A synchronous
\* response has self._answer_text, which only chunks join: its client is told
\* nothing of a final answer that was not streamed.  (Its reasoning is a field
\* beside it.)
TextTo(q, m) == IF request[q].sync /\ m.op # "ANSWER_CHUNK" THEN <<>> ELSE m.text

SaidTo(q, messages) ==
  Chosen([i \in DOMAIN messages |-> TextTo(q, messages[i])], Texts \ {<<>>})

HeardOf(q) == IF request[q].sync THEN answer[q] ELSE TextsOf(items[q])

ReplyOf(q) ==
  CASE handler[q] = "done" -> IF Last(items[q]) = Bare("error") THEN "error" ELSE "success"
    [] handler[q] = "failed" -> "error"
    [] handler[q] = "gone" -> "left"
    [] handler[q] \in {"idle", "starting", "answering"} -> "open"

Contract ==
  INSTANCE AnswerContract WITH
    Words <- Sayable,
    said <- [q \in Questions |-> SaidTo(q, Visible(topic[q]))],
    outcome <- [q \in Questions |-> OutcomeOf(q)],
    heard <- [q \in Questions |-> HeardOf(q)],
    reply <- [q \in Questions |-> ReplyOf(q)]

\* The detailed model keeps the contract: in order, nothing twice, nothing
\* left out, and success only of a finished answer heard in full.  Of a streamed
\* response this is all that is published with a text; of a synchronous one only
\* the chunks of the answer, so its success may come with an empty answer.
\* (ask_result.py:300, 355.)
KeepsContract == Contract!ContractSpec

\* The NUCLIA-LEARNING-ID header says "unknown" only of an answer for which
\* the agent reported no learning id at all, or whose reading has dropped a
\* message.  (ask_result.py:133-164.)
HeaderNamesCall ==
  \A q \in Questions :
    handler[q] \notin {"idle", "starting"} /\ header[q] = NoId /\ ~dropped[q] =>
      \A i \in DOMAIN Visible(topic[q]) : topic[q][i].learning = NoId

(***************************************************************************)
(* Liveness                                                                *)
(***************************************************************************)
\* Every question that is asked ends: its topic is closed, or its tasks died
\* reporting to a broker that fails or in a restart.
QuestionsEnd ==
  \A q \in Questions : q \in inbox ~> IsClosed(topic[q]) \/ phase[q] = "lost"

\* Every request gets a response, unless the server's task died before it
\* could report or the task that reads the topic has died.
RequestsEnd ==
  \A q \in Questions :
    handler[q] = "starting" ~>
      handler[q] \in {"done", "failed", "gone"} \/ loop[q] = "broken" \/ phase[q] = "lost"

\* A request that is over leaves no task reading its topic for ever, even
\* when its client left or it stopped at an error.
LoopsEnd ==
  \A q \in Questions :
    handler[q] \in {"done", "failed", "gone"} ~> loop[q] # "reading" \/ phase[q] = "lost"

=============================================================================
