----------------------------- MODULE NativeAsk -----------------------------
(***************************************************************************)
(* An ask that names no agentic configuration, end to end: retrieval,      *)
(* answer, audit.                                                          *)
(***************************************************************************)
EXTENDS StreamAudit

vars == <<retrievalVars, answerVars, auditVars>>

Init == RetrievalInit /\ AnswerInit /\ AuditInit

Next ==
  \/ \E a \in Asks : RetrievalStep(a) /\ UNCHANGED <<answerVars, auditVars>>
  \/ \E a \in Asks : AnswerStep(a) /\ UNCHANGED auditVars
  \/ \E a \in Asks : SetBackground(a) \/ EnqueuePending(a)
  \/ WorkerStep
  \/ StopUtility
  \/ CancelWorker

Spec == Init /\ [][Next]_vars

\* The event loop schedules the worker whenever it can go on.
FairSpec == Spec /\ WF_vars(WorkerStep)

(***************************************************************************)
(* Properties                                                              *)
(***************************************************************************)
\* The types of what is read, found, audited and tried.
TypeOK ==
  /\ task \in [Asks -> [Prequeries -> TaskStates]]
  /\ \A a \in Asks : found[a] \in [Queries -> SUBSET Resources]
  /\ \A a \in DOMAIN options : filter[a] \in [Queries -> Filter]
  /\ search \in [Asks -> AuditSearch]
  /\ record \in [Asks -> Records]
  /\ \A i \in DOMAIN sent : sent[i] \in AuditRequest
  /\ Len(sending) <= 1
  /\ tries \in 0..(MaxTries - 1)

\* What is enqueued for the audit is the whole answer, though dispatch has its
\* response before the first chunk is read, and only an answer whose status
\* is not an error.  (audit.py:120-141, ask.py:303-316.)
AuditsWhole ==
  \A i \in DOMAIN sent :
    LET m == sent[i] IN
    /\ model[m.ask] = "ended" /\ unread[m.ask] = <<>>
    /\ m.record.status = StatusCode(m.ask) /\ m.record.status # "error"
    /\ m.record.answer = IF m.record.status = "no_context" THEN <<>> ELSE TextOf(stream[m.ask])

\* The queries of an ask write to one audit request, concurrently and after one
\* another.  Whatever the main query writes there tells of the main query, and
\* its vector is the last one.  What it does not write (it has no keywords, or
\* no filter) is left as the prequeries wrote it, and their vectors stay in
\* front of its own: such a request mixes several searches.
\* (retrieval.py:484-490, audit.py:302-341.)
TellsMainQuery(a, audited) ==
  /\ \A f \in SearchFields :
       LET q == audited.told[f] IN
       IF f \in Writes(a, Main) THEN q = Main
       ELSE q = NoQuery \/ (q \in Prequeries /\ f \in Writes(a, q))
  /\ "semantic" \in options[a].parts[Main] =>
       audited.vectors # <<>> /\ Last(audited.vectors) = Main

AuditTellsMainQuery ==
  \A i \in DOMAIN sent :
    IF ReadsWhole(sent[i].ask) THEN sent[i].search = NoSearch
    ELSE TellsMainQuery(sent[i].ask, sent[i].search)

\* The stream gets the audit requests in the order of the responses, each at
\* most as often as it is tried.  (audit.py:256-290.)
PositionSent(m) == CHOOSE i \in DOMAIN sent : sent[i] = m

PublishedInOrder ==
  /\ \A i \in 2..Len(published) :
       PositionSent(published[i - 1]) <= PositionSent(published[i])
  /\ \A i \in DOMAIN published :
       Cardinality({j \in DOMAIN published : published[j] = published[i]}) <= MaxTries

\* A stream that fails delays the audit but does not stop it: the queue is
\* emptied, or the worker has ended.  (audit.py:256-279.)
AuditsDrain == queue # <<>> ~> queue = <<>> \/ worker = "ended"

\* What the agent of an ask promises, in its terms: the outcome of the model's
\* stream, and what the client has been told of it.
LastCode(chunks) ==
  LET codes == Chosen(chunks, Codes) IN IF codes = <<>> THEN NoStatus ELSE Last(codes)

OutcomeOf(a) ==
  CASE model[a] \in {"silent", "open"} -> "pending"
    [] model[a] = "broken" -> "refused"
    [] OTHER -> IF LastCode(stream[a]) \in {NoStatus, "success"} THEN "answered" ELSE "refused"

ToldOutcome(a) == {"success", "error", "no_context", "no_retrieval_data", "error item"}
                    \cap ToSet(items[a])

ReplyOf(a) ==
  IF "success" \in ToldOutcome(a) THEN "success"
  ELSE IF ToldOutcome(a) # {} \/ stage[a] = "failed" THEN "error"
  ELSE IF stage[a] = "left" THEN "left" ELSE "open"

Contract ==
  INSTANCE AnswerContract WITH
    Questions <- Asks,
    Words <- ToSet(Words),
    said <- [a \in Asks |-> TextOf(stream[a])],
    outcome <- [a \in Asks |-> OutcomeOf(a)],
    heard <- [a \in Asks |-> TextOf(items[a])],
    reply <- [a \in Asks |-> ReplyOf(a)]

\* The answer of an ask without an agentic configuration keeps the contract
\* the agentic answers keep: in order, in full, and success only of a stream
\* that ended without an error.  (ask.py:244-318.)
NativeKeepsContract == Contract!ContractSpec

=============================================================================
