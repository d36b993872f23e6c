---------------------------- MODULE StreamAudit ----------------------------
(***************************************************************************)
(* The audit of the answers (ask/audit.py): the middleware enqueues the    *)
(* audit request of a context when its response has been sent, and the     *)
(* worker of StreamAuditStorage publishes what is queued on a stream, each *)
(* request tried at most four times.  The stream, NATS, is external: a     *)
(* publication that raises may have been delivered.                        *)
(***************************************************************************)
EXTENDS AskResult

CONSTANTS
  MaxTries,  \* max_tries of _send
  MayFinish  \* may the process shut down?

ASSUME AuditAssumption == MaxTries \in Nat \ {0} /\ MayFinish \in BOOLEAN

VARIABLES
  background, \* ask -> the response's background task: "none", "set" or "over"
  queue,      \* the storage's queue: audit requests
  sending,    \* what the worker is publishing, if anything
  tries,      \* publications of it that have failed
  worker,     \* the worker's task: "running" or "ended"
  utility,    \* is the audit utility set?
  published,  \* what has been delivered to the stream
  sent        \* what has been enqueued (history of the run)

auditVars == <<background, queue, sending, tries, worker, utility, published, sent>>

\* An audit request and the ask it is about.
AuditRequest == [ask : Asks, search : AuditSearch, record : Records]

AuditInit ==
  /\ background = [a \in Asks |-> "none"]
  /\ queue = <<>>
  /\ sending = <<>>
  /\ tries = 0
  /\ worker = "running"
  /\ utility = TRUE
  /\ published = <<>>
  /\ sent = <<>>

(***************************************************************************)
(* AuditMiddleware                                                         *)
(***************************************************************************)
\* dispatch has its response when the handler returns one, before a streamed
\* response has been iterated: the background task is set.
Answered(a) ==
  /\ a \in DOMAIN options
  /\ IF options[a].sync THEN stage[a] = "done"
     ELSE stage[a] \in {"reading", "done"}

SetBackground(a) ==
  /\ background[a] = "none"
  /\ Answered(a)
  /\ background' = [background EXCEPT ![a] = "set"]
  /\ UNCHANGED <<retrievalVars, answerVars, queue, sending, tries, worker, utility,
                 published, sent>>

Enqueue(a) ==
  LET message == [ask |-> a, search |-> search[a], record |-> record[a]] IN
  IF record[a].kbid /\ utility
  THEN queue' = Append(queue, message) /\ sent' = Append(sent, message)
  ELSE UNCHANGED <<queue, sent>>

\* Mutant: the request is enqueued when dispatch has its response.
EnqueuePendingEarly(a) ==
  /\ background[a] = "set"
  /\ stage[a] \in {"reading", "telling", "auditing", "done", "left"}
  /\ background' = [background EXCEPT ![a] = "over"]
  /\ LET message == [ask |-> a, search |-> search[a],
                     record |-> [record[a] EXCEPT !.kbid = TRUE, !.answer = answer[a]]] IN
     queue' = Append(queue, message) /\ sent' = Append(sent, message)
  /\ UNCHANGED <<retrievalVars, answerVars, sending, tries, worker, utility, published>>

\* enqueue_pending, once the response has been sent; for a client that has
\* left it may or may not run.
EnqueuePending(a) ==
  /\ background[a] = "set"
  /\ stage[a] \in {"done", "left"}
  /\ background' = [background EXCEPT ![a] = "over"]
  /\ \/ Enqueue(a)
     \/ stage[a] = "left" /\ UNCHANGED <<queue, sent>>
  /\ UNCHANGED <<retrievalVars, answerVars, sending, tries, worker, utility, published>>

(***************************************************************************)
(* StreamAuditStorage.run and _send                                        *)
(***************************************************************************)
TakeAudit ==
  /\ worker = "running"
  /\ sending = <<>>
  /\ queue # <<>>
  /\ sending' = <<Head(queue)>>
  /\ queue' = Tail(queue)
  /\ tries' = 0
  /\ UNCHANGED <<retrievalVars, answerVars, background, worker, utility, published, sent>>

SendAudit ==
  /\ worker = "running"
  /\ sending # <<>>
  /\ published' = published \o sending
  /\ sending' = <<>>
  /\ UNCHANGED <<retrievalVars, answerVars, background, queue, tries, worker, utility, sent>>

Failing ==
  /\ worker = "running"
  /\ sending # <<>>
  /\ \/ published' = published \o sending
     \/ UNCHANGED published

\* Mutant: what failed goes back to the queue.
RetryAuditLater ==
  /\ Failing
  /\ tries < MaxTries
  /\ tries' = tries + 1
  /\ queue' = queue \o sending
  /\ sending' = <<>>
  /\ UNCHANGED <<retrievalVars, answerVars, background, worker, utility, sent>>

\* Mutant: one try more.
RetryAuditOnceMore ==
  /\ Failing
  /\ tries < MaxTries
  /\ tries' = tries + 1
  /\ UNCHANGED <<retrievalVars, answerVars, background, queue, sending, worker, utility, sent>>

\* Mutant: there is always another try.
RetryAuditForever ==
  /\ Failing /\ UNCHANGED published
  /\ tries' = (tries + 1) % MaxTries
  /\ UNCHANGED <<retrievalVars, answerVars, background, queue, sending, worker, utility, sent>>

\* backoff: try again.
RetryAudit ==
  /\ Failing
  /\ tries + 1 < MaxTries
  /\ tries' = tries + 1
  /\ UNCHANGED <<retrievalVars, answerVars, background, queue, sending, worker, utility, sent>>

\* The last try raises: the request is dropped, and a RuntimeError ends the
\* worker for good.
GiveUp ==
  /\ Failing
  /\ tries + 1 >= MaxTries
  /\ sending' = <<>>
  /\ worker' \in {"running", "ended"}
  /\ UNCHANGED <<retrievalVars, answerVars, background, queue, tries, utility, sent>>

(***************************************************************************)
(* stop_audit_utility: the utility goes, then the worker is cancelled with *)
(* whatever it is sending and whatever is queued.                          *)
(***************************************************************************)
StopUtility ==
  /\ MayFinish /\ utility
  /\ utility' = FALSE
  /\ UNCHANGED <<retrievalVars, answerVars, background, queue, sending, tries, worker,
                 published, sent>>

CancelWorker ==
  /\ ~utility /\ worker = "running"
  /\ worker' = "ended"
  /\ \/ published' = published \o sending
     \/ UNCHANGED published
  /\ sending' = <<>>
  /\ UNCHANGED <<retrievalVars, answerVars, background, queue, tries, utility, sent>>

WorkerStep == TakeAudit \/ SendAudit \/ RetryAudit \/ GiveUp

=============================================================================
